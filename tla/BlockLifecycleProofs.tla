----------------------- MODULE BlockLifecycleProofs -----------------------
(***************************************************************************)
(* What BlockLifecycle guarantees for any number of threads, blocks and    *)
(* pages and for every configuration.  The inductive invariant IInv has a  *)
(* part about each block record (Sane) and a part about what each thread   *)
(* has in hand (ThreadOK).  The record lemmas say what the operators do to *)
(* one block, the step lemmas what the actions do to all.                  *)
(***************************************************************************)
EXTENDS BlockLifecycle, FiniteSetTheorems, TLAPS

(* A block has a page while it is in the cache, is mapped only where the   *)
(* unmapping of active victims will find it, and is on the list of its     *)
(* state if it is on one.                                                  *)
Literal(r) ==
    /\ r.page <=> r.state # "INIT"
    /\ Has(r, "HPT") => r.state \in {"ACTIVE", "TRANS_PL", "TRANS_AL"}
    /\ r.mapped => Has(r, "HPT") /\ r.w = "none"
    /\ r.w = "freed" => r.done
    /\ r.list \in {"proactive", "pin", "active"} => r.state = "ACTIVE"
    /\ r.list = "inactive" => r.state = "INACTIVE"
    /\ r.list = "writeback" => r.state = "WB"
Sane(r) == r \in Block /\ Literal(r)

(* What a step may do to a block @r to make it @s.                         *)
Keeps(r, s) ==
    /\ r.page /\ ~s.page => ~r.mapped /\ (r.w = "none" \/ r.done)
    /\ /\ r.state \in {"ACTIVE", "INACTIVE"}
       /\ Has(r, "PINNED") /\ Has(s, "PINNED")
       => s.state \in {"ACTIVE", "INACTIVE"}

(* The victims of a thread are in the state of its stage, and its block is *)
(* remote until it is fetched and active when it is to be mapped.  Blocks  *)
(* on their way up keep the state they were found in.                      *)
Pipeline == {"proactive", "unpin", "rescan", "demote", "demoted", "active", "unmap",
             "eager", "force", "inactive", "evict", "release", "reap"}
Serving(s) == IF s.pc \in Pipeline THEN s.ret ELSE s.pc
VictimOf(p, state) ==
    \/ p = "demote" /\ state = "TRANS_PL"
    \/ p = "demoted" /\ state = "ACTIVE"
    \/ p = "unmap" /\ state = "TRANS_AL"
    \/ p = "eager" /\ state = "INACTIVE"
    \/ p = "evict" /\ state = "TRANS_IL"
    \/ p = "release" /\ state \in {"INIT", "TRANS_IL"}
    \/ p = "reap" /\ state = "WB"
Hands(s) == s.cur \cup s.vs \cup s.up
ThreadOK(t) ==
    /\ \A b \in Hands(th[t]) : blk[b].holder = t
    /\ \A a, b \in th[t].cur : a = b
    /\ th[t].cur \cap th[t].vs = {}
    /\ th[t].up \cap (th[t].cur \cup th[t].vs) = {}
    /\ \A b \in th[t].up : blk[b].state \in {"ACTIVE", "INACTIVE"}
    /\ \A b \in th[t].vs : VictimOf(th[t].pc, blk[b].state)
    /\ Serving(th[t]) = "alloc" => \A b \in th[t].cur : blk[b].state = "INIT"
    /\ Serving(th[t]) = "map" => \A b \in th[t].cur : blk[b].state = "ACTIVE"

IInv ==
    /\ TypeOK
    /\ \A b \in Blocks : Literal(blk[b])
    /\ \A t \in Threads : ThreadOK(t)

-----------------------------------------------------------------------------
(* Record lemmas.                                                          *)
Becomes(r, s, holder, state) ==
    Sane(s) /\ Keeps(r, s) /\ s.holder = holder /\ s.state = state

(* What is left of a block whose request was waited for or given up.       *)
Drained(r, s) ==
    /\ s \in Block
    /\ s.holder = r.holder /\ s.state = r.state /\ s.list = r.list
    /\ s.page = r.page /\ s.mapped = r.mapped /\ s.done = r.done
    /\ s.flags \subseteq r.flags
    /\ r.flags \ s.flags \subseteq {"EAGER_WBR", "DIRTY", "PREFETCHED"}
    /\ s.w \in {r.w, "none"}

USE DEF Becomes, Sane, Literal, Keeps, Block, Flags, KeepFlags, States, Lists,
        Requests, Has, Set, Clear, Lock, Unlock, Take, Lift, Relist, Ready, Misread, map

LEMMA WaitDrains ==
    ASSUME NEW r, Sane(r)
    PROVE  /\ Drained(r, wait_read_async(r))
           /\ ~Misread(r) => wait_read_async(r).w = "none"
           /\ wait_read_async(r).flags = r.flags
  <1>1. CASE r.w # "fetch"
    BY <1>1 DEF wait_read_async, Drained
  <1>2. CASE r.w = "fetch"
    BY <1>2 DEF wait_read_async, free_remote_page, Drained
  <1> QED BY <1>1, <1>2

LEMMA EagerDrains ==
    ASSUME NEW r, Sane(r)
    PROVE  Drained(r, check_eager_wbr(r))
  <1>1. CASE ~Has(r, "EAGER_WBR")
    BY <1>1 DEF check_eager_wbr, Drained
  <1>2. CASE Has(r, "EAGER_WBR")
    BY <1>2 DEF check_eager_wbr, Drained
  <1> QED BY <1>1, <1>2

LEMMA DrainedSane ==
    ASSUME NEW r, NEW s, Sane(r), Drained(r, s)
    PROVE  Becomes(r, s, r.holder, r.state)
  BY DEF Drained

LEMMA PrefetchedDrains ==
    ASSUME NEW r, Sane(r)
    PROVE  /\ Drained(r, wait_for_prefetched_block(r))
           /\ ~Misread(r) => wait_for_prefetched_block(r).w = "none"
  <1> DEFINE s == wait_read_async(r)
  <1>1. Drained(r, s) /\ (~Misread(r) => s.w = "none")
    BY WaitDrains
  <1> HIDE DEF s
  <1>2. Drained(r, Clear(s, {"PREFETCHED"})) /\ Clear(s, {"PREFETCHED"}).w = s.w
    BY <1>1 DEF Drained
  <1> QED BY <1>1, <1>2 DEF wait_for_prefetched_block, s

LEMMA ClearDrains ==
    ASSUME NEW r, Sane(r)
    PROVE  /\ Drained(r, clear_block_w(r))
           /\ Has(r, "PREFETCHED") /\ ~Misread(check_eager_wbr(r))
                => clear_block_w(r).w = "none"
  <1> DEFINE e == check_eager_wbr(r)
  <1>1. Drained(r, e) /\ Sane(e) /\ (Has(r, "PREFETCHED") <=> Has(e, "PREFETCHED"))
    <2>1. Drained(r, e)
      BY EagerDrains
    <2>2. Sane(e)
      BY <2>1, DrainedSane
    <2>3. Has(r, "PREFETCHED") <=> Has(e, "PREFETCHED")
      BY DEF check_eager_wbr
    <2> QED BY <2>1, <2>2, <2>3
  <1> HIDE DEF e
  <1>2. CASE ~Has(e, "PREFETCHED")
    BY <1>1, <1>2 DEF clear_block_w, e
  <1>3. CASE Has(e, "PREFETCHED")
    <2>1. /\ Drained(e, wait_for_prefetched_block(e))
          /\ ~Misread(e) => wait_for_prefetched_block(e).w = "none"
      BY <1>1, PrefetchedDrains
    <2>2. clear_block_w(r) = wait_for_prefetched_block(e)
      BY <1>3 DEF clear_block_w, e
    <2>3. Drained(r, wait_for_prefetched_block(e))
      BY <1>1, <2>1 DEF Drained
    <2> QED BY <2>1, <2>2, <2>3 DEF e
  <1> QED BY <1>2, <1>3

-----------------------------------------------------------------------------
LEMMA LockSane ==
    ASSUME NEW r, Sane(r), NEW t \in Threads
    PROVE  Becomes(r, Lock(r, t), t, r.state)
  OBVIOUS

LEMMA UnlockSane ==
    ASSUME NEW r, Sane(r)
    PROVE  Becomes(r, Unlock(r), NoThread, r.state)
  OBVIOUS

LEMMA MappedSane ==
    ASSUME NEW r, Sane(r), r.mapped
    PROVE  Becomes(r, Unlock(map(r)), NoThread, r.state)
  OBVIOUS

LEMMA ResumeSane ==
    ASSUME NEW r, Sane(r), r.state = "ACTIVE", Has(r, "PREFETCHED"), Has(r, "HPT"),
           ~Misread(check_eager_wbr(r))
    PROVE  Becomes(r, Unlock(map(clear_block_w(r))), NoThread, "ACTIVE")
  <1> DEFINE s == clear_block_w(r)
  <1>1. Drained(r, s) /\ s.w = "none"
    BY ClearDrains
  <1> HIDE DEF s
  <1>2. Has(s, "HPT")
    BY <1>1 DEF Drained
  <1>3. Unlock(map(s)) \in Block
    BY <1>1 DEF Drained
  <1> QED BY <1>1, <1>2, <1>3 DEF Drained, s

LEMMA DrainSane ==
    ASSUME NEW r, Sane(r)
    PROVE  Becomes(r, clear_block_w(r), r.holder, r.state)
  BY ClearDrains, DrainedSane

LEMMA InactiveFaultSane ==
    ASSUME NEW r, Sane(r), r.state = "INACTIVE"
    PROVE  Becomes(r, add_gpas_to_active_list(clear_block_w(r), "proactive"),
                   r.holder, "ACTIVE")
  <1> DEFINE s == clear_block_w(r)
  <1>1. Drained(r, s)
    BY ClearDrains
  <1> HIDE DEF s
  <1>2. s.mapped = FALSE
    BY <1>1 DEF Drained
  <1> QED BY ZenonT(60), <1>1, <1>2 DEF Drained, s, add_gpas_to_active_list, ActiveTarget

LEMMA WritebackFaultSane ==
    ASSUME NEW r, Sane(r), r.state = "WB"
    PROVE  Becomes(r, add_gpas_to_active_list(
                          free_remote_page(clear_writeback_block(r)), "proactive"),
                   r.holder, "ACTIVE")
  BY ZenonT(60) DEF add_gpas_to_active_list, ActiveTarget, free_remote_page, clear_writeback_block

LEMMA FetchSane ==
    ASSUME NEW r, Sane(r), r.state = "INIT", NEW op,
           NEW target \in {"proactive", "active"}
    PROVE  Becomes(r, add_gpas_to_active_list(FetchedBlock(r, op), target),
                   r.holder, "ACTIVE")
  <1> DEFINE f == FetchedBlock(r, op)
  <1>1. /\ f \in Block /\ f.page /\ f.mapped = r.mapped /\ f.list = r.list
        /\ f.w # "freed" /\ f.holder = r.holder
    <2> DEFINE g == [Set(r, {"TOUCHED"}) EXCEPT !.page = TRUE,
                        !.w = IF Has(r, "TOUCHED") THEN "fetch" ELSE "none",
                        !.done = ~Has(r, "TOUCHED")]
    <2>1. /\ g \in Block /\ g.page /\ g.mapped = r.mapped /\ g.list = r.list
          /\ g.w # "freed" /\ g.holder = r.holder
      OBVIOUS
    <2>2. f \in {g, Set(g, {"PREFETCHED", "HPT"}), Set(g, {"PREFETCHED", "PROMOTE"})}
      BY DEF FetchedBlock
    <2> HIDE DEF f, g
    <2> QED BY <2>1, <2>2
  <1> HIDE DEF f
  <1>2. f.mapped = FALSE
    BY <1>1
  <1> QED BY ZenonT(60), <1>1, <1>2 DEF f, add_gpas_to_active_list, ActiveTarget

LEMMA MapSane ==
    ASSUME NEW r, Sane(r), r.state = "ACTIVE", ~Misread(r), NEW F \in SUBSET Flags
    PROVE  Becomes(r, Unlock(map(Set(wait_read_async(r), {"HPT"} \cup F))),
                   NoThread, "ACTIVE")
  <1> DEFINE s == wait_read_async(r)
  <1>1. Drained(r, s) /\ s.w = "none"
    BY WaitDrains
  <1> HIDE DEF s
  <1> DEFINE m == Unlock(map(Set(s, {"HPT"} \cup F)))
  <1>2. /\ m \in Block
        /\ m.page = r.page /\ m.state = r.state /\ m.list = r.list
        /\ m.w = "none" /\ m.holder = NoThread
        /\ "HPT" \in m.flags
    BY <1>1 DEF Drained
  <1> HIDE DEF m
  <1> QED BY <1>1, <1>2 DEF s, m

LEMMA ClearInFlightSane ==
    ASSUME NEW r, Sane(r), Ready(r)
    PROVE  Becomes(r, Unlock(ClearInFlight(r)), NoThread, r.state)
  <1>1. CASE r.w # "fetch"
    BY <1>1 DEF ClearInFlight
  <1>2. CASE r.w = "fetch"
    BY ZenonT(60), <1>2 DEF ClearInFlight, free_remote_page
  <1> QED BY <1>1, <1>2

LEMMA ReleaseSane ==
    ASSUME NEW r, Sane(r), r.state \in {"WB", "TRANS_IL"}, Ready(r)
    PROVE  Becomes(r, set_gpa_remote(r), r.holder, "INIT")
  BY ZenonT(60) DEF set_gpa_remote

LEMMA DemoteSane ==
    ASSUME NEW r, Sane(r), r.state \in {"TRANS_PL", "ACTIVE"}
    PROVE  Becomes(r, add_gpas_to_active_list(r, "active"), r.holder, "ACTIVE")
  BY ZenonT(60) DEF add_gpas_to_active_list, ActiveTarget

(* A block changes lists, at once or by way of the hands of a thread, or   *)
(* becomes a victim unless it is pinned.                                   *)
LEMMA RelistSane ==
    ASSUME NEW r, Sane(r), r.state = "ACTIVE", NEW l \in {"proactive", "pin", "active"}
    PROVE  Becomes(r, Relist(Clear(r, {"PINNED"}), l), r.holder, "ACTIVE")
  BY ZenonT(60)

LEMMA LiftSane ==
    ASSUME NEW r, Sane(r), NEW t \in Threads
    PROVE  /\ Becomes(r, Lift(r, t), t, r.state)
           /\ Becomes(r, Clear(Lift(r, t), {"PROMOTE"}), t, r.state)
           /\ Becomes(r, Clear(Lift(r, t), {"PINNED"}), t, r.state)
  <1> DEFINE s == Lift(r, t)
  <1>1. /\ s \in Block /\ s.holder = t /\ s.state = r.state /\ s.list = "none"
        /\ s.page = r.page /\ s.flags = r.flags /\ s.w = r.w /\ s.done = r.done
        /\ s.mapped = r.mapped
    OBVIOUS
  <1> HIDE DEF s
  <1>2. Becomes(r, s, t, r.state)
    BY <1>1
  <1>3. ASSUME NEW f \in {"PROMOTE", "PINNED"}
        PROVE  Becomes(r, Clear(s, {f}), t, r.state)
    <2> DEFINE c == Clear(s, {f})
    <2>1. /\ c \in Block /\ c.holder = t /\ c.state = r.state /\ c.list = "none"
          /\ c.page = r.page /\ c.flags = r.flags \ {f} /\ c.w = r.w /\ c.done = r.done
          /\ c.mapped = r.mapped
      BY <1>1
    <2> HIDE DEF c
    <2> QED BY <1>1, <2>1 DEF c
  <1> QED BY <1>2, <1>3 DEF s

LEMMA TakeSane ==
    ASSUME NEW r, Sane(r), ~Has(r, "PINNED"), NEW t \in Threads
    PROVE  /\ r.state = "ACTIVE" =>
                /\ Becomes(r, Clear(Take(r, t, "TRANS_PL"), {"PROACTIVE"}), t, "TRANS_PL")
                /\ Becomes(r, Take(r, t, "TRANS_AL"), t, "TRANS_AL")
                /\ Becomes(r, Clear(Take(r, t, "TRANS_AL"), {"PROACTIVE"}), t, "TRANS_AL")
           /\ r.state = "INACTIVE" => Becomes(r, Take(r, t, "TRANS_IL"), t, "TRANS_IL")
  <1>1. ASSUME r.state = "ACTIVE"
        PROVE  Becomes(r, Clear(Take(r, t, "TRANS_PL"), {"PROACTIVE"}), t, "TRANS_PL")
    BY ZenonT(60), <1>1
  <1>2. ASSUME r.state = "ACTIVE"
        PROVE  Becomes(r, Take(r, t, "TRANS_AL"), t, "TRANS_AL")
    BY <1>2
  <1>3. ASSUME r.state = "ACTIVE"
        PROVE  Becomes(r, Clear(Take(r, t, "TRANS_AL"), {"PROACTIVE"}), t, "TRANS_AL")
    BY ZenonT(60), <1>3
  <1>4. ASSUME r.state = "INACTIVE"
        PROVE  Becomes(r, Take(r, t, "TRANS_IL"), t, "TRANS_IL")
    BY <1>4
  <1> QED BY <1>1, <1>2, <1>3, <1>4

LEMMA ReapSane ==
    ASSUME NEW r, Sane(r), r.state = "WB", NEW t \in Threads
    PROVE  Becomes(r, Take(r, t, "WB"), t, "WB")
  OBVIOUS

LEMMA MoveToPinSane ==
    ASSUME NEW r, Sane(r), r.state \in {"ACTIVE", "INACTIVE"}, NEW mapped \in BOOLEAN
    PROVE  Becomes(r, Unlock(move_to_pin_list(r, mapped)), NoThread, "ACTIVE")
  BY ZenonT(60) DEF move_to_pin_list

LEMMA PromoteSane ==
    ASSUME NEW r, Sane(r), r.state \in {"ACTIVE", "INACTIVE"}, NEW mapped \in BOOLEAN
    PROVE  Becomes(r, Unlock(promote_gpas(r, mapped)), NoThread, "ACTIVE")
  BY ZenonT(60) DEF promote_gpas

LEMMA PromoteInactiveSane ==
    ASSUME NEW r, Sane(r), r.state = "INACTIVE"
    PROVE  Becomes(r, Unlock(promote_gpas(check_eager_wbr(r), FALSE)), NoThread, "ACTIVE")
  <1> DEFINE e == check_eager_wbr(r)
  <1>1. Drained(r, e)
    BY EagerDrains
  <1> HIDE DEF e
  <1>2. e.mapped = FALSE
    BY <1>1 DEF Drained
  <1> QED BY ZenonT(60), <1>1, <1>2 DEF Drained, e, promote_gpas

(* Off the page tables, and what update_active_list() may do to it then.   *)
LEMMA UnmapSane ==
    ASSUME NEW r, Sane(r), r.state \in {"ACTIVE", "TRANS_AL"}
    PROVE  LET u == Unmapped(r)
           IN  Sane(u) /\ u.holder = r.holder /\ u.state = "INACTIVE" /\ ~u.mapped
  <1> DEFINE d == IF Has(r, "PREFETCHED") THEN wait_for_prefetched_block(r) ELSE r
  <1>1. Sane(d) /\ d.holder = r.holder /\ d.state = r.state
    BY PrefetchedDrains, DrainedSane DEF Drained
  <1> HIDE DEF d
  <1> DEFINE u == unmap_gpas(d)
  <1>2. /\ u \in Block /\ ~u.mapped /\ u.page = d.page /\ u.w = d.w
        /\ u.done = d.done /\ u.holder = d.holder /\ ~Has(u, "HPT")
    <2>1. CASE ~Has(d, "HPT")
      BY <1>1, <2>1 DEF unmap_gpas
    <2>2. CASE Has(d, "HPT")
      BY ZenonT(60), <1>1, <2>2 DEF unmap_gpas
    <2> QED BY <2>1, <2>2
  <1> HIDE DEF u
  <1> DEFINE n == add_gpas_to_inactive(u)
  <1>3. /\ n \in Block /\ ~n.mapped /\ n.page = u.page /\ n.w = u.w /\ n.done = u.done
        /\ n.holder = r.holder /\ n.state = "INACTIVE" /\ n.list = "inactive"
        /\ ~Has(n, "HPT")
    <2>1. u \in Block /\ ~u.mapped /\ u.holder = r.holder /\ ~Has(u, "HPT")
      BY <1>1, <1>2
    <2> HIDE DEF Sane
    <2> QED BY <2>1 DEF add_gpas_to_inactive
  <1>4. d.page /\ (d.w = "freed" => d.done)
    BY <1>1
  <1> HIDE DEF n
  <1>5. Sane(n)
    BY <1>2, <1>3, <1>4
  <1> QED BY <1>3, <1>5 DEF Unmapped, n, u, d

LEMMA EvictErrorSane ==
    ASSUME NEW r, Sane(r), NEW e \in evict_block_errors(r)
    PROVE  Becomes(r, Unlock(e), NoThread, r.state)
  <1> DEFINE s == clear_block_w(r)
  <1>1. Sane(s) /\ s.state = r.state /\ s.page = r.page
    BY ClearDrains, DrainedSane DEF Drained
  <1>2. PICK c \in {"none", "stale", "fresh"} : e = [s EXCEPT !.remote = c]
    <2>1. s.remote \in {"none", "stale", "fresh"} /\ s = [s EXCEPT !.remote = s.remote]
      BY <1>1
    <2> HIDE DEF s
    <2> DEFINE q == [s EXCEPT !.remote = IF @ = "none" THEN "stale" ELSE @]
    <2>2. /\ e \in {free_remote_page(q), s}
      BY DEF evict_block_errors, s
    <2>3. CASE e = s
      BY <2>1, <2>3
    <2>4. CASE e = free_remote_page(q)
      <3>1. /\ q = [s EXCEPT !.remote = q.remote]
            /\ [q EXCEPT !.remote = "none"] = [s EXCEPT !.remote = "none"]
            /\ q.remote \in {"none", "stale", "fresh"}
        BY <1>1, <2>1
      <3> HIDE DEF q
      <3>2. e \in {q, [q EXCEPT !.remote = "none"]}
        <4>1. CASE RemoteReuse
          <5>1. free_remote_page(q) = [q EXCEPT !.remote = q.remote]
            BY <4>1 DEF free_remote_page
          <5>2. [q EXCEPT !.remote = q.remote] = q
            BY <3>1, <1>1
          <5> QED BY <2>4, <5>1, <5>2
        <4>2. CASE ~RemoteReuse
          BY <2>4, <4>2 DEF free_remote_page
        <4> QED BY <4>1, <4>2
      <3> QED BY <3>1, <3>2
    <2> QED BY <2>2, <2>3, <2>4
  <1> HIDE DEF s
  <1> DEFINE u == Unlock([s EXCEPT !.remote = c])
  <1>3. /\ u \in Block /\ u.page = s.page /\ u.mapped = s.mapped /\ u.w = s.w
        /\ u.done = s.done /\ u.flags = s.flags /\ u.list = s.list
        /\ u.state = s.state /\ u.holder = NoThread
    BY <1>1
  <1> HIDE DEF u
  <1>4. Becomes(r, u, NoThread, r.state)
    BY <1>1, <1>3
  <1> QED BY <1>2, <1>4 DEF u

LEMMA EagerEvictSane ==
    ASSUME NEW r, Sane(r), r.state = "INACTIVE"
    PROVE  Becomes(r, Unlock(eager_evict(r)), NoThread, "INACTIVE")
  <1> DEFINE s == clear_block_w(r)
  <1>1. Drained(r, s) /\ Sane(s)
    BY ClearDrains, DrainedSane
  <1> HIDE DEF s
  <1> QED BY ZenonT(60), <1>1 DEF Drained, s, eager_evict, post_writeback

LEMMA WritebackEvictSane ==
    ASSUME NEW r, Sane(r), r.state = "TRANS_IL"
    PROVE  Becomes(r, Unlock(writeback_evict(r)), NoThread, "WB")
  <1> DEFINE s == clear_block_w(r)
  <1>1. Drained(r, s) /\ Sane(s)
    BY ClearDrains, DrainedSane
  <1> HIDE DEF s
  <1> QED BY <1>1 DEF Drained, s, writeback_evict, post_writeback

(* emp_writeback_block() up to its decision.                               *)
LEMMA NeedCheckSane ==
    ASSUME NEW r, Sane(r)
    PROVE  /\ Drained(r, check_eager_wbr(r)) /\ Sane(check_eager_wbr(r))
           /\ Drained(r, AfterNeedCheck(check_eager_wbr(r)))
           /\ Sane(AfterNeedCheck(check_eager_wbr(r)))
  <1> DEFINE e == check_eager_wbr(r)
  <1>1. Drained(r, e) /\ Sane(e)
    BY EagerDrains, DrainedSane
  <1> HIDE DEF e
  <1>2. AfterNeedCheck(e) \in {e, Clear(e, {"DIRTY"})}
    BY DEF AfterNeedCheck
  <1>3. Drained(r, Clear(e, {"DIRTY"}))
    BY <1>1 DEF Drained
  <1>4. Drained(r, AfterNeedCheck(e))
    BY <1>1, <1>2, <1>3
  <1> QED BY <1>1, <1>4, DrainedSane DEF e

LEMMA HintSane ==
    ASSUME NEW r, Sane(r), NEW F \in SUBSET (Flags \ {"HPT"})
    PROVE  /\ Becomes(r, Set(r, F), r.holder, r.state)
           /\ Becomes(r, Clear(r, F), r.holder, r.state)
  OBVIOUS

LEMMA PopulateSane ==
    ASSUME NEW r, Sane(r), Has(r, "PREFETCHED"), Has(r, "HPT"), ~Misread(r)
    PROVE  LET s == Set(Clear(map(wait_read_async(r)), {"PREFETCHED"}), {"PROMOTE"})
           IN  Becomes(r, s, r.holder, r.state)
  <1> DEFINE d == wait_read_async(r)
  <1>1. /\ d \in Block /\ d.w = "none" /\ d.flags = r.flags /\ d.holder = r.holder
        /\ d.state = r.state /\ d.list = r.list /\ d.page = r.page
    BY WaitDrains DEF Drained
  <1> HIDE DEF d
  <1> DEFINE s == Set(Clear(map(d), {"PREFETCHED"}), {"PROMOTE"})
  <1>2. /\ s \in Block /\ s.w = "none" /\ Has(s, "HPT") /\ s.holder = r.holder
        /\ s.state = r.state /\ s.list = r.list /\ s.page = r.page
    BY <1>1
  <1> HIDE DEF s
  <1>3. Becomes(r, s, r.holder, r.state)
    BY <1>2
  <1> QED BY <1>3 DEF s, d

LEMMA DontNeedSane ==
    ASSUME NEW r, Sane(r), r.state = "ACTIVE", NEW t \in Threads
    PROVE  LET s == Clear(r, {"PROMOTE", "PINNED"})
           IN  Becomes(r, Clear(Take(s, t, "TRANS_AL"), {"PROACTIVE"}), t, "TRANS_AL")
  BY ZenonT(60)

LEMMA WriteSane ==
    ASSUME NEW r, Sane(r), r.mapped
    PROVE  Becomes(r, [r EXCEPT !.pteDirty = TRUE,
                                !.remote = IF @ = "fresh" THEN "stale" ELSE @],
                   r.holder, r.state)
  OBVIOUS

LEMMA CompleteSane ==
    ASSUME NEW r, Sane(r)
    PROVE  Becomes(r, [r EXCEPT !.done = TRUE,
                                !.remote = IF r.w = "fetch" THEN @ ELSE "fresh"],
                   r.holder, r.state)
  <1> DEFINE s == [r EXCEPT !.done = TRUE,
                            !.remote = IF r.w = "fetch" THEN @ ELSE "fresh"]
  <1>1. /\ s \in Block /\ s.done
        /\ s.holder = r.holder /\ s.state = r.state /\ s.list = r.list
        /\ s.flags = r.flags /\ s.w = r.w /\ s.page = r.page /\ s.mapped = r.mapped
    BY ZenonT(60)
  <1> HIDE DEF s
  <1>2. Becomes(r, s, r.holder, r.state)
    BY <1>1
  <1> QED BY <1>2 DEF s

HIDE DEF Becomes, Sane, Literal, Keeps, Block, Flags, KeepFlags, States, Lists,
         Requests, Has, Set, Clear, Lock, Unlock, Take, Lift, Relist, Ready, Misread, map

-----------------------------------------------------------------------------
(* Step lemmas.  BlocksOK is what a step of @t does to the blocks: it      *)
(* leaves those alone that another thread holds.                           *)
BlocksOK(t) ==
    /\ blk' \in [Blocks -> Block]
    /\ \A b \in Blocks : /\ Sane(blk'[b]) /\ Keeps(blk[b], blk'[b])
                         /\ blk[b].holder \in {t, NoThread} \/ blk'[b] = blk[b]
ThreadsOK(t) == th' \in [Threads -> Thread] /\ \A u \in Threads \ {t} : th'[u] = th[u]
Dues == Threads \X Counters \X {"add", "sub"} \X Blocks
StepOK(t) ==
    /\ BlocksOK(t)
    /\ ThreadsOK(t)
    /\ len' \in [Counters -> Int]
    /\ owed' \subseteq Dues
    /\ free' \in Nat
    /\ panic' \in {"none", "BUG", "misread"}
    /\ ThreadOK(t)'

LEMMA BlocksSane ==
    ASSUME IInv
    PROVE  \A b \in Blocks : Sane(blk[b]) /\ Keeps(blk[b], blk[b])
  BY DEF IInv, TypeOK, Sane, Keeps

LEMMA SameBlocks ==
    ASSUME IInv, NEW t \in Threads, UNCHANGED blk
    PROVE  BlocksOK(t)
  BY BlocksSane DEF IInv, TypeOK, BlocksOK

(* The step changes block @b alone, for its owner or while it is unlocked. *)
OnlyBlock(t, b, h, state) ==
    /\ blk[b].holder \in {t, NoThread}
    /\ Becomes(blk[b], blk'[b], h, state)
    /\ blk' = [blk EXCEPT ![b] = blk'[b]]

LEMMA OneBlock ==
    ASSUME IInv, NEW t \in Threads, NEW b \in Blocks, NEW h, NEW state,
           OnlyBlock(t, b, h, state)
    PROVE  BlocksOK(t) /\ blk'[b].holder = h /\ blk'[b].state = state
  BY BlocksSane DEF IInv, TypeOK, BlocksOK, OnlyBlock, Becomes, Sane

LEMMA SomeBlocks ==
    ASSUME IInv, NEW t \in Threads, NEW V \in SUBSET Blocks,
           blk' = [b \in Blocks |-> blk'[b]],
           \A b \in Blocks \ V : blk'[b] = blk[b],
           \A b \in V : /\ blk[b].holder \in {t, NoThread}
                        /\ \E h, state : Becomes(blk[b], blk'[b], h, state)
    PROVE  BlocksOK(t)
  <1>1. \A b \in Blocks : Sane(blk'[b]) /\ Keeps(blk[b], blk'[b])
    BY BlocksSane DEF Becomes
  <1>2. \A b \in Blocks : blk'[b] \in Block
    BY <1>1 DEF Sane
  <1> QED BY <1>1, <1>2 DEF BlocksOK

LEMMA StepPreserves ==
    ASSUME IInv, NEW t \in Threads, StepOK(t)
    PROVE  IInv' /\ \A b \in Blocks : Keeps(blk[b], blk'[b])
  <1>1. TypeOK'
    BY DEF StepOK, BlocksOK, ThreadsOK, TypeOK, Dues
  <1>2. \A b \in Blocks : Literal(blk'[b]) /\ Keeps(blk[b], blk'[b])
    BY DEF StepOK, BlocksOK, Sane
  <1>3. ASSUME NEW u \in Threads PROVE ThreadOK(u)'
    <2>1. CASE u = t
      BY <2>1 DEF StepOK
    <2>2. CASE u # t
      <3>0. th'[u] = th[u] /\ th[u] \in Thread /\ ThreadOK(u)
        BY <2>2 DEF StepOK, ThreadsOK, IInv, TypeOK
      <3>1. \A b \in Hands(th[u]) : b \in Blocks /\ blk'[b] = blk[b]
        BY <2>2, <3>0, LifecycleAssumption
           DEF StepOK, BlocksOK, ThreadOK, Thread, Hands
      <3> QED BY <3>0, <3>1 DEF ThreadOK, Hands
    <2> QED BY <2>1, <2>2
  <1> QED BY <1>1, <1>2, <1>3 DEF IInv

(* What a step adds to owed.                                               *)
LEMMA DuesOf ==
    ASSUME NEW t \in Threads, NEW V \in SUBSET Blocks
    PROVE  /\ \A c \in Counters : Adds(t, c, V) \subseteq Dues /\ Subs(t, c, V) \subseteq Dues
           /\ \A l \in {"proactive", "pin", "active"} : AddsToList(t, l, V) \subseteq Dues
           /\ sub_inactive_list_page_len(t, V) \subseteq Dues
  <1>1. ASSUME NEW c \in Counters
        PROVE  Adds(t, c, V) \subseteq Dues /\ Subs(t, c, V) \subseteq Dues
    BY DEF Adds, Subs, Dues
  <1>2. {"proactive", "active", "inactive", "cur_pin"} \subseteq Counters
    BY DEF Counters
  <1> QED BY <1>1, <1>2 DEF AddsToList, sub_inactive_list_page_len

LEMMA OweType ==
    ASSUME IInv, NEW S \in SUBSET Dues, Owe(S)
    PROVE  owed' \subseteq Dues
  BY DEF Owe, IInv, TypeOK, Dues

-----------------------------------------------------------------------------
LEMMA FaultLockStep ==
    ASSUME IInv, NEW t \in Threads, NEW b \in Blocks, NEW op \in {"read", "write"},
           FaultLock(t, b, op)
    PROVE  StepOK(t)
  <1>1. BlocksOK(t) /\ blk'[b].holder = t
    <2>1. blk'[b] = Lock(blk[b], t) /\ blk' = [blk EXCEPT ![b] = blk'[b]]
      BY DEF FaultLock, IInv, TypeOK
    <2>2. Becomes(blk[b], blk'[b], t, blk[b].state)
      BY <2>1, BlocksSane, LockSane
    <2>3. OnlyBlock(t, b, t, blk[b].state)
      BY <2>1, <2>2 DEF FaultLock, OnlyBlock
    <2> QED BY <2>3, OneBlock
  <1>2. ThreadsOK(t)
    BY DEF ThreadsOK, FaultLock, Enter, IInv, TypeOK, Thread, PCs, Entry
  <1>3. ThreadOK(t)'
    BY <1>1 DEF FaultLock, Enter, IInv, TypeOK, ThreadOK, Hands, Serving, Pipeline
  <1> QED BY <1>1, <1>2, <1>3 DEF StepOK, FaultLock, IInv, TypeOK, Dues

LEMMA FaultActiveStep ==
    ASSUME IInv, NEW t \in Threads, NEW b \in Blocks, FaultActive(t, b)
    PROVE  StepOK(t)
  <1> DEFINE r == blk[b]
             resumed == Has(r, "PREFETCHED") /\ Has(r, "HPT")
             c == clear_block_w(r)
  <1>0. /\ r.state = "ACTIVE" /\ r.holder = t /\ Sane(r)
        /\ th[t].pc = "local" /\ b \in th[t].cur /\ th[t].vs = {} /\ th[t].up = {}
        /\ \A a \in th[t].cur : a = b
    BY BlocksSane DEF FaultActive, At, IInv, ThreadOK, Hands, VictimOf
  <1>1. CASE Panic("misread")
    BY <1>1, SameBlocks DEF Panic, StepOK, ThreadsOK, IInv, TypeOK, ThreadOK, Dues
  <1>2. CASE /\ resumed \/ r.mapped
             /\ ~(Has(r, "PREFETCHED") /\ Misread(check_eager_wbr(r)))
             /\ blk' = [blk EXCEPT ![b] = Unlock(map(IF resumed THEN c ELSE r))]
             /\ Leave(t) /\ UNCHANGED <<len, owed, free, panic>>
    <2>1. Becomes(r, Unlock(map(IF resumed THEN c ELSE r)), NoThread, "ACTIVE")
      BY <1>0, <1>2, ResumeSane, MappedSane
    <2>2. BlocksOK(t)
      <3>1. /\ blk'[b] = Unlock(map(IF resumed THEN c ELSE r))
            /\ blk' = [blk EXCEPT ![b] = blk'[b]]
        BY <1>2 DEF IInv, TypeOK
      <3>2. OnlyBlock(t, b, NoThread, "ACTIVE")
        BY <1>0, <2>1, <3>1 DEF OnlyBlock
      <3> QED BY <3>2, OneBlock
    <2> QED BY <1>2, <2>2 DEF Leave, IdleThread, StepOK, ThreadsOK, IInv, TypeOK, ThreadOK,
                              Dues, Hands, Thread, PCs, Entry, Serving, Pipeline
  <1>3. CASE /\ blk' = [blk EXCEPT ![b] = IF Has(r, "PREFETCHED") THEN c ELSE r]
             /\ Goto(t, "map") /\ UNCHANGED <<len, owed, free, panic>>
    <2>1. Becomes(r, IF Has(r, "PREFETCHED") THEN c ELSE r, t, "ACTIVE")
      BY <1>0, DrainSane, BlocksSane DEF Becomes
    <2>2. BlocksOK(t) /\ blk'[b].holder = t /\ blk'[b].state = "ACTIVE"
      <3>1. /\ blk'[b] = IF Has(r, "PREFETCHED") THEN c ELSE r
            /\ blk' = [blk EXCEPT ![b] = blk'[b]]
        BY <1>3 DEF IInv, TypeOK
      <3>2. OnlyBlock(t, b, t, "ACTIVE")
        BY <1>0, <2>1, <3>1 DEF OnlyBlock
      <3> QED BY <3>2, OneBlock
    <2>3. ThreadsOK(t)
      BY <1>3 DEF ThreadsOK, Goto, IInv, TypeOK, Thread, PCs
    <2>4. ThreadOK(t)'
      BY <1>0, <1>3, <2>2 DEF Goto, IInv, TypeOK, ThreadOK, Hands, Serving, Pipeline
    <2> QED BY <1>3, <2>2, <2>3, <2>4 DEF StepOK, IInv, TypeOK, Dues
  <1> QED BY <1>1, <1>2, <1>3 DEF FaultActive

(* What a thread knows of the blocks in its hands.                         *)
LEMMA InHand ==
    ASSUME IInv, NEW t \in Threads
    PROVE  /\ th[t] \in Thread
           /\ \A b \in Hands(th[t]) :
                 b \in Blocks /\ Sane(blk[b]) /\ blk[b].holder = t
           /\ \A b \in th[t].cur \cup th[t].vs \cup th[t].up :
                 b \in Blocks /\ Sane(blk[b]) /\ blk[b].holder = t
           /\ \A a, b \in th[t].cur : a = b
           /\ th[t].cur \cap th[t].vs = {}
           /\ th[t].pc \notin {"demote", "demoted", "unmap", "eager", "evict",
                               "release", "reap"} => th[t].vs = {}
  BY BlocksSane DEF IInv, TypeOK, Thread, ThreadOK, Hands, VictimOf

LEMMA CallType ==
    ASSUME IInv, NEW t \in Threads, NEW p \in PCs,
           NEW r \in {"idle", "alloc", "map", "finish"}, Call(t, p, r)
    PROVE  /\ ThreadsOK(t)
           /\ th'[t].pc = p /\ th'[t].ret = r /\ th'[t].cur = th[t].cur
           /\ th'[t].vs = th[t].vs /\ th'[t].up = th[t].up
  <1> HIDE DEF PCs
  <1>1. th' = [th EXCEPT ![t] = [th[t] EXCEPT !.pc = p, !.ret = r]]
    BY DEF Call
  <1>2. [th[t] EXCEPT !.pc = p, !.ret = r] \in Thread
    BY DEF IInv, TypeOK, Thread
  <1> QED BY <1>1, <1>2 DEF IInv, TypeOK, ThreadsOK, Thread

(* Where a thread stands after its step.                                   *)
Stands(t, p, V, U) ==
    /\ th'[t].pc = p /\ th'[t].vs = V /\ th'[t].up = U
    /\ th'[t].cur = th[t].cur /\ th'[t].ret = th[t].ret

LEMMA ScannedType ==
    ASSUME IInv, NEW t \in Threads, NEW p \in PCs,
           NEW V \in SUBSET Blocks, NEW U \in SUBSET Blocks, Scanned(t, p, V, U)
    PROVE  ThreadsOK(t) /\ Stands(t, p, V, U)
  <1> HIDE DEF PCs
  <1>1. th' = [th EXCEPT ![t] = [th[t] EXCEPT !.pc = p, !.vs = V, !.up = U]]
    BY DEF Scanned
  <1>2. [th[t] EXCEPT !.pc = p, !.vs = V, !.up = U] \in Thread
    BY DEF IInv, TypeOK, Thread
  <1> QED BY <1>1, <1>2 DEF IInv, TypeOK, ThreadsOK, Stands, Thread

LEMMA GotoWithType ==
    ASSUME IInv, NEW t \in Threads, NEW p \in PCs, NEW V \in SUBSET Blocks,
           GotoWith(t, p, V)
    PROVE  ThreadsOK(t) /\ Stands(t, p, V, th[t].up)
  <1> HIDE DEF PCs
  <1>1. th' = [th EXCEPT ![t] = [th[t] EXCEPT !.pc = p, !.vs = V]]
    BY DEF GotoWith
  <1>2. [th[t] EXCEPT !.pc = p, !.vs = V] \in Thread
    BY DEF IInv, TypeOK, Thread
  <1> QED BY <1>1, <1>2 DEF IInv, TypeOK, ThreadsOK, Stands, Thread

LEMMA GotoType ==
    ASSUME IInv, NEW t \in Threads, NEW p \in PCs, Goto(t, p)
    PROVE  ThreadsOK(t) /\ Stands(t, p, th[t].vs, th[t].up)
  <1> HIDE DEF PCs
  <1>1. th' = [th EXCEPT ![t] = [th[t] EXCEPT !.pc = p]]
    BY DEF Goto
  <1>2. [th[t] EXCEPT !.pc = p] \in Thread
    BY DEF IInv, TypeOK, Thread
  <1> QED BY <1>1, <1>2 DEF IInv, TypeOK, ThreadsOK, Stands, Thread

LEMMA ReturnType ==
    ASSUME IInv, NEW t \in Threads, Return(t)
    PROVE  ThreadsOK(t) /\ Stands(t, th[t].ret, {}, th[t].up)
  <1>1. th' = [th EXCEPT ![t] = [th[t] EXCEPT !.pc = th[t].ret, !.vs = {}]]
    BY DEF Return
  <1>2. [th[t] EXCEPT !.pc = th[t].ret, !.vs = {}] \in Thread
    BY DEF IInv, TypeOK, Thread, PCs
  <1> QED BY <1>1, <1>2 DEF IInv, TypeOK, ThreadsOK, Stands, Thread

LEMMA LeaveType ==
    ASSUME IInv, NEW t \in Threads, Leave(t)
    PROVE  /\ ThreadsOK(t) /\ th'[t] = IdleThread
           /\ ThreadOK(t)'
  <1>1. ThreadsOK(t) /\ th'[t] = IdleThread
    BY DEF Leave, IdleThread, IInv, TypeOK, ThreadsOK, Thread, PCs, Entry
  <1> QED BY <1>1 DEF ThreadOK, IdleThread, Hands, Serving, Pipeline

LEMMA FaultInactiveStep ==
    ASSUME IInv, NEW t \in Threads, NEW b \in Blocks, FaultInactive(t, b)
    PROVE  StepOK(t)
  <1> DEFINE r == blk[b]
             c == clear_block_w(r)
  <1>0. /\ r.state = "INACTIVE" /\ r.holder = t /\ Sane(r)
        /\ b \in th[t].cur /\ th[t].vs = {} /\ th[t].up = {}
        /\ \A a \in th[t].cur : a = b
    BY InHand DEF FaultInactive, At
  <1>1. BlocksOK(t) /\ blk'[b].holder = t /\ blk'[b].state = "ACTIVE"
    <2>1. /\ blk'[b] = add_gpas_to_active_list(c, "proactive")
          /\ blk' = [blk EXCEPT ![b] = blk'[b]]
      BY DEF FaultInactive, IInv, TypeOK
    <2>2. Becomes(r, add_gpas_to_active_list(c, "proactive"), t, "ACTIVE")
      BY <1>0, InactiveFaultSane
    <2>3. OnlyBlock(t, b, t, "ACTIVE")
      BY <1>0, <2>1, <2>2 DEF OnlyBlock
    <2> QED BY <2>3, OneBlock
  <1>2. ThreadsOK(t)
    <2>1. "map" \in PCs
      BY DEF PCs
    <2> QED BY <2>1, GotoType DEF FaultInactive
  <1>3. ThreadOK(t)'
    BY <1>0, <1>1 DEF FaultInactive, Goto, IInv, TypeOK, ThreadOK, Hands, Serving, Pipeline
  <1>4. owed' \subseteq Dues
    <2>1. ActiveTarget(c, "proactive") \in {"proactive", "pin", "active"}
      BY DEF ActiveTarget
    <2> QED BY <2>1, DuesOf, OweType DEF FaultInactive
  <1> QED BY <1>1, <1>2, <1>3, <1>4 DEF StepOK, FaultInactive, IInv, TypeOK

LEMMA FaultWritebackStep ==
    ASSUME IInv, NEW t \in Threads, NEW b \in Blocks, FaultWriteback(t, b)
    PROVE  StepOK(t)
  <1> DEFINE r == blk[b]
             c == free_remote_page(clear_writeback_block(r))
  <1>0. /\ r.state = "WB" /\ r.holder = t /\ Sane(r)
        /\ b \in th[t].cur /\ th[t].vs = {} /\ th[t].up = {}
        /\ \A a \in th[t].cur : a = b
    BY InHand DEF FaultWriteback, At
  <1>1. BlocksOK(t) /\ blk'[b].holder = t /\ blk'[b].state = "ACTIVE"
    <2>1. /\ blk'[b] = add_gpas_to_active_list(c, "proactive")
          /\ blk' = [blk EXCEPT ![b] = blk'[b]]
      BY DEF FaultWriteback, IInv, TypeOK
    <2>2. Becomes(r, add_gpas_to_active_list(c, "proactive"), t, "ACTIVE")
      BY <1>0, WritebackFaultSane
    <2>3. OnlyBlock(t, b, t, "ACTIVE")
      BY <1>0, <2>1, <2>2 DEF OnlyBlock
    <2> QED BY <2>3, OneBlock
  <1>2. ThreadsOK(t)
    <2>1. "proactive" \in PCs
      BY DEF PCs
    <2>2. Call(t, "proactive", "map")
      BY DEF FaultWriteback
    <2> QED BY <2>1, <2>2, CallType
  <1>3. ThreadOK(t)'
    BY <1>0, <1>1 DEF FaultWriteback, Call, IInv, TypeOK, ThreadOK, Hands, Serving, Pipeline
  <1>4. owed' \subseteq Dues
    <2>1. ActiveTarget(c, "proactive") \in {"proactive", "pin", "active"}
      BY DEF ActiveTarget
    <2> QED BY <2>1, DuesOf, OweType DEF FaultWriteback
  <1>5. len' \in [Counters -> Int]
    BY DEF FaultWriteback, IInv, TypeOK, Counters
  <1> QED BY <1>1, <1>2, <1>3, <1>4, <1>5 DEF StepOK, FaultWriteback, IInv, TypeOK

LEMMA PanicStep ==
    ASSUME IInv, NEW t \in Threads, NEW why \in {"BUG", "misread"}, Panic(why)
    PROVE  StepOK(t)
  BY SameBlocks DEF Panic, StepOK, ThreadsOK, IInv, TypeOK, ThreadOK, Dues

(* A thread with nothing but its block in hand goes on to where it has no  *)
(* further obligation.                                                     *)
LEMMA MoveOn ==
    ASSUME IInv, NEW t \in Threads, UNCHANGED <<blk, len, owed, free, panic>>,
           ThreadsOK(t), th[t].vs = {}, th'[t].vs = {}, th'[t].cur = th[t].cur,
           th'[t].up = th[t].up, Serving(th'[t]) = Serving(th[t])
    PROVE  StepOK(t)
  BY SameBlocks DEF StepOK, ThreadsOK, IInv, TypeOK, ThreadOK, Hands, Dues

LEMMA FaultRemoteStep ==
    ASSUME IInv, NEW t \in Threads, NEW b \in Blocks, FaultRemote(t, b)
    PROVE  StepOK(t)
  <1>0. /\ blk[b].state = "INIT" /\ b \in th[t].cur /\ th[t].vs = {} /\ th[t].up = {}
        /\ \A a \in th[t].cur : a = b
    BY InHand DEF FaultRemote, At
  <1>1. ThreadsOK(t)
    <2>1. "alloc" \in PCs
      BY DEF PCs
    <2> QED BY <2>1, GotoType DEF FaultRemote
  <1>2. ThreadOK(t)'
    BY <1>0 DEF FaultRemote, Goto, IInv, TypeOK, ThreadOK, Hands, Serving, Pipeline
  <1> QED BY <1>1, <1>2, SameBlocks DEF FaultRemote, StepOK, IInv, TypeOK, Dues

LEMMA AllocReclaimStep ==
    ASSUME IInv, NEW t \in Threads, AllocReclaim(t)
    PROVE  StepOK(t)
  <1>0. th[t].vs = {}
    BY InHand DEF AllocReclaim, At
  <1>1. ThreadsOK(t)
    <2>1. "force" \in PCs
      BY DEF PCs
    <2>2. Call(t, "force", "alloc")
      BY DEF AllocReclaim
    <2> QED BY <2>1, <2>2, CallType
  <1>2. /\ th'[t].vs = {} /\ th'[t].cur = th[t].cur /\ th'[t].up = th[t].up
        /\ Serving(th'[t]) = Serving(th[t])
    BY <1>0 DEF AllocReclaim, At, Call, IInv, TypeOK, Thread, Serving, Pipeline
  <1> QED BY <1>0, <1>1, <1>2, MoveOn DEF AllocReclaim

LEMMA FetchStep ==
    ASSUME IInv, NEW t \in Threads, NEW b \in Blocks, Fetch(t, b)
    PROVE  StepOK(t)
  <1> DEFINE r == blk[b]
             f == FetchedBlock(r, th[t].op)
  <1>0. /\ r.state = "INIT" /\ r.holder = t /\ Sane(r)
        /\ b \in th[t].cur /\ th[t].vs = {} /\ th[t].up = {}
        /\ \A a \in th[t].cur : a = b
    BY InHand DEF Fetch, At, IInv, ThreadOK, Serving, Pipeline
  <1>1. PICK target \in {"proactive", "active"} :
           /\ blk' = [blk EXCEPT ![b] = add_gpas_to_active_list(f, target)]
           /\ Owe(AddsToList(t, ActiveTarget(f, target), {b}))
    BY DEF Fetch
  <1>2. BlocksOK(t) /\ blk'[b].holder = t /\ blk'[b].state = "ACTIVE"
    <2>1. /\ blk'[b] = add_gpas_to_active_list(f, target)
          /\ blk' = [blk EXCEPT ![b] = blk'[b]]
      BY <1>1 DEF IInv, TypeOK
    <2>2. Becomes(r, add_gpas_to_active_list(f, target), t, "ACTIVE")
      BY <1>0, FetchSane
    <2>3. OnlyBlock(t, b, t, "ACTIVE")
      BY <1>0, <2>1, <2>2 DEF OnlyBlock
    <2> QED BY <2>3, OneBlock
  <1>3. ThreadsOK(t)
    <2>1. "proactive" \in PCs
      BY DEF PCs
    <2>2. PICK ret \in {"map", "finish"} : Call(t, "proactive", ret)
      BY DEF Fetch
    <2> QED BY <2>1, <2>2, CallType
  <1>4. ThreadOK(t)'
    BY <1>0, <1>2 DEF Fetch, Call, IInv, TypeOK, ThreadOK, Hands, Serving, Pipeline
  <1>5. owed' \subseteq Dues
    <2>1. ActiveTarget(f, target) \in {"proactive", "pin", "active"}
      BY DEF ActiveTarget
    <2> QED BY <1>1, <2>1, DuesOf, OweType
  <1>6. free' \in Nat
    BY DEF Fetch, PageAvailable, IInv, TypeOK
  <1> QED BY <1>2, <1>3, <1>4, <1>5, <1>6 DEF StepOK, Fetch, IInv, TypeOK

LEMMA MapBlockStep ==
    ASSUME IInv, NEW t \in Threads, NEW b \in Blocks, MapBlock(t, b)
    PROVE  StepOK(t)
  <1> DEFINE r == blk[b]
             F == IF th[t].op = "write" THEN {"DIRTY"} ELSE {}
             m == Unlock(map(Set(wait_read_async(r), {"HPT"} \cup F)))
  <1>0. /\ r.state = "ACTIVE" /\ r.holder = t /\ Sane(r)
        /\ F \in SUBSET Flags
    BY InHand DEF MapBlock, At, IInv, ThreadOK, Serving, Pipeline, Flags
  <1>1. CASE Misread(r)
    BY <1>1, PanicStep DEF MapBlock
  <1>2. CASE ~Misread(r)
    <2>1. /\ blk' = [blk EXCEPT ![b] = m] /\ Leave(t)
          /\ UNCHANGED <<len, owed, free, panic>>
      BY <1>2 DEF MapBlock
    <2>2. BlocksOK(t)
      <3>1. Becomes(r, m, NoThread, "ACTIVE")
        BY <1>0, <1>2, MapSane
      <3>2. blk'[b] = m /\ blk' = [blk EXCEPT ![b] = blk'[b]]
        BY <2>1 DEF IInv, TypeOK
      <3>3. OnlyBlock(t, b, NoThread, "ACTIVE")
        BY <1>0, <3>1, <3>2 DEF OnlyBlock
      <3> QED BY <3>3, OneBlock
    <2> QED BY <2>1, <2>2, LeaveType DEF StepOK, IInv, TypeOK, Dues
  <1> QED BY <1>1, <1>2

LEMMA FinishStep ==
    ASSUME IInv, NEW t \in Threads, Finish(t)
    PROVE  StepOK(t)
  <1>1. BlocksOK(t)
    <2>1. /\ th[t].cur \in SUBSET Blocks
          /\ blk' = [b \in Blocks |-> blk'[b]]
          /\ \A b \in Blocks \ th[t].cur : blk'[b] = blk[b]
      BY InHand DEF Finish
    <2>2. \A b \in th[t].cur : /\ blk[b].holder \in {t, NoThread}
                               /\ Becomes(blk[b], blk'[b], NoThread, blk[b].state)
      BY InHand, UnlockSane DEF Finish
    <2> QED BY <2>1, <2>2, SomeBlocks
  <1> QED BY <1>1, LeaveType DEF Finish, StepOK, IInv, TypeOK, Dues

LEMMA FailStep ==
    ASSUME IInv, NEW t \in Threads, Fail(t)
    PROVE  StepOK(t)
  <1>1. BlocksOK(t)
    <2>1. /\ th[t].cur \in SUBSET Blocks
          /\ blk' = [b \in Blocks |-> blk'[b]]
          /\ \A b \in Blocks \ th[t].cur : blk'[b] = blk[b]
      BY InHand DEF Fail
    <2>2. ASSUME NEW b \in th[t].cur
          PROVE  /\ blk[b].holder \in {t, NoThread}
                 /\ Becomes(blk[b], blk'[b], NoThread, blk[b].state)
      <3>1. b \in Blocks /\ Sane(blk[b]) /\ blk[b].holder = t /\ Ready(blk[b])
        BY InHand DEF Fail
      <3>2. blk'[b] \in {Unlock(ClearInFlight(blk[b])), Unlock(blk[b])}
        BY <3>1 DEF Fail
      <3> QED BY <3>1, <3>2, UnlockSane, ClearInFlightSane
    <2> QED BY <2>1, <2>2, SomeBlocks
  <1> QED BY <1>1, LeaveType DEF Fail, StepOK, IInv, TypeOK, Dues

-----------------------------------------------------------------------------
(* Victims are unlocked blocks: no thread has them in hand.                *)
LEMMA UnlockedFacts ==
    ASSUME IInv, NEW l \in Lists \ {"none"}
    PROVE  \A b \in Unlocked(l) :
              /\ b \in Blocks /\ Sane(blk[b]) /\ blk[b].holder = NoThread
              /\ blk[b].state = CASE l = "inactive" -> "INACTIVE"
                                  [] l = "writeback" -> "WB" [] OTHER -> "ACTIVE"
              /\ \A u \in Threads : b \notin Hands(th[u])
  <1> TAKE b \in Unlocked(l)
  <1>1. b \in Blocks /\ blk[b].list = l /\ blk[b].holder = NoThread
    BY DEF Unlocked
  <1>2. Sane(blk[b])
    BY <1>1, BlocksSane
  <1>3. blk[b].state = CASE l = "inactive" -> "INACTIVE"
                         [] l = "writeback" -> "WB" [] OTHER -> "ACTIVE"
    BY <1>1, <1>2 DEF Sane, Literal, Lists
  <1>4. \A u \in Threads : b \notin Hands(th[u])
    BY <1>1, InHand, LifecycleAssumption
  <1> QED BY <1>1, <1>2, <1>3, <1>4

LEMMA CardinalityType ==
    ASSUME NEW S \in SUBSET Blocks
    PROVE  Cardinality(S) \in Nat
  BY LifecycleAssumption, FS_Subset, FS_CardinalityType

LEMMA ReapStep ==
    ASSUME IInv, NEW t \in Threads, NEW b \in Blocks, Reap(t, b),
           th[t].pc \in {"idle", "alloc"}, th[t].up = {}
    PROVE  StepOK(t)
  <1>0. /\ Sane(blk[b]) /\ blk[b].holder = NoThread /\ blk[b].state = "WB"
        /\ b \notin th[t].cur /\ th[t].vs = {} /\ th[t] \in Thread
    BY UnlockedFacts, InHand DEF Reap, Lists, Hands
  <1>1. BlocksOK(t) /\ blk'[b].holder = t /\ blk'[b].state = "WB"
    <2>1. blk'[b] = Take(blk[b], t, "WB") /\ blk' = [blk EXCEPT ![b] = blk'[b]]
      BY DEF Reap, IInv, TypeOK
    <2>2. Becomes(blk[b], blk'[b], t, "WB")
      BY <1>0, <2>1, ReapSane
    <2>3. OnlyBlock(t, b, t, "WB")
      BY <1>0, <2>1, <2>2 DEF OnlyBlock
    <2> QED BY <2>3, OneBlock
  <1>2. ThreadsOK(t) /\ th'[t] = [th[t] EXCEPT !.pc = "reap", !.vs = {b}, !.ret = th[t].pc]
    <2>1. [th[t] EXCEPT !.pc = "reap", !.vs = {b}, !.ret = th[t].pc] \in Thread
      BY <1>0 DEF Thread, PCs
    <2>2. th' = [th EXCEPT ![t] = [th[t] EXCEPT !.pc = "reap", !.vs = {b}, !.ret = th[t].pc]]
      BY DEF Reap
    <2> QED BY <2>1, <2>2 DEF IInv, TypeOK, ThreadsOK
  <1>3. ThreadOK(t)'
    <2>1. th[t].pc = "alloc" => \A a \in th[t].cur : blk[a].state = "INIT"
      BY DEF IInv, ThreadOK, Serving, Pipeline
    <2>2. \A a \in th[t].cur : blk'[a] = blk[a]
      BY <1>0, InHand DEF Reap, IInv, TypeOK
    <2> QED BY <1>0, <1>1, <1>2, <2>1, <2>2, InHand
            DEF ThreadOK, Hands, Thread, Serving, Pipeline, VictimOf
  <1>4. len' \in [Counters -> Int]
    <2>1. len["inflight"] - 1 \in Int
      BY DEF IInv, TypeOK, Counters
    <2> QED BY <2>1 DEF Reap, DriftedInflight, IInv, TypeOK, Counters
  <1> QED BY <1>1, <1>2, <1>3, <1>4 DEF Reap, StepOK, IInv, TypeOK, Dues

(* The thread of the pipeline goes on with the victims @W at @p, or leaves *)
(* the pipeline for the operation it serves, with the blocks @U to move up.*)
Continues(t, p, W, U) ==
    /\ th[t].pc \in Pipeline
    /\ Stands(t, p, W, U)
    /\ p \in Pipeline \cup {"error", th[t].ret}
    /\ \A b \in th[t].cur : blk'[b] = blk[b] /\ b \notin W \cup U
    /\ \A b \in W : blk'[b].holder = t /\ VictimOf(p, blk'[b].state) /\ b \notin U
    /\ \A b \in U : blk'[b].holder = t /\ blk'[b].state \in {"ACTIVE", "INACTIVE"}

LEMMA GoOn ==
    ASSUME IInv, NEW t \in Threads, NEW p, NEW W, NEW U, Continues(t, p, W, U)
    PROVE  ThreadOK(t)'
  <1>1. /\ th'[t].pc = p /\ th'[t].vs = W /\ th'[t].up = U /\ th'[t].cur = th[t].cur
        /\ th'[t].ret = th[t].ret
        /\ th[t].ret \in {"idle", "alloc", "map", "finish"}
    BY InHand DEF Thread, Continues, Stands
  <1>2. Serving(th'[t]) \in {Serving(th[t]), "error"}
    BY <1>1 DEF Serving, Pipeline, Continues
  <1>3. ThreadOK(t)
    BY DEF IInv
  <1> QED BY <1>1, <1>2, <1>3 DEF ThreadOK, Hands, Continues

LEMMA ReapDoneStep ==
    ASSUME IInv, NEW t \in Threads, ReapDone(t)
    PROVE  StepOK(t)
  <1>0. /\ th[t].pc = "reap" /\ th[t].up = {} /\ th[t] \in Thread
        /\ th[t].vs \in SUBSET Blocks
    BY InHand DEF ReapDone, At
  <1>1. /\ BlocksOK(t)
        /\ \A b \in th[t].cur : blk'[b] = blk[b] /\ b \notin th[t].vs
        /\ \A b \in th[t].vs : blk'[b].holder = t /\ blk'[b].state = "INIT"
    <2>1. /\ blk' = [b \in Blocks |-> blk'[b]]
          /\ \A b \in Blocks \ th[t].vs : blk'[b] = blk[b]
          /\ \A b \in th[t].vs : blk'[b] = set_gpa_remote(blk[b])
      BY <1>0 DEF ReapDone, Update
    <2>2. ASSUME NEW b \in th[t].vs
          PROVE  /\ blk[b].holder \in {t, NoThread}
                 /\ Becomes(blk[b], blk'[b], t, "INIT")
      <3>1. blk[b].state = "WB"
        BY <1>0 DEF IInv, ThreadOK, VictimOf
      <3>2. Ready(blk[b])
        BY DEF ReapDone
      <3> QED BY <2>1, <3>1, <3>2, InHand, ReleaseSane
    <2>3. BlocksOK(t)
      BY <1>0, <2>1, <2>2, SomeBlocks
    <2>4. \A b \in th[t].cur : b \in Blocks \ th[t].vs
      BY InHand DEF IInv, ThreadOK
    <2> QED BY <2>1, <2>2, <2>3, <2>4 DEF Becomes
  <1>2. ThreadsOK(t) /\ Stands(t, "release", th[t].vs, {})
    <2>1. "release" \in PCs
      BY DEF PCs
    <2>2. Goto(t, "release")
      BY DEF ReapDone
    <2> QED BY <1>0, <2>1, <2>2, GotoType
  <1>3. ThreadOK(t)'
    <2>1. Continues(t, "release", th[t].vs, {})
      BY <1>0, <1>1, <1>2 DEF Continues, Pipeline, VictimOf
    <2> QED BY <2>1, GoOn
  <1>4. owed' \subseteq Dues /\ free' \in Nat
    BY <1>0, CardinalityType, DuesOf, OweType DEF ReapDone, IInv, TypeOK
  <1> QED BY <1>1, <1>2, <1>3, <1>4 DEF ReapDone, StepOK, IInv, TypeOK

-----------------------------------------------------------------------------
(* There is one due for each block that was moved.                         *)
LEMMA DuesCounted ==
    ASSUME NEW t, NEW c, NEW k, NEW V \in SUBSET Blocks
    PROVE  LET D == {<<t, c, k, b>> : b \in V}
           IN  IsFiniteSet(D) /\ Cardinality(D) = Cardinality(V)
  <1> DEFINE D == {<<t, c, k, b>> : b \in V}
             f == [b \in V |-> <<t, c, k, b>>]
  <1>1. IsFiniteSet(V)
    BY LifecycleAssumption, FS_Subset
  <1>2. f \in Bijection(V, D)
    <2>1. f \in [V -> D]
      OBVIOUS
    <2>2. ASSUME NEW a \in V, NEW b \in V, f[a] = f[b] PROVE a = b
      BY <2>2
    <2>3. \A d \in D : \E b \in V : f[b] = d
      OBVIOUS
    <2> HIDE DEF f, D
    <2> QED BY <2>1, <2>2, <2>3 DEF Bijection, Injection, Surjection, IsInjective
  <1> HIDE DEF f, D
  <1>3. ExistsBijection(V, D)
    BY <1>2 DEF ExistsBijection
  <1> QED BY <1>1, <1>3, FS_Bijection DEF D

(* A counter changes, and nothing else.                                    *)
LEMMA AdjustLengthStep ==
    ASSUME IInv, NEW t \in Threads, NEW c \in Counters, AdjustLength(t, c)
    PROVE  StepOK(t)
  <1> DEFINE mine == {d \in owed : d[1] = t /\ d[2] = c}
  <1>1. ASSUME NEW k PROVE Cardinality(Of(mine, k)) \in Nat
    <2>1. IsFiniteSet({<<t, c, k, b>> : b \in Blocks})
      BY DuesCounted
    <2>2. Of(mine, k) \subseteq {<<t, c, k, b>> : b \in Blocks}
      <3> SUFFICES ASSUME NEW d \in Of(mine, k) PROVE d \in {<<t, c, k, b>> : b \in Blocks}
        OBVIOUS
      <3>1. d \in Dues /\ d[1] = t /\ d[2] = c /\ d[3] = k
        BY DEF Of, IInv, TypeOK, Dues
      <3>2. PICK b \in Blocks : d = <<d[1], d[2], d[3], b>>
        BY <3>1 DEF Dues
      <3> QED BY <3>1, <3>2
    <2> QED BY <2>1, <2>2, FS_Subset, FS_CardinalityType
  <1>2. len' \in [Counters -> Int]
    <2>1. len[c] + Cardinality(Of(mine, "add")) - Cardinality(Of(mine, "sub")) \in Int
      BY <1>1 DEF IInv, TypeOK
    <2>2. len' = [len EXCEPT ![c] = @ + Cardinality(Of(mine, "add"))
                                      - Cardinality(Of(mine, "sub"))]
      BY DEF AdjustLength
    <2> HIDE DEF mine
    <2> QED BY <2>1, <2>2 DEF IInv, TypeOK
  <1>3. owed' \subseteq Dues
    BY DEF AdjustLength, IInv, TypeOK, Dues
  <1>4. UNCHANGED <<blk, th, free, panic>>
    BY DEF AdjustLength
  <1> QED BY <1>2, <1>3, <1>4, SameBlocks
          DEF StepOK, ThreadsOK, IInv, TypeOK, ThreadOK

(* Blocks @M on their way up arrive and are unlocked.                      *)
Arrive(t, M) ==
    /\ M \subseteq th[t].up
    /\ blk' = [b \in Blocks |-> blk'[b]]
    /\ \A b \in Blocks \ M : blk'[b] = blk[b]
    /\ \A b \in M : Becomes(blk[b], blk'[b], NoThread, "ACTIVE")
    /\ th' = [th EXCEPT ![t].up = th[t].up \ M]

LEMMA ArriveStep ==
    ASSUME IInv, NEW t \in Threads, NEW M, Arrive(t, M)
    PROVE  BlocksOK(t) /\ ThreadsOK(t) /\ ThreadOK(t)'
  <1>0. /\ th[t] \in Thread /\ M \in SUBSET Blocks
        /\ \A b \in M : blk[b].holder = t /\ b \notin th[t].cur \cup th[t].vs
    BY InHand DEF Arrive, IInv, ThreadOK
  <1>1. BlocksOK(t)
    BY <1>0, SomeBlocks DEF Arrive
  <1>2. /\ ThreadsOK(t)
        /\ th'[t].pc = th[t].pc /\ th'[t].cur = th[t].cur /\ th'[t].vs = th[t].vs
        /\ th'[t].ret = th[t].ret /\ th'[t].up = th[t].up \ M
    <2>1. [th[t] EXCEPT !.up = th[t].up \ M] \in Thread
      BY <1>0 DEF Thread
    <2>2. th' = [th EXCEPT ![t] = [th[t] EXCEPT !.up = th[t].up \ M]]
      BY DEF Arrive
    <2> QED BY <1>0, <2>1, <2>2 DEF ThreadsOK, IInv, TypeOK, Thread
  <1>3. \A b \in th[t].cur \cup th[t].vs \cup (th[t].up \ M) : blk'[b] = blk[b]
    BY <1>0, InHand DEF Arrive
  <1> QED BY <1>1, <1>2, <1>3 DEF IInv, ThreadOK, Hands, Serving

LEMMA MoveToPinStep ==
    ASSUME IInv, NEW t \in Threads, MoveToPin(t)
    PROVE  StepOK(t)
  <1> DEFINE pinned == Flagged(th[t].up, "PINNED")
             rest == pinned \ Flagged(pinned, "PROACTIVE")
  <1>0. pinned \subseteq th[t].up /\ pinned \in SUBSET Blocks /\ rest \in SUBSET Blocks
    BY InHand DEF Flagged
  <1>1. Arrive(t, pinned)
    <2>1. /\ blk' = [b \in Blocks |-> blk'[b]]
          /\ \A b \in Blocks \ pinned : blk'[b] = blk[b]
          /\ \A b \in pinned :
                blk'[b] = Unlock(move_to_pin_list(blk[b], blk[b].state = "ACTIVE"))
      BY <1>0 DEF MoveToPin, Update
    <2>2. ASSUME NEW b \in pinned PROVE Becomes(blk[b], blk'[b], NoThread, "ACTIVE")
      <3>1. Sane(blk[b]) /\ blk[b].state \in {"ACTIVE", "INACTIVE"}
        BY <1>0, InHand DEF IInv, ThreadOK
      <3>2. PICK mapped \in BOOLEAN : blk'[b] = Unlock(move_to_pin_list(blk[b], mapped))
        BY <2>1, Zenon
      <3> QED BY <3>1, <3>2, MoveToPinSane
    <2>3. th' = [th EXCEPT ![t].up = th[t].up \ pinned]
      BY DEF MoveToPin
    <2> QED BY <1>0, <2>1, <2>2, <2>3 DEF Arrive
  <1>2. owed' \subseteq Dues
    <2>1. Adds(t, "cur_pin", pinned) \subseteq Dues /\ Adds(t, "proactive", rest) \subseteq Dues
      BY <1>0, DuesOf DEF Counters
    <2> QED BY <2>1, OweType DEF MoveToPin
  <1> QED BY <1>1, <1>2, ArriveStep DEF MoveToPin, StepOK, IInv, TypeOK

LEMMA PromoteStep ==
    ASSUME IInv, NEW t \in Threads, Promote(t)
    PROVE  StepOK(t)
  <1> DEFINE up == th[t].up
             inactive == {b \in up : blk[b].state = "INACTIVE"}
             rest == up \ Flagged(up, "PROACTIVE")
  <1>0. up \in SUBSET Blocks /\ rest \in SUBSET Blocks
    BY InHand
  <1>1. Arrive(t, up)
    <2>1. /\ blk' = [b \in Blocks |-> blk'[b]]
          /\ \A b \in Blocks \ up : blk'[b] = blk[b]
          /\ \A b \in up : blk'[b] =
                Unlock(IF b \in inactive THEN promote_gpas(check_eager_wbr(blk[b]), FALSE)
                                         ELSE promote_gpas(blk[b], TRUE))
      BY <1>0 DEF Promote, Update
    <2>2. ASSUME NEW b \in up PROVE Becomes(blk[b], blk'[b], NoThread, "ACTIVE")
      <3>1. Sane(blk[b]) /\ blk[b].state \in {"ACTIVE", "INACTIVE"}
        BY InHand DEF IInv, ThreadOK
      <3> QED BY <2>1, <3>1, PromoteSane, PromoteInactiveSane
    <2>3. th' = [th EXCEPT ![t].up = up \ up]
      BY DEF Promote
    <2> QED BY <2>1, <2>2, <2>3 DEF Arrive
  <1>2. owed' \subseteq Dues
    <2>1. Adds(t, "proactive", rest) \subseteq Dues
      BY <1>0, DuesOf DEF Counters
    <2> QED BY <2>1, OweType DEF Promote
  <1> QED BY <1>1, <1>2, ArriveStep DEF Promote, StepOK, IInv, TypeOK

-----------------------------------------------------------------------------
(* A scan takes unlocked blocks: some become victims @W, the others of @V  *)
(* are to move up.                                                         *)
Scan(t, V, W, state) ==
    /\ V \subseteq Blocks /\ W \subseteq V
    /\ blk' = [b \in Blocks |-> blk'[b]]
    /\ \A b \in Blocks \ V : blk'[b] = blk[b]
    /\ \A b \in V : blk[b].holder = NoThread
    /\ \A b \in V \ W : \E s \in {"ACTIVE", "INACTIVE"} : Becomes(blk[b], blk'[b], t, s)
    /\ \A b \in W : Becomes(blk[b], blk'[b], t, state)

LEMMA ScanStep ==
    ASSUME IInv, NEW t \in Threads, NEW p \in PCs, NEW V, NEW W, NEW state,
           Scan(t, V, W, state), Scanned(t, p, W, V \ W),
           th[t].pc \in Pipeline, p \in Pipeline \cup {th[t].ret},
           W # {} => VictimOf(p, state)
    PROVE  BlocksOK(t) /\ ThreadsOK(t) /\ ThreadOK(t)'
  <1>1. BlocksOK(t)
    <2>1. \A b \in V : \E h, s : Becomes(blk[b], blk'[b], h, s)
      BY DEF Scan
    <2> QED BY <2>1, SomeBlocks DEF Scan
  <1>2. \A b \in th[t].cur : b \in Blocks \ V
    BY InHand, LifecycleAssumption DEF Scan
  <1>3. ThreadsOK(t) /\ Stands(t, p, W, V \ W)
    <2>1. W \in SUBSET Blocks /\ V \ W \in SUBSET Blocks
      BY DEF Scan
    <2> QED BY <2>1, ScannedType
  <1>4. Continues(t, p, W, V \ W)
    <2>1. \A b \in W : blk'[b].holder = t /\ VictimOf(p, blk'[b].state)
      BY DEF Scan, Becomes
    <2>2. \A b \in V \ W : blk'[b].holder = t /\ blk'[b].state \in {"ACTIVE", "INACTIVE"}
      BY DEF Scan, Becomes
    <2>3. \A b \in th[t].cur : blk'[b] = blk[b] /\ b \notin W \cup (V \ W)
      BY <1>2 DEF Scan
    <2> QED BY <1>3, <2>1, <2>2, <2>3 DEF Continues
  <1> QED BY <1>1, <1>3, <1>4, GoOn

LEMMA UpdateProactiveStep ==
    ASSUME IInv, NEW t \in Threads, UpdateProactive(t)
    PROVE  StepOK(t)
  <1> DEFINE S == Unlocked("proactive")
             pinned == Flagged(S, "PINNED")
  <1>1. PICK V \in Selection(S, pinned) :
           /\ Update(V, LAMBDA b :
                 IF b \in pinned THEN Lift(blk[b], t)
                 ELSE Clear(Take(blk[b], t, "TRANS_PL"), {"PROACTIVE"}))
           /\ Owe(Subs(t, "proactive", V \ pinned))
           /\ Scanned(t, IF V \subseteq pinned THEN "unpin" ELSE "demote",
                      V \ pinned, V \cap pinned)
    BY DEF UpdateProactive
  <1>0. /\ th[t].pc \in {"proactive", "rescan"} /\ V \in SUBSET Blocks /\ V \subseteq S
        /\ V \ pinned \in SUBSET Blocks
    BY <1>1 DEF UpdateProactive, At, Selection, Unlocked
  <1>2. Scan(t, V, V \ pinned, "TRANS_PL")
    <2>1. ASSUME NEW b \in V
          PROVE  Sane(blk[b]) /\ blk[b].holder = NoThread /\ blk[b].state = "ACTIVE"
      BY <1>0, UnlockedFacts DEF Lists
    <2>2. \A b \in V \ pinned : ~Has(blk[b], "PINNED")
      BY <1>0 DEF Flagged
    <2>3. /\ blk' = [b \in Blocks |-> blk'[b]]
          /\ \A b \in Blocks \ V : blk'[b] = blk[b]
          /\ \A b \in V \cap pinned : blk'[b] = Lift(blk[b], t)
          /\ \A b \in V \ pinned : blk'[b] = Clear(Take(blk[b], t, "TRANS_PL"), {"PROACTIVE"})
      BY <1>0, <1>1 DEF Update
    <2>4. ASSUME NEW b \in V \cap pinned
          PROVE  Becomes(blk[b], blk'[b], t, "ACTIVE")
      BY <2>1, <2>3, LiftSane
    <2>5. ASSUME NEW b \in V \ pinned
          PROVE  Becomes(blk[b], blk'[b], t, "TRANS_PL")
      BY <2>1, <2>2, <2>3, TakeSane
    <2> HIDE DEF pinned
    <2> QED BY <1>0, <2>1, <2>3, <2>4, <2>5 DEF Scan
  <1> HIDE DEF pinned
  <1>3. PICK p \in {"demote", "unpin"} :
           Scanned(t, p, V \ pinned, V \cap pinned) /\ (V \ pinned # {} => p = "demote")
    BY <1>1
  <1>4. BlocksOK(t) /\ ThreadsOK(t) /\ ThreadOK(t)'
    <2>1. p \in PCs /\ p \in Pipeline /\ th[t].pc \in Pipeline
      BY <1>0 DEF PCs, Pipeline
    <2>2. V \ (V \ pinned) = V \cap pinned
      OBVIOUS
    <2>3. V \ pinned # {} => VictimOf(p, "TRANS_PL")
      BY <1>3 DEF VictimOf
    <2> QED BY <1>2, <1>3, <2>1, <2>2, <2>3, ScanStep
  <1>5. owed' \subseteq Dues
    <2>1. Subs(t, "proactive", V \ pinned) \subseteq Dues
      BY <1>0, DuesOf DEF Counters
    <2> QED BY <1>1, <2>1, OweType
  <1> QED BY <1>4, <1>5 DEF UpdateProactive, StepOK, IInv, TypeOK

(* A thread goes on to @p with no victims in hand.                         *)
LEMMA SkipStep ==
    ASSUME IInv, NEW t \in Threads, NEW p, Stands(t, p, {}, {}), ThreadsOK(t),
           p \in Pipeline \cup {th[t].ret}, th[t].pc \in Pipeline,
           UNCHANGED <<blk, len, owed, free, panic>>
    PROVE  StepOK(t)
  <1>1. Continues(t, p, {}, {})
    BY DEF Continues
  <1> QED BY <1>1, GoOn, SameBlocks DEF StepOK, IInv, TypeOK, Dues

LEMMA SkipProactiveStep ==
    ASSUME IInv, NEW t \in Threads, SkipProactive(t)
    PROVE  StepOK(t)
  <1>0. th[t].pc = "proactive" /\ th[t].vs = {} /\ th[t].up = {}
    BY InHand DEF SkipProactive, At
  <1>1. ThreadsOK(t) /\ Stands(t, "active", {}, {})
    <2>1. "active" \in PCs
      BY DEF PCs
    <2> QED BY <1>0, <2>1, GotoType DEF SkipProactive
  <1> QED BY <1>0, <1>1, SkipStep DEF SkipProactive, Pipeline

LEMMA UnpinVictimsStep ==
    ASSUME IInv, NEW t \in Threads, UnpinVictims(t)
    PROVE  StepOK(t)
  <1>1. PICK V \in Selection(Unlocked("pin"), {}) :
           /\ Update(V, LAMBDA b : Clear(Lift(blk[b], t), {"PINNED"}))
           /\ Owe(Subs(t, "cur_pin", V) \cup Subs(t, "num_pin", V))
           /\ Scanned(t, IF V = {} THEN "active" ELSE "rescan", {}, V)
    BY DEF UnpinVictims
  <1>0. th[t].pc = "unpin" /\ V \in SUBSET Blocks /\ V \subseteq Unlocked("pin")
    BY <1>1 DEF UnpinVictims, At, Selection, Unlocked
  <1>2. Scan(t, V, {}, "none")
    <2>1. ASSUME NEW b \in V
          PROVE  Sane(blk[b]) /\ blk[b].holder = NoThread /\ blk[b].state = "ACTIVE"
      BY <1>0, UnlockedFacts DEF Lists
    <2>2. /\ blk' = [b \in Blocks |-> blk'[b]]
          /\ \A b \in Blocks \ V : blk'[b] = blk[b]
          /\ \A b \in V : blk'[b] = Clear(Lift(blk[b], t), {"PINNED"})
      BY <1>0, <1>1 DEF Update
    <2>3. ASSUME NEW b \in V
          PROVE  Becomes(blk[b], blk'[b], t, "ACTIVE")
      BY <2>1, <2>2, LiftSane
    <2> QED BY <1>0, <2>1, <2>2, <2>3 DEF Scan
  <1>3. BlocksOK(t) /\ ThreadsOK(t) /\ ThreadOK(t)'
    <2>1. PICK p \in {"active", "rescan"} : Scanned(t, p, {}, V)
      BY <1>1
    <2>2. p \in PCs /\ p \in Pipeline /\ th[t].pc \in Pipeline /\ V \ {} = V
      BY <1>0 DEF PCs, Pipeline
    <2> QED BY <1>2, <2>1, <2>2, ScanStep
  <1>4. owed' \subseteq Dues
    <2>1. Subs(t, "cur_pin", V) \subseteq Dues /\ Subs(t, "num_pin", V) \subseteq Dues
      BY <1>0, DuesOf DEF Counters
    <2> QED BY <1>1, <2>1, OweType
  <1> QED BY <1>3, <1>4 DEF UnpinVictims, StepOK, IInv, TypeOK

LEMMA SkipUnpinStep ==
    ASSUME IInv, NEW t \in Threads, SkipUnpin(t)
    PROVE  StepOK(t)
  <1>0. th[t].pc = "unpin" /\ th[t].vs = {} /\ th[t].up = {}
    BY InHand DEF SkipUnpin, At
  <1>1. ThreadsOK(t) /\ Stands(t, "active", {}, {})
    <2>1. "active" \in PCs
      BY DEF PCs
    <2> QED BY <1>0, <2>1, GotoType DEF SkipUnpin
  <1> QED BY <1>0, <1>1, SkipStep DEF SkipUnpin, Pipeline

LEMMA DemoteStep ==
    ASSUME IInv, NEW t \in Threads, Demote(t)
    PROVE  StepOK(t)
  <1> DEFINE vs == th[t].vs
             pinned == Flagged(vs, "PINNED")
  <1>0. th[t].pc = "demote" /\ vs \in SUBSET Blocks /\ th[t].up = {}
    BY InHand DEF Demote, At
  <1>1. /\ BlocksOK(t)
        /\ \A b \in th[t].cur : blk'[b] = blk[b] /\ b \notin vs
        /\ \A b \in vs : blk'[b].holder = t /\ blk'[b].state = "ACTIVE"
    <2>1. /\ blk' = [b \in Blocks |-> blk'[b]]
          /\ \A b \in Blocks \ vs : blk'[b] = blk[b]
          /\ \A b \in vs : blk'[b] = add_gpas_to_active_list(blk[b], "active")
      BY <1>0 DEF Demote, Update
    <2>2. ASSUME NEW b \in vs
          PROVE  /\ blk[b].holder \in {t, NoThread}
                 /\ Becomes(blk[b], blk'[b], t, "ACTIVE")
      <3>1. blk[b].state = "TRANS_PL"
        BY <1>0 DEF IInv, ThreadOK, VictimOf
      <3> QED BY <2>1, <3>1, InHand, DemoteSane
    <2>3. BlocksOK(t)
      BY <1>0, <2>1, <2>2, SomeBlocks
    <2>4. \A b \in th[t].cur : b \in Blocks \ vs
      BY InHand DEF IInv, ThreadOK
    <2> QED BY <2>1, <2>2, <2>3, <2>4 DEF Becomes
  <1>2. ThreadsOK(t) /\ Stands(t, "demoted", vs, {})
    <2>1. "demoted" \in PCs
      BY DEF PCs
    <2> QED BY <1>0, <2>1, GotoType DEF Demote
  <1>3. ThreadOK(t)'
    <2>1. Continues(t, "demoted", vs, {})
      BY <1>0, <1>1, <1>2 DEF Continues, Pipeline, VictimOf
    <2> QED BY <2>1, GoOn
  <1>4. owed' \subseteq Dues
    <2>1. pinned \in SUBSET Blocks /\ vs \ pinned \in SUBSET Blocks
      BY <1>0 DEF Flagged
    <2>2. AddsToList(t, "pin", pinned) \subseteq Dues
          /\ AddsToList(t, "active", vs \ pinned) \subseteq Dues
      BY <2>1, DuesOf
    <2> QED BY <2>2, OweType DEF Demote
  <1> QED BY <1>1, <1>2, <1>3, <1>4 DEF Demote, StepOK, IInv, TypeOK

(* All victims are unlocked and the thread goes on without them, or leaves *)
(* the kernel.                                                             *)
LetGo(t, p) ==
    /\ th[t].pc \in Pipeline /\ p \in Pipeline \cup {"error"} /\ p \in PCs
    /\ th[t].up = {}
    /\ blk' = [b \in Blocks |-> blk'[b]]
    /\ \A b \in Blocks \ th[t].vs : blk'[b] = blk[b]
    /\ \A b \in th[t].vs : \E s : Becomes(blk[b], blk'[b], NoThread, s)
    /\ GotoWith(t, p, {}) \/ Leave(t)

LEMMA LetGoStep ==
    ASSUME IInv, NEW t \in Threads, NEW p, LetGo(t, p)
    PROVE  BlocksOK(t) /\ ThreadsOK(t) /\ ThreadOK(t)'
  <1>1. BlocksOK(t)
    <2>1. th[t].vs \in SUBSET Blocks /\ \A b \in th[t].vs : blk[b].holder = t
      BY InHand
    <2> QED BY <2>1, SomeBlocks DEF LetGo
  <1>2. CASE Leave(t)
    BY <1>1, <1>2, LeaveType
  <1>3. CASE GotoWith(t, p, {})
    <2>1. ThreadsOK(t) /\ Stands(t, p, {}, {})
      BY <1>3, GotoWithType DEF LetGo
    <2>2. \A b \in th[t].cur : blk'[b] = blk[b]
      BY InHand DEF LetGo
    <2>3. Continues(t, p, {}, {})
      BY <2>1, <2>2 DEF LetGo, Continues
    <2> QED BY <1>1, <2>1, <2>3, GoOn
  <1> QED BY <1>2, <1>3 DEF LetGo

LEMMA DemotedStep ==
    ASSUME IInv, NEW t \in Threads, Demoted(t)
    PROVE  StepOK(t)
  <1>1. LetGo(t, "active")
    <2>1. th[t].pc = "demoted" /\ th[t].up = {} /\ th[t].vs \in SUBSET Blocks
      BY InHand DEF Demoted, At
    <2>2. /\ blk' = [b \in Blocks |-> blk'[b]]
          /\ \A b \in Blocks \ th[t].vs : blk'[b] = blk[b]
          /\ \A b \in th[t].vs : blk'[b] = Unlock(blk[b])
      BY <2>1 DEF Demoted, Update
    <2>3. ASSUME NEW b \in th[t].vs
          PROVE  Becomes(blk[b], blk'[b], NoThread, blk[b].state)
      BY <2>2, InHand, UnlockSane
    <2> QED BY <2>1, <2>2, <2>3 DEF LetGo, Demoted, Pipeline, PCs
  <1> QED BY <1>1, LetGoStep DEF Demoted, StepOK, IInv, TypeOK, Dues

LEMMA SkipActiveStep ==
    ASSUME IInv, NEW t \in Threads, SkipActive(t)
    PROVE  StepOK(t)
  <1>0. th[t].pc = "active" /\ th[t].vs = {} /\ th[t].up = {}
    BY InHand DEF SkipActive, At
  <1>1. ThreadsOK(t) /\ Stands(t, "inactive", {}, {})
    <2>1. "inactive" \in PCs
      BY DEF PCs
    <2> QED BY <1>0, <2>1, GotoType DEF SkipActive
  <1> QED BY <1>0, <1>1, SkipStep DEF SkipActive, Pipeline

(* What the scans of the active and the inactive list do to their blocks.  *)
LEMMA LiftOrTake ==
    ASSUME IInv, NEW t \in Threads, NEW V \in SUBSET Blocks,
           NEW pinned, NEW moved, Flagged(V, "PINNED") \subseteq moved,
           NEW from \in {"ACTIVE", "INACTIVE"}, NEW state,
           state = IF from = "ACTIVE" THEN "TRANS_AL" ELSE "TRANS_IL",
           \A b \in V : blk[b].holder = NoThread /\ blk[b].state = from,
           Update(V, LAMBDA b :
                  IF b \in pinned THEN Lift(blk[b], t)
                  ELSE IF b \in moved THEN Clear(Lift(blk[b], t), {"PROMOTE"})
                  ELSE Take(blk[b], t, state)),
           pinned \subseteq moved
    PROVE  Scan(t, V, V \ moved, state)
  <1>1. /\ blk' = [b \in Blocks |-> blk'[b]]
        /\ \A b \in Blocks \ V : blk'[b] = blk[b]
        /\ \A b \in V : blk'[b] = IF b \in pinned THEN Lift(blk[b], t)
                                  ELSE IF b \in moved THEN Clear(Lift(blk[b], t), {"PROMOTE"})
                                  ELSE Take(blk[b], t, state)
    BY DEF Update
  <1>2. ASSUME NEW b \in V \cap moved
        PROVE  Becomes(blk[b], blk'[b], t, from)
    <2>1. Sane(blk[b]) /\ blk[b].state = from
      BY BlocksSane
    <2>2. blk'[b] \in {Lift(blk[b], t), Clear(Lift(blk[b], t), {"PROMOTE"})}
      BY <1>1
    <2> QED BY <2>1, <2>2, LiftSane
  <1>3. ASSUME NEW b \in V \ moved
        PROVE  Becomes(blk[b], blk'[b], t, state)
    <2>1. Sane(blk[b]) /\ blk[b].state = from /\ ~Has(blk[b], "PINNED")
      BY BlocksSane DEF Flagged
    <2>2. blk'[b] = Take(blk[b], t, state)
      BY <1>1
    <2> QED BY <2>1, <2>2, TakeSane
  <1> QED BY <1>1, <1>2, <1>3 DEF Scan

LEMMA UpdateActiveStep ==
    ASSUME IInv, NEW t \in Threads, UpdateActive(t)
    PROVE  StepOK(t)
  <1> DEFINE S == Unlocked("active")
             pinned == Flagged(S, "PINNED")
             moved == pinned \cup Flagged(S, "PROMOTE")
             able == {b \in S : b \in moved \/ gpa_acquire(blk[b])}
  <1>1. PICK V \in Selection(able, moved) :
           /\ Update(V, LAMBDA b :
                 IF b \in pinned THEN Lift(blk[b], t)
                 ELSE IF b \in moved THEN Clear(Lift(blk[b], t), {"PROMOTE"})
                 ELSE Take(blk[b], t, "TRANS_AL"))
           /\ Owe(Subs(t, "active", V))
           /\ Scanned(t, IF V \subseteq moved THEN "inactive" ELSE "unmap",
                      V \ moved, V \cap moved)
    BY DEF UpdateActive
  <1>0. /\ th[t].pc = "active" /\ V \in SUBSET Blocks /\ V \subseteq S
        /\ Flagged(V, "PINNED") \subseteq moved /\ pinned \subseteq moved
        /\ V \ moved \in SUBSET Blocks
    BY <1>1 DEF UpdateActive, At, Selection, Unlocked, Flagged
  <1>2. \A b \in V : blk[b].holder = NoThread /\ blk[b].state = "ACTIVE"
    BY <1>0, UnlockedFacts DEF Lists
  <1> HIDE DEF pinned, moved, able, S
  <1>3. Scan(t, V, V \ moved, "TRANS_AL")
    BY <1>0, <1>1, <1>2, LiftOrTake
  <1>4. BlocksOK(t) /\ ThreadsOK(t) /\ ThreadOK(t)'
    <2>1. PICK p \in {"inactive", "unmap"} :
             Scanned(t, p, V \ moved, V \cap moved) /\ (V \ moved # {} => p = "unmap")
      BY <1>1
    <2>2. /\ p \in PCs /\ p \in Pipeline /\ th[t].pc \in Pipeline
          /\ V \ (V \ moved) = V \cap moved
      BY <1>0 DEF PCs, Pipeline
    <2>3. V \ moved # {} => VictimOf(p, "TRANS_AL")
      BY <2>1 DEF VictimOf
    <2> QED BY <1>3, <2>1, <2>2, <2>3, ScanStep
  <1>5. owed' \subseteq Dues
    <2>1. Subs(t, "active", V) \subseteq Dues
      BY <1>0, DuesOf DEF Counters
    <2> QED BY <1>1, <2>1, OweType
  <1> QED BY <1>4, <1>5 DEF UpdateActive, StepOK, IInv, TypeOK

LEMMA UpdateInactiveStep ==
    ASSUME IInv, NEW t \in Threads, UpdateInactive(t)
    PROVE  StepOK(t)
  <1> DEFINE S == Unlocked("inactive")
             pinned == Flagged(S, "PINNED")
             moved == pinned \cup Flagged(S, "PROMOTE")
             able == {b \in S : b \in moved \/ check_block_free(blk[b])}
  <1>1. PICK V \in Selection(able, moved) :
           /\ Update(V, LAMBDA b :
                 IF b \in pinned THEN Lift(blk[b], t)
                 ELSE IF b \in moved THEN Clear(Lift(blk[b], t), {"PROMOTE"})
                 ELSE Take(blk[b], t, "TRANS_IL"))
           /\ Owe(sub_inactive_list_page_len(t, V \cap moved))
           /\ Scanned(t, IF V \ moved # {} THEN "evict"
                         ELSE IF At(t, "force") THEN "proactive" ELSE th[t].ret,
                      V \ moved, V \cap moved)
    BY DEF UpdateInactive
  <1>0. /\ th[t].pc \in {"force", "inactive"} /\ V \in SUBSET Blocks /\ V \subseteq S
        /\ Flagged(V, "PINNED") \subseteq moved /\ pinned \subseteq moved
        /\ V \cap moved \in SUBSET Blocks
    BY <1>1 DEF UpdateInactive, At, Selection, Unlocked, Flagged
  <1>2. \A b \in V : blk[b].holder = NoThread /\ blk[b].state = "INACTIVE"
    BY <1>0, UnlockedFacts DEF Lists
  <1> HIDE DEF pinned, moved, able, S
  <1>3. Scan(t, V, V \ moved, "TRANS_IL")
    BY <1>0, <1>1, <1>2, LiftOrTake
  <1>4. BlocksOK(t) /\ ThreadsOK(t) /\ ThreadOK(t)'
    <2>1. PICK p \in {"evict", "proactive", th[t].ret} :
             Scanned(t, p, V \ moved, V \cap moved) /\ (V \ moved # {} => p = "evict")
      BY <1>1
    <2>2. /\ p \in PCs /\ p \in Pipeline \cup {th[t].ret} /\ th[t].pc \in Pipeline
          /\ V \ (V \ moved) = V \cap moved
      BY <1>0, InHand DEF PCs, Pipeline, Thread
    <2>3. V \ moved # {} => VictimOf(p, "TRANS_IL")
      BY <2>1 DEF VictimOf
    <2> QED BY <1>3, <2>1, <2>2, <2>3, ScanStep
  <1>5. owed' \subseteq Dues
    <2>1. sub_inactive_list_page_len(t, V \cap moved) \subseteq Dues
      BY <1>0, DuesOf
    <2> QED BY <1>1, <2>1, OweType
  <1> QED BY <1>4, <1>5 DEF UpdateInactive, StepOK, IInv, TypeOK

LEMMA SkipInactiveStep ==
    ASSUME IInv, NEW t \in Threads, SkipInactive(t)
    PROVE  StepOK(t)
  <1>0. th[t].pc = "inactive" /\ th[t].up = {}
    BY DEF SkipInactive, At
  <1>1. ThreadsOK(t) /\ Stands(t, th[t].ret, {}, {})
    BY <1>0, ReturnType DEF SkipInactive
  <1> QED BY <1>0, <1>1, SkipStep DEF SkipInactive, Pipeline

-----------------------------------------------------------------------------
LEMMA UnmapVictimsStep ==
    ASSUME IInv, NEW t \in Threads, UnmapVictims(t)
    PROVE  StepOK(t)
  <1> DEFINE vs == th[t].vs
  <1>0. th[t].pc = "unmap" /\ vs \in SUBSET Blocks /\ th[t].up = {}
    BY InHand DEF UnmapVictims, At
  <1>1. CASE Panic("misread")
    BY <1>1, PanicStep
  <1>2. CASE ~Panic("misread")
    <2>1. /\ Update(vs, LAMBDA b : Unmapped(blk[b]))
          /\ Owe(Adds(t, "inactive", vs))
          /\ Goto(t, "eager")
          /\ UNCHANGED <<len, free, panic>>
      BY <1>2 DEF UnmapVictims
    <2>2. /\ BlocksOK(t)
          /\ \A b \in th[t].cur : blk'[b] = blk[b] /\ b \notin vs
          /\ \A b \in vs : blk'[b].holder = t /\ blk'[b].state = "INACTIVE"
      <3>1. /\ blk' = [b \in Blocks |-> blk'[b]]
            /\ \A b \in Blocks \ vs : blk'[b] = blk[b]
            /\ \A b \in vs : blk'[b] = Unmapped(blk[b])
        BY <1>0, <2>1 DEF Update
      <3>2. ASSUME NEW b \in vs
            PROVE  /\ blk[b].holder \in {t, NoThread}
                   /\ Becomes(blk[b], blk'[b], t, "INACTIVE")
        <4>1. blk[b].state = "TRANS_AL" /\ blk[b].holder = t /\ Sane(blk[b])
          BY <1>0, InHand DEF IInv, ThreadOK, VictimOf
        <4>2. Sane(blk'[b]) /\ blk'[b].holder = t /\ blk'[b].state = "INACTIVE"
          BY <3>1, <4>1, UnmapSane
        <4> QED BY <4>1, <4>2 DEF Becomes, Keeps, Sane, Literal
      <3>3. BlocksOK(t)
        BY <1>0, <3>1, <3>2, SomeBlocks
      <3>4. \A b \in th[t].cur : b \in Blocks \ vs
        BY InHand DEF IInv, ThreadOK
      <3> QED BY <3>1, <3>2, <3>3, <3>4 DEF Becomes
    <2>3. ThreadsOK(t) /\ Stands(t, "eager", vs, {})
      <3>1. "eager" \in PCs
        BY DEF PCs
      <3> QED BY <1>0, <2>1, <3>1, GotoType
    <2>4. ThreadOK(t)'
      <3>1. Continues(t, "eager", vs, {})
        BY <1>0, <2>2, <2>3 DEF Continues, Pipeline, VictimOf
      <3> QED BY <3>1, GoOn
    <2>5. owed' \subseteq Dues
      <3>1. Adds(t, "inactive", vs) \subseteq Dues
        BY <1>0, DuesOf DEF Counters
      <3> QED BY <2>1, <3>1, OweType
    <2> QED BY <2>1, <2>2, <2>3, <2>4, <2>5 DEF StepOK, IInv, TypeOK
  <1> QED BY <1>1, <1>2

LEMMA WriteEagerlyStep ==
    ASSUME IInv, NEW t \in Threads, WriteEagerly(t)
    PROVE  StepOK(t)
  <1> DEFINE vs == th[t].vs
  <1>0. th[t].pc = "eager" /\ vs \in SUBSET Blocks /\ th[t].up = {}
    BY InHand DEF WriteEagerly, At
  <1>1. /\ blk' = [b \in Blocks |-> blk'[b]]
        /\ \A b \in Blocks \ vs : blk'[b] = blk[b]
        /\ \A b \in vs : \E s \in {blk[b], eager_evict(blk[b])} \cup evict_block_errors(blk[b]) :
              blk'[b] = Unlock(s)
    <2> DEFINE able == IF EagerWriteback THEN {b \in vs : check_block_free(blk[b])} ELSE {}
    <2>1. PICK E \in SUBSET able :
             \/ Update(vs, LAMBDA b : Unlock(IF b \in E THEN eager_evict(blk[b]) ELSE blk[b]))
             \/ \E f \in able \ E : \E r \in evict_block_errors(blk[f]) :
                   Update(vs, LAMBDA b : Unlock(IF b = f THEN r
                                                ELSE IF b \in E THEN eager_evict(blk[b])
                                                ELSE blk[b]))
      BY DEF WriteEagerly
    <2>2. CASE Update(vs, LAMBDA b : Unlock(IF b \in E THEN eager_evict(blk[b]) ELSE blk[b]))
      BY <1>0, <2>2 DEF Update
    <2>3. ASSUME NEW f \in able \ E, NEW r \in evict_block_errors(blk[f]),
                 Update(vs, LAMBDA b : Unlock(IF b = f THEN r
                                              ELSE IF b \in E THEN eager_evict(blk[b])
                                              ELSE blk[b]))
          PROVE  /\ blk' = [b \in Blocks |-> blk'[b]]
                 /\ \A b \in Blocks \ vs : blk'[b] = blk[b]
                 /\ \A b \in vs : \E s \in {blk[b], eager_evict(blk[b])}
                                            \cup evict_block_errors(blk[b]) :
                       blk'[b] = Unlock(s)
      BY <1>0, <2>3 DEF Update
    <2> QED BY <2>1, <2>2, <2>3
  <1>2. ASSUME NEW b \in vs PROVE Becomes(blk[b], blk'[b], NoThread, "INACTIVE")
    <2>1. blk[b].state = "INACTIVE" /\ Sane(blk[b])
      BY <1>0, InHand DEF IInv, ThreadOK, VictimOf
    <2> QED BY <1>1, <2>1, UnlockSane, EagerEvictSane, EvictErrorSane
  <1>3. \E p \in {"inactive", "error"} : LetGo(t, p)
    <2>1. \E p \in {"inactive", "error"} : GotoWith(t, p, {}) \/ Leave(t)
      BY DEF WriteEagerly
    <2> QED BY <1>0, <1>1, <1>2, <2>1 DEF LetGo, Pipeline, PCs
  <1> QED BY <1>3, LetGoStep DEF WriteEagerly, StepOK, IInv, TypeOK, Dues

(* One victim is done with: the next one, or back to what was served.      *)
LEMMA EvictedStep ==
    ASSUME IInv, NEW t \in Threads, NEW b \in th[t].vs, NEW state,
           th[t].pc = "evict", th[t].up = {}, Evicted(t, b),
           OnlyBlock(t, b, NoThread, state)
    PROVE  BlocksOK(t) /\ ThreadsOK(t) /\ ThreadOK(t)'
  <1>1. BlocksOK(t)
    BY InHand, OneBlock
  <1>2. \A c \in (th[t].cur \cup th[t].vs) \ {b} : blk'[c] = blk[c]
    BY InHand DEF OnlyBlock, IInv, TypeOK
  <1>3. \A c \in th[t].cur : blk'[c] = blk[c] /\ c \notin th[t].vs
    BY <1>2 DEF IInv, ThreadOK
  <1>4. CASE th[t].vs = {b}
    <2>1. ThreadsOK(t) /\ Stands(t, th[t].ret, {}, {})
      BY <1>4, ReturnType DEF Evicted
    <2>2. Continues(t, th[t].ret, {}, {})
      BY <1>3, <2>1 DEF Continues, Pipeline
    <2> QED BY <1>1, <2>1, <2>2, GoOn
  <1>5. CASE th[t].vs # {b}
    <2>1. "evict" \in PCs /\ th[t].vs \ {b} \in SUBSET Blocks
      BY InHand DEF PCs
    <2>2. ThreadsOK(t) /\ Stands(t, "evict", th[t].vs \ {b}, {})
      BY <1>5, <2>1, GotoWithType DEF Evicted
    <2>3. \A c \in th[t].vs \ {b} : blk'[c].holder = t /\ blk'[c].state = "TRANS_IL"
      BY <1>2, InHand DEF IInv, ThreadOK, VictimOf
    <2>4. Continues(t, "evict", th[t].vs \ {b}, {})
      BY <1>3, <2>2, <2>3 DEF Continues, Pipeline, VictimOf
    <2> QED BY <1>1, <2>2, <2>4, GoOn
  <1> QED BY <1>4, <1>5

LEMMA EvictCleanStep ==
    ASSUME IInv, NEW t \in Threads, NEW b \in Blocks, EvictClean(t, b)
    PROVE  StepOK(t)
  <1> DEFINE e == check_eager_wbr(blk[b])
  <1>0. /\ th[t].pc = "evict" /\ b \in th[t].vs /\ Ready(blk[b]) /\ Sane(blk[b])
        /\ blk[b].holder = t /\ th[t].up = {} /\ th[t].vs \in SUBSET Blocks
        /\ \A c \in th[t].vs : blk[c].state = "TRANS_IL" /\ blk[c].holder = t
    BY InHand DEF EvictClean, At, IInv, ThreadOK, VictimOf
  <1>1. OnlyBlock(t, b, t, "INIT")
    <2>1. blk'[b] = set_gpa_remote(e) /\ blk' = [blk EXCEPT ![b] = blk'[b]]
      BY DEF EvictClean, IInv, TypeOK
    <2>2. Drained(blk[b], e) /\ Sane(e)
      BY <1>0, NeedCheckSane
    <2>3. Becomes(e, set_gpa_remote(e), t, "INIT")
      BY <1>0, <2>2, ReleaseSane DEF Drained, Ready
    <2>4. Becomes(blk[b], blk'[b], t, "INIT")
      BY <1>0, <2>1, <2>2, <2>3 DEF Becomes, Keeps, Drained, Sane, Literal, Ready
    <2> QED BY <1>0, <2>1, <2>4 DEF OnlyBlock
  <1>2. BlocksOK(t) /\ blk'[b].holder = t /\ blk'[b].state = "INIT"
    BY <1>1, OneBlock
  <1>3. \A c \in (th[t].cur \cup th[t].vs) \ {b} : blk'[c] = blk[c]
    BY <1>1, InHand DEF OnlyBlock, IInv, TypeOK
  <1>4. \A c \in th[t].cur : blk'[c] = blk[c] /\ c \notin th[t].vs
    BY <1>0, <1>3 DEF IInv, ThreadOK
  <1>5. ThreadsOK(t) /\ Stands(t, "release", th[t].vs, {})
    <2>1. "release" \in PCs
      BY DEF PCs
    <2>2. Goto(t, "release")
      BY DEF EvictClean
    <2> QED BY <1>0, <2>1, <2>2, GotoType
  <1>6. ThreadOK(t)'
    <2>1. \A c \in th[t].vs : blk'[c].holder = t /\ blk'[c].state \in {"INIT", "TRANS_IL"}
      BY <1>0, <1>2, <1>3
    <2>2. Continues(t, "release", th[t].vs, {})
      BY <1>0, <1>4, <1>5, <2>1 DEF Continues, Pipeline, VictimOf
    <2> QED BY <2>2, GoOn
  <1>7. owed' \subseteq Dues /\ free' \in Nat
    BY DuesOf, OweType DEF EvictClean, IInv, TypeOK
  <1> QED BY <1>2, <1>5, <1>6, <1>7 DEF EvictClean, StepOK, IInv, TypeOK

LEMMA ReleaseStep ==
    ASSUME IInv, NEW t \in Threads, Release(t)
    PROVE  StepOK(t)
  <1> DEFINE released == {b \in th[t].vs : blk[b].state = "INIT"}
             rest == th[t].vs \ released
  <1>0. /\ th[t].pc = "release" /\ th[t].up = {} /\ th[t].vs \in SUBSET Blocks
        /\ \A b \in rest : blk[b].state = "TRANS_IL" /\ blk[b].holder = t
    BY InHand DEF Release, At, IInv, ThreadOK, VictimOf
  <1>1. /\ BlocksOK(t)
        /\ \A b \in th[t].cur \cup rest : blk'[b] = blk[b]
    <2>1. /\ blk' = [b \in Blocks |-> blk'[b]]
          /\ \A b \in Blocks \ released : blk'[b] = blk[b]
          /\ \A b \in released : blk'[b] = Unlock(blk[b])
      BY <1>0 DEF Release, Update
    <2>2. ASSUME NEW b \in released
          PROVE  /\ blk[b].holder \in {t, NoThread}
                 /\ Becomes(blk[b], blk'[b], NoThread, blk[b].state)
      BY <2>1, InHand, UnlockSane
    <2>3. BlocksOK(t)
      BY <1>0, <2>1, <2>2, SomeBlocks
    <2>4. \A b \in th[t].cur \cup rest : b \in Blocks \ released
      BY InHand DEF IInv, ThreadOK
    <2> QED BY <2>1, <2>3, <2>4
  <1>2. \A b \in th[t].cur : b \notin th[t].vs
    BY DEF IInv, ThreadOK
  <1>3. CASE th[t].vs = released
    <2>1. ThreadsOK(t) /\ Stands(t, th[t].ret, {}, {})
      BY <1>0, <1>3, ReturnType DEF Release
    <2>2. Continues(t, th[t].ret, {}, {})
      BY <1>0, <1>1, <2>1 DEF Continues, Pipeline
    <2> QED BY <1>1, <2>1, <2>2, GoOn DEF Release, StepOK, IInv, TypeOK, Dues
  <1>4. CASE th[t].vs # released
    <2>1. "evict" \in PCs /\ rest \in SUBSET Blocks
      BY <1>0 DEF PCs
    <2>2. GotoWith(t, "evict", rest)
      BY <1>4 DEF Release
    <2>3. ThreadsOK(t) /\ Stands(t, "evict", rest, {})
      BY <1>0, <2>1, <2>2, GotoWithType
    <2>4. Continues(t, "evict", rest, {})
      BY <1>0, <1>1, <1>2, <2>3 DEF Continues, Pipeline, VictimOf
    <2> QED BY <1>1, <2>3, <2>4, GoOn DEF Release, StepOK, IInv, TypeOK, Dues
  <1> QED BY <1>3, <1>4

LEMMA EvictPostStep ==
    ASSUME IInv, NEW t \in Threads, NEW b \in Blocks, EvictPost(t, b)
    PROVE  StepOK(t)
  <1> DEFINE e == AfterNeedCheck(check_eager_wbr(blk[b]))
  <1>0. /\ th[t].pc = "evict" /\ b \in th[t].vs /\ Sane(blk[b]) /\ th[t].up = {}
        /\ blk[b].holder = t /\ blk[b].state = "TRANS_IL"
    BY InHand DEF EvictPost, At, IInv, ThreadOK, VictimOf
  <1>1. OnlyBlock(t, b, NoThread, "WB")
    <2>1. blk'[b] = Unlock(writeback_evict(e)) /\ blk' = [blk EXCEPT ![b] = blk'[b]]
      BY DEF EvictPost, IInv, TypeOK
    <2>2. Drained(blk[b], e) /\ Sane(e)
      BY <1>0, NeedCheckSane
    <2>3. Becomes(e, Unlock(writeback_evict(e)), NoThread, "WB")
      BY <1>0, <2>2, WritebackEvictSane DEF Drained
    <2>4. Becomes(blk[b], blk'[b], NoThread, "WB")
      BY <1>0, <2>1, <2>3 DEF Becomes, Keeps, Sane, Literal
    <2> QED BY <1>0, <2>1, <2>4 DEF OnlyBlock
  <1>2. BlocksOK(t) /\ ThreadsOK(t) /\ ThreadOK(t)'
    BY <1>0, <1>1, EvictedStep DEF EvictPost
  <1>3. len' \in [Counters -> Int]
    BY DEF EvictPost, IInv, TypeOK, Counters
  <1> QED BY <1>2, <1>3 DEF EvictPost, StepOK, IInv, TypeOK, Dues

LEMMA EvictFailStep ==
    ASSUME IInv, NEW t \in Threads, NEW b \in Blocks, EvictFail(t, b)
    PROVE  StepOK(t)
  <1> DEFINE vs == th[t].vs
             e == AfterNeedCheck(check_eager_wbr(blk[b]))
  <1>0. th[t].pc = "evict" /\ b \in vs /\ vs \in SUBSET Blocks /\ th[t].up = {}
    BY InHand DEF EvictFail, At
  <1>1. PICK r \in evict_block_errors(e) :
           Update(vs, LAMBDA c : Unlock(IF c = b THEN r ELSE blk[c]))
    BY DEF EvictFail
  <1>2. /\ blk' = [c \in Blocks |-> blk'[c]]
        /\ \A c \in Blocks \ vs : blk'[c] = blk[c]
        /\ \A c \in vs : blk'[c] = Unlock(IF c = b THEN r ELSE blk[c])
    BY <1>0, <1>1 DEF Update
  <1>3. ASSUME NEW c \in vs
        PROVE  Becomes(blk[c], blk'[c], NoThread, "TRANS_IL")
    <2>1. blk[c].state = "TRANS_IL" /\ Sane(blk[c]) /\ blk[c].holder = t
      BY <1>0, InHand DEF IInv, ThreadOK, VictimOf
    <2>2. CASE c # b
      BY <1>2, <2>1, <2>2, UnlockSane
    <2>3. CASE c = b
      <3>1. Drained(blk[b], e) /\ Sane(e)
        BY <2>1, <2>3, NeedCheckSane
      <3> HIDE DEF e
      <3>2. Becomes(e, Unlock(r), NoThread, "TRANS_IL")
        BY <2>1, <2>3, <3>1, EvictErrorSane DEF Drained
      <3>3. Becomes(blk[c], blk'[c], NoThread, "TRANS_IL")
        BY <1>2, <2>1, <2>3, <3>2 DEF Becomes, Keeps, Sane, Literal
      <3> QED BY <3>3
    <2> QED BY <2>2, <2>3
  <1>4. LetGo(t, "error")
    <2>1. GotoWith(t, "error", {}) /\ "error" \in PCs
      BY DEF EvictFail, PCs
    <2> QED BY <1>0, <1>2, <1>3, <2>1 DEF LetGo, Pipeline
  <1> QED BY <1>4, LetGoStep DEF EvictFail, StepOK, IInv, TypeOK, Dues

-----------------------------------------------------------------------------
(* A hint that only looks at an unlocked block, or writes to its flags.    *)
LEMMA HintStep ==
    ASSUME IInv, NEW t \in Threads, NEW b \in Blocks, NEW state,
           blk[b].holder = NoThread, OnlyBlock(t, b, NoThread, state), UNCHANGED th
    PROVE  BlocksOK(t) /\ ThreadsOK(t) /\ ThreadOK(t)'
  <1>1. BlocksOK(t)
    BY OneBlock
  <1>2. \A c \in Hands(th[t]) : blk'[c] = blk[c]
    BY InHand, LifecycleAssumption DEF OnlyBlock, IInv, TypeOK
  <1>3. ThreadsOK(t)
    BY DEF IInv, TypeOK, ThreadsOK
  <1> QED BY <1>1, <1>2, <1>3 DEF IInv, ThreadOK, Hands

(* A hint that goes on with the block it has locked.                       *)
LEMMA EnterStep ==
    ASSUME IInv, NEW t \in Threads, NEW b \in Blocks, NEW r, Sane(r),
           blk[b].holder = NoThread, r.state = "INIT",
           Becomes(blk[b], r, NoThread, "INIT"),
           blk' = [blk EXCEPT ![b] = Lock(r, t)],
           NEW op \in {"prefetch", "populate"}, Enter(t, "alloc", op, b)
    PROVE  BlocksOK(t) /\ ThreadsOK(t) /\ ThreadOK(t)'
  <1>1. Becomes(blk[b], Lock(r, t), t, "INIT")
    <2>1. Becomes(r, Lock(r, t), t, "INIT")
      BY LockSane
    <2>2. /\ Lock(r, t).page = r.page /\ Lock(r, t).state = r.state
          /\ Lock(r, t).flags = r.flags
      BY DEF Lock, Sane, Block
    <2> QED BY <2>1, <2>2 DEF Becomes, Keeps, Has
  <1>2. OnlyBlock(t, b, t, "INIT")
    BY <1>1 DEF OnlyBlock, IInv, TypeOK
  <1>3. BlocksOK(t) /\ blk'[b].holder = t /\ blk'[b].state = "INIT"
    BY <1>2, OneBlock
  <1>4. ThreadsOK(t)
    BY DEF ThreadsOK, Enter, IInv, TypeOK, Thread, PCs, Entry
  <1>5. ThreadOK(t)'
    BY <1>3 DEF Enter, IInv, TypeOK, ThreadOK, Hands, Serving, Pipeline
  <1> QED BY <1>3, <1>4, <1>5

LEMMA PinStep ==
    ASSUME IInv, NEW t \in Threads, NEW b \in Blocks, Pin(t, b)
    PROVE  StepOK(t)
  <1> DEFINE F == {"PINNED"} \cup IF blk[b].state = "WB" THEN {"PROMOTE"} ELSE {}
  <1>1. OnlyBlock(t, b, NoThread, blk[b].state)
    <2>1. /\ blk[b].holder = NoThread
          /\ blk'[b] = Set(blk[b], F) /\ blk' = [blk EXCEPT ![b] = blk'[b]]
      BY DEF Pin, IInv, TypeOK
    <2>2. F \in SUBSET (Flags \ {"HPT"})
      BY DEF Flags
    <2>3. Becomes(blk[b], Set(blk[b], F), NoThread, blk[b].state)
      BY <2>1, <2>2, BlocksSane, HintSane
    <2> QED BY <2>1, <2>3 DEF OnlyBlock
  <1>2. BlocksOK(t) /\ ThreadsOK(t) /\ ThreadOK(t)'
    BY <1>1, HintStep DEF Pin
  <1>3. owed' \subseteq Dues
    <2>1. NewlyPinned(b) \in SUBSET Blocks /\ "num_pin" \in Counters
      BY DEF NewlyPinned, Counters
    <2>2. Adds(t, "num_pin", NewlyPinned(b)) \subseteq Dues
      BY <2>1, DuesOf
    <2> QED BY <2>2, OweType DEF Pin
  <1> QED BY <1>2, <1>3 DEF Pin, StepOK, IInv, TypeOK

LEMMA UnpinStep ==
    ASSUME IInv, NEW t \in Threads, NEW b \in Blocks, Unpin(t, b)
    PROVE  StepOK(t)
  <1> DEFINE r == Clear(blk[b], {"PINNED"})
             listed == Has(r, "PROACTIVE") /\ r.list = "pin"
  <1>1. OnlyBlock(t, b, NoThread, blk[b].state)
    <2>1. /\ blk[b].holder = NoThread
          /\ blk'[b] = IF listed THEN Relist(r, "proactive") ELSE r
          /\ blk' = [blk EXCEPT ![b] = blk'[b]]
      BY DEF Unpin, IInv, TypeOK
    <2>2. Becomes(blk[b], r, NoThread, blk[b].state)
      <3>1. {"PINNED"} \in SUBSET (Flags \ {"HPT"})
        BY DEF Flags
      <3> QED BY <2>1, <3>1, BlocksSane, HintSane
    <2>3. ASSUME listed PROVE Becomes(blk[b], Relist(r, "proactive"), NoThread, blk[b].state)
      <3>1. blk[b].state = "ACTIVE"
        BY <2>2, <2>3 DEF Becomes, Sane, Literal
      <3> QED BY <2>1, <3>1, BlocksSane, RelistSane
    <2> QED BY <2>1, <2>2, <2>3 DEF OnlyBlock
  <1>2. BlocksOK(t) /\ ThreadsOK(t) /\ ThreadOK(t)'
    BY <1>1, HintStep DEF Unpin
  <1>3. owed' \subseteq Dues
    <2> DEFINE W == IF listed THEN {b} ELSE {}
    <2>1. /\ {b} \ NewlyPinned(b) \in SUBSET Blocks /\ W \in SUBSET Blocks
          /\ "num_pin" \in Counters /\ "cur_pin" \in Counters
      BY DEF Counters
    <2>2. Owe(Subs(t, "num_pin", {b} \ NewlyPinned(b)) \cup Subs(t, "cur_pin", W))
      BY DEF Unpin
    <2> HIDE DEF W
    <2>3. /\ Subs(t, "num_pin", {b} \ NewlyPinned(b)) \subseteq Dues
          /\ Subs(t, "cur_pin", W) \subseteq Dues
      BY <2>1, DuesOf
    <2> QED BY <2>2, <2>3, OweType
  <1> QED BY <1>2, <1>3 DEF Unpin, StepOK, IInv, TypeOK

LEMMA PrefetchStep ==
    ASSUME IInv, NEW t \in Threads, NEW b \in Blocks, Prefetch(t, b)
    PROVE  StepOK(t)
  <1>0. blk[b].holder = NoThread /\ Sane(blk[b])
    BY BlocksSane DEF Prefetch
  <1>1. CASE Remote(b)
    <2>1. Becomes(blk[b], blk[b], NoThread, "INIT")
      BY <1>0, <1>1, BlocksSane DEF Remote, Becomes
    <2>2. BlocksOK(t) /\ ThreadsOK(t) /\ ThreadOK(t)'
      BY <1>0, <1>1, <2>1, EnterStep DEF Prefetch, Remote
    <2> QED BY <2>2 DEF Prefetch, StepOK, IInv, TypeOK, Dues
  <1>2. CASE ~Remote(b)
    <2>1. OnlyBlock(t, b, NoThread, blk[b].state)
      <3>1. blk'[b] = Set(blk[b], {"PROMOTE"}) /\ blk' = [blk EXCEPT ![b] = blk'[b]]
        BY <1>2 DEF Prefetch, IInv, TypeOK
      <3>2. {"PROMOTE"} \in SUBSET (Flags \ {"HPT"})
        BY DEF Flags
      <3> QED BY <1>0, <3>1, <3>2, HintSane DEF OnlyBlock
    <2>2. BlocksOK(t) /\ ThreadsOK(t) /\ ThreadOK(t)'
      BY <1>0, <1>2, <2>1, HintStep DEF Prefetch
    <2> QED BY <2>2 DEF Prefetch, StepOK, IInv, TypeOK, Dues
  <1> QED BY <1>1, <1>2

LEMMA PopulateStep ==
    ASSUME IInv, NEW t \in Threads, NEW b \in Blocks, Populate(t, b)
    PROVE  StepOK(t)
  <1> DEFINE r == blk[b]
             resumed == Has(r, "PREFETCHED") /\ Has(r, "HPT")
             c == IF resumed THEN map(wait_read_async(r)) ELSE r
             s == Set(Clear(c, {"PREFETCHED"}), {"PROMOTE"})
  <1>0. r.holder = NoThread /\ Sane(r)
    BY BlocksSane DEF Populate
  <1>1. {"PREFETCHED"} \in SUBSET (Flags \ {"HPT"}) /\ {"PROMOTE"} \in SUBSET (Flags \ {"HPT"})
    BY DEF Flags
  <1>2. Becomes(r, Clear(r, {"PREFETCHED"}), NoThread, r.state)
    BY <1>0, <1>1, HintSane
  <1>3. CASE r.state = "INIT"
    <2>1. /\ Sane(Clear(r, {"PREFETCHED"})) /\ Clear(r, {"PREFETCHED"}).state = "INIT"
      BY <1>2, <1>3 DEF Becomes
    <2>2. /\ blk' = [blk EXCEPT ![b] = Lock(Clear(r, {"PREFETCHED"}), t)]
          /\ Enter(t, "alloc", "populate", b)
          /\ UNCHANGED <<len, owed, free, panic>>
      BY <1>3 DEF Populate
    <2>3. BlocksOK(t) /\ ThreadsOK(t) /\ ThreadOK(t)'
      BY <1>0, <1>2, <1>3, <2>1, <2>2, EnterStep
    <2> QED BY <2>2, <2>3 DEF StepOK, IInv, TypeOK, Dues
  <1>4. CASE r.state # "INIT" /\ resumed /\ Misread(r)
    BY <1>4, PanicStep DEF Populate
  <1>5. CASE r.state # "INIT" /\ ~(resumed /\ Misread(r))
    <2>1. blk' = [blk EXCEPT ![b] = s] /\ UNCHANGED <<th, len, owed, free, panic>>
      BY <1>5 DEF Populate
    <2>2. Becomes(r, s, NoThread, r.state)
      <3>1. CASE resumed
        BY <1>0, <1>5, <3>1, PopulateSane
      <3>2. CASE ~resumed
        <4> DEFINE d == Clear(r, {"PREFETCHED"})
        <4>1. Sane(d) /\ d.holder = NoThread /\ d.state = r.state
          BY <1>2 DEF Becomes
        <4> HIDE DEF d
        <4>2. Becomes(d, Set(d, {"PROMOTE"}), NoThread, r.state)
          BY <1>1, <4>1, HintSane
        <4>3. s = Set(d, {"PROMOTE"})
          BY <3>2 DEF d
        <4> QED BY <1>0, <1>5, <4>2, <4>3 DEF Becomes, Keeps, Sane, Literal
      <3> QED BY <3>1, <3>2
    <2>3. OnlyBlock(t, b, NoThread, r.state)
      <3> HIDE DEF s
      <3> QED BY <1>0, <2>1, <2>2 DEF OnlyBlock, IInv, TypeOK
    <2>4. BlocksOK(t) /\ ThreadsOK(t) /\ ThreadOK(t)'
      BY <1>0, <2>1, <2>3, HintStep
    <2> QED BY <2>1, <2>4 DEF StepOK, IInv, TypeOK, Dues
  <1> QED BY <1>3, <1>4, <1>5

LEMMA DontNeedStep ==
    ASSUME IInv, NEW t \in Threads, NEW b \in Blocks, DontNeed(t, b)
    PROVE  StepOK(t)
  <1> DEFINE r == Clear(blk[b], {"PROMOTE", "PINNED"})
             v == Clear(Take(r, t, "TRANS_AL"), {"PROACTIVE"})
  <1>0. /\ blk[b].holder = NoThread /\ Sane(blk[b]) /\ th[t].pc = "idle"
    BY BlocksSane DEF DontNeed, At
  <1>1. Becomes(blk[b], r, NoThread, blk[b].state)
    <2>1. {"PROMOTE", "PINNED"} \in SUBSET (Flags \ {"HPT"})
      BY DEF Flags
    <2> QED BY <1>0, <2>1, HintSane
  <1>2. CASE r.state = "ACTIVE" /\ gpa_acquire(r)
    <2>1. blk' = [blk EXCEPT ![b] = v]
      BY <1>2 DEF DontNeed
    <2>2. blk[b].state = "ACTIVE"
      BY <1>1, <1>2 DEF Becomes
    <2>3. Becomes(blk[b], v, t, "TRANS_AL")
      BY <1>0, <2>2, DontNeedSane
    <2>4. OnlyBlock(t, b, t, "TRANS_AL")
      <3> HIDE DEF v
      <3> QED BY <1>0, <2>1, <2>3 DEF OnlyBlock, IInv, TypeOK
    <2>5. BlocksOK(t) /\ blk'[b].holder = t /\ blk'[b].state = "TRANS_AL"
      BY <2>4, OneBlock
    <2>6. th' = [th EXCEPT ![t] = [IdleThread EXCEPT !.pc = "unmap", !.op = "dontneed", !.vs = {b}]]
      BY <1>2 DEF DontNeed
    <2>7. [IdleThread EXCEPT !.pc = "unmap", !.op = "dontneed", !.vs = {b}] \in Thread
      BY DEF IdleThread, Thread, PCs, Entry
    <2>8. ThreadsOK(t)
      BY <2>6, <2>7 DEF ThreadsOK, IInv, TypeOK
    <2>9. ThreadOK(t)'
      BY <2>5, <2>6 DEF IdleThread, IInv, TypeOK, ThreadOK, Hands, Serving, Pipeline, VictimOf
    <2>10. len' \in [Counters -> Int]
      <3>1. \A n \in {0, 1} : len["cur_pin"] - n \in Int
        BY DEF IInv, TypeOK, Counters
      <3>2. PICK n \in {0, 1} : len' = [len EXCEPT !["cur_pin"] = @ - n]
        BY <1>2 DEF DontNeed
      <3> QED BY <3>1, <3>2 DEF IInv, TypeOK
    <2>11. owed' \subseteq Dues
      <3>1. PICK target \in {"proactive", "active"} : Owe(Subs(t, target, {b}))
        BY <1>2 DEF DontNeed
      <3>2. Subs(t, target, {b}) \subseteq Dues
        BY DuesOf DEF Counters
      <3> QED BY <3>1, <3>2, OweType
    <2> QED BY <2>5, <2>8, <2>9, <2>10, <2>11 DEF DontNeed, StepOK, IInv, TypeOK
  <1>3. CASE ~(r.state = "ACTIVE" /\ gpa_acquire(r))
    <2>1. blk' = [blk EXCEPT ![b] = r] /\ UNCHANGED <<th, len, owed, free, panic>>
      BY <1>3 DEF DontNeed
    <2>2. OnlyBlock(t, b, NoThread, blk[b].state)
      <3> HIDE DEF r
      <3> QED BY <1>0, <1>1, <2>1 DEF OnlyBlock, IInv, TypeOK
    <2>3. BlocksOK(t) /\ ThreadsOK(t) /\ ThreadOK(t)'
      BY <1>0, <2>1, <2>2, HintStep
    <2> QED BY <2>1, <2>3 DEF StepOK, IInv, TypeOK, Dues
  <1> QED BY <1>2, <1>3

-----------------------------------------------------------------------------
(* The memory and the device change neither holder nor state.              *)
LEMMA DeviceStep ==
    ASSUME IInv, NEW b \in Blocks,
           Becomes(blk[b], blk'[b], blk[b].holder, blk[b].state),
           blk' = [blk EXCEPT ![b] = blk'[b]], UNCHANGED <<th, len, owed, free, panic>>
    PROVE  IInv' /\ \A c \in Blocks : Keeps(blk[c], blk'[c])
  <1>1. /\ \A c \in Blocks : /\ Sane(blk'[c]) /\ Keeps(blk[c], blk'[c])
                             /\ blk'[c].holder = blk[c].holder
                             /\ blk'[c].state = blk[c].state
    BY BlocksSane DEF Becomes, IInv, TypeOK
  <1>2. TypeOK'
    <2>1. blk' \in [Blocks -> Block]
      BY <1>1 DEF IInv, TypeOK, Sane
    <2> QED BY <2>1 DEF IInv, TypeOK
  <1>3. ASSUME NEW t \in Threads PROVE ThreadOK(t)'
    BY <1>1, InHand DEF IInv, ThreadOK, Hands
  <1> QED BY <1>1, <1>2, <1>3 DEF IInv, Sane

LEMMA MemorySteps ==
    ASSUME IInv, NEW b \in Blocks, Write(b) \/ CompleteIO(b)
    PROVE  IInv' /\ \A c \in Blocks : Keeps(blk[c], blk'[c])
  <1>0. Sane(blk[b])
    BY BlocksSane
  <1>1. CASE Write(b)
    <2> DEFINE s == [blk[b] EXCEPT !.pteDirty = TRUE,
                                   !.remote = IF @ = "fresh" THEN "stale" ELSE @]
    <2>1. blk[b].mapped /\ blk' = [blk EXCEPT ![b] = s] /\ UNCHANGED <<th, len, owed, free, panic>>
      BY <1>1 DEF Write
    <2>2. Becomes(blk[b], s, blk[b].holder, blk[b].state)
      BY <1>0, <2>1, WriteSane, ZenonT(60)
    <2> HIDE DEF s
    <2>3. Becomes(blk[b], blk'[b], blk[b].holder, blk[b].state)
          /\ blk' = [blk EXCEPT ![b] = blk'[b]]
      BY <2>1, <2>2 DEF IInv, TypeOK
    <2> QED BY <2>1, <2>3, DeviceStep
  <1>2. CASE CompleteIO(b)
    <2> DEFINE s == [blk[b] EXCEPT !.done = TRUE,
                                   !.remote = IF blk[b].w = "fetch" THEN @ ELSE "fresh"]
    <2>1. blk' = [blk EXCEPT ![b] = s] /\ UNCHANGED <<th, len, owed, free, panic>>
      BY <1>2 DEF CompleteIO
    <2>2. Becomes(blk[b], s, blk[b].holder, blk[b].state)
      BY <1>0, CompleteSane, ZenonT(60)
    <2> HIDE DEF s
    <2>3. Becomes(blk[b], blk'[b], blk[b].holder, blk[b].state)
          /\ blk' = [blk EXCEPT ![b] = blk'[b]]
      BY <2>1, <2>2 DEF IInv, TypeOK
    <2> QED BY <2>1, <2>3, DeviceStep
  <1> QED BY <1>1, <1>2

LEMMA WorkStep ==
    ASSUME IInv, NEW t \in Threads, Work(t)
    PROVE  StepOK(t)
  <1>1. ASSUME NEW b \in Blocks, FaultInvalid(t, b) PROVE StepOK(t)
    BY <1>1, PanicStep DEF FaultInvalid
  <1>2. ASSUME NEW b \in Blocks, ReapForPage(t, b) PROVE StepOK(t)
    BY <1>2, ReapStep DEF ReapForPage, At
  <1>3. CASE \E b \in Blocks :
                \/ FaultActive(t, b) \/ FaultInactive(t, b) \/ FaultWriteback(t, b)
                \/ FaultInvalid(t, b) \/ FaultRemote(t, b) \/ Fetch(t, b) \/ MapBlock(t, b)
                \/ EvictClean(t, b) \/ EvictPost(t, b) \/ EvictFail(t, b)
                \/ ReapForPage(t, b)
    BY <1>1, <1>2, <1>3, FaultActiveStep, FaultInactiveStep, FaultWritebackStep,
       FaultRemoteStep, FetchStep, MapBlockStep, EvictCleanStep, EvictPostStep,
       EvictFailStep
  <1>4. CASE \/ \E c \in Counters : AdjustLength(t, c)
             \/ MoveToPin(t) \/ Promote(t)
    BY <1>4, AdjustLengthStep, MoveToPinStep, PromoteStep
  <1>5. CASE \/ AllocReclaim(t) \/ ReapDone(t) \/ Finish(t) \/ Fail(t)
             \/ UpdateProactive(t) \/ SkipProactive(t) \/ UnpinVictims(t) \/ SkipUnpin(t)
             \/ Demote(t) \/ Demoted(t)
             \/ UpdateActive(t) \/ SkipActive(t) \/ UnmapVictims(t) \/ WriteEagerly(t)
             \/ UpdateInactive(t) \/ SkipInactive(t) \/ Release(t)
    BY <1>5, AllocReclaimStep, ReapDoneStep, FinishStep, FailStep,
       UpdateProactiveStep, SkipProactiveStep, UnpinVictimsStep, SkipUnpinStep,
       DemoteStep, DemotedStep, UpdateActiveStep, SkipActiveStep, UnmapVictimsStep,
       WriteEagerlyStep, UpdateInactiveStep, SkipInactiveStep, ReleaseStep
  <1> QED BY <1>3, <1>4, <1>5 DEF Work

LEMMA SyscallStep ==
    ASSUME IInv, NEW t \in Threads, Syscall(t)
    PROVE  StepOK(t)
  <1>1. ASSUME NEW b \in Blocks, ReapAhead(t, b) PROVE StepOK(t)
    BY <1>1, ReapStep DEF ReapAhead, At
  <1> QED BY <1>1, FaultLockStep, PinStep, UnpinStep, PrefetchStep, PopulateStep,
             DontNeedStep
          DEF Syscall

LEMMA NextStep ==
    ASSUME IInv, [Next]_vars
    PROVE  IInv' /\ \A b \in Blocks : Keeps(blk[b], blk'[b])
  <1>1. CASE UNCHANGED vars
    BY <1>1, BlocksSane DEF vars, IInv, TypeOK, ThreadOK, Hands
  <1>2. ASSUME NEW t \in Threads, Work(t) \/ Syscall(t)
        PROVE  IInv' /\ \A b \in Blocks : Keeps(blk[b], blk'[b])
    BY <1>2, WorkStep, SyscallStep, StepPreserves
  <1>3. ASSUME NEW b \in Blocks, Write(b) \/ CompleteIO(b)
        PROVE  IInv' /\ \A c \in Blocks : Keeps(blk[c], blk'[c])
    BY <1>3, MemorySteps
  <1> QED BY <1>1, <1>2, <1>3 DEF Next, Halted

LEMMA InitHolds == Init => IInv
  <1> SUFFICES ASSUME Init PROVE IInv
    OBVIOUS
  <1>1. Sane(NewBlock)
    BY DEF NewBlock, Sane, Literal, Block, Flags, States, Lists, Requests, Has
  <1>2. IdleThread \in Thread
    BY DEF IdleThread, Thread, PCs, Entry
  <1>3. TypeOK
    BY <1>1, <1>2, LifecycleAssumption DEF Init, TypeOK, Sane, Counters
  <1>4. \A t \in Threads : ThreadOK(t)
    BY DEF Init, ThreadOK, Hands, IdleThread, Serving, Pipeline
  <1> QED BY <1>1, <1>3, <1>4 DEF Init, IInv, Sane

(* The inductive invariant holds throughout.                               *)
THEOREM Inductive == Spec => []IInv
  BY InitHolds, NextStep, PTL DEF Spec

-----------------------------------------------------------------------------
(* Every variable keeps its type: no list, flag or request is ever         *)
(* assigned a value the other handlers do not know, and the number of free *)
(* pages never becomes negative.                                           *)
THEOREM TypeCorrect == Spec => []TypeOK
  <1>1. IInv => TypeOK
    BY DEF IInv
  <1> QED BY <1>1, Inductive, PTL

(* A mapped page is never the target of a transfer: whatever path maps a   *)
(* block (a fault, a resumed prefetch, a populate), the request behind it  *)
(* has been waited for, and no path posts one before unmap_gpas().         *)
THEOREM MappedPagesAreQuiet == Spec => []NoTornPage
  <1>1. IInv => NoTornPage
    BY DEF IInv, TypeOK, Literal, NoTornPage, Block, Has
  <1> QED BY <1>1, Inductive, PTL

(* free_gpa() is reached only with the page out of every page table and    *)
(* out of the device's hands.                                              *)
THEOREM PagesAreReleasedUnused == Spec => PageReleasedUnused
  <1>1. IInv /\ [Next]_vars =>
          [\A b \in Blocks : blk[b].page /\ ~blk'[b].page
              => ~blk[b].mapped /\ (blk[b].w = "none" \/ blk[b].done)]_vars
    BY NextStep DEF Keeps
  <1> QED BY <1>1, Inductive, PTL DEF Spec, PageReleasedUnused

(* No victim scan takes a pinned block for eviction, however pinning,      *)
(* faults and the scans of the three lists interleave.                     *)
THEOREM PinnedBlocksStay == Spec => PinnedStays
  <1>1. IInv /\ [Next]_vars =>
          [\A b \in Blocks :
             /\ blk[b].state \in {"ACTIVE", "INACTIVE"}
             /\ Has(blk[b], "PINNED") /\ Has(blk'[b], "PINNED")
             => blk'[b].state \in {"ACTIVE", "INACTIVE"}]_vars
    BY NextStep DEF Keeps
  <1> QED BY <1>1, Inductive, PTL DEF Spec, PinnedStays
=============================================================================
