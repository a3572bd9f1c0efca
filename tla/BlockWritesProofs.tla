------------------------- MODULE BlockWritesProofs -------------------------
(***************************************************************************)
(* No update is lost, for any number of threads, blocks and pages, where   *)
(* no donor fails or where every eviction writes: a block that is dropped  *)
(* without a write has the latest content in its remote page, and whenever *)
(* the content of a resident block is newer than that, somebody knows: the *)
(* dirty flag, the page table entry, or a write that is under way          *)
(* (Stored).  And @w is a request of the kind its flags and its state      *)
(* speak of, as long as no donor fails and nobody populates (Kept).  Both  *)
(* rest on the inductive invariant of BlockLifecycleProofs.                *)
(***************************************************************************)
EXTENDS BlockLifecycleProofs

(* check_need_writeback() lets a clean block go without a write.           *)
MayDrop == RemoteReuse /\ WritebackOpt
EvictionsWrite == DonorMayFail => ~MayDrop

Writing(r) == r.w \in {"writeback", "eager"}
Unsaved(r) ==
    \/ Has(r, "DIRTY")
    \/ r.mapped /\ r.pteDirty
    \/ Writing(r) /\ ~r.done
OfKind(r) ==
    /\ r.w = "eager" <=> Has(r, "EAGER_WBR")
    /\ r.w = "writeback" <=> r.state = "WB"
Stored(r) ==
    /\ OfKind(r)
    /\ Writing(r) /\ r.done => r.remote = "fresh"
    /\ r.state = "INIT" => /\ r.w = "none" /\ r.remote # "stale"
                           /\ Has(r, "TOUCHED") => r.remote = "fresh"
    /\ MayDrop /\ r.state # "INIT" /\ r.remote = "stale" => Unsaved(r)

AllStored == \A b \in Blocks : Stored(blk[b])

-----------------------------------------------------------------------------
(* Record lemmas.  A change that has to do neither with the request nor    *)
(* with the copies of the content keeps a block stored.                    *)
Local == States \ {"INIT", "WB"}
Steady(r, s) ==
    /\ s.w = r.w /\ s.done = r.done /\ s.remote = r.remote
    /\ s.state = r.state \/ {r.state, s.state} \subseteq Local
    /\ Has(s, "EAGER_WBR") <=> Has(r, "EAGER_WBR")
    /\ Has(s, "TOUCHED") <=> Has(r, "TOUCHED")
    /\ Has(r, "DIRTY") => Has(s, "DIRTY")
    /\ r.mapped /\ r.pteDirty => (s.mapped /\ s.pteDirty) \/ Has(s, "DIRTY")

LEMMA SteadyStored ==
    ASSUME NEW r, NEW s, Stored(r), Steady(r, s)
    PROVE  Stored(s)
  BY DEF Stored, OfKind, Steady, Writing, Unsaved, Local

LEMMA SteadySelf ==
    ASSUME NEW r
    PROVE  Steady(r, r)
  BY DEF Steady

LEMMA SteadyTransitive ==
    ASSUME NEW r, NEW s, NEW u, Steady(r, s), Steady(s, u)
    PROVE  Steady(r, u)
  BY DEF Steady

(* The flags a step may set, and those it may clear.                       *)
Marks == {"PINNED", "PROMOTE", "PREFETCHED", "HPT", "PROACTIVE"}

LEMMA LockSteady ==
    ASSUME NEW r \in Block, NEW t
    PROVE  Steady(r, Lock(r, t)) /\ Steady(r, Unlock(r)) /\ Steady(r, map(r))
  BY DEF Steady, Lock, Unlock, map, Block, Has

LEMMA MarkSteady ==
    ASSUME NEW r \in Block, NEW F, F \subseteq Marks
    PROVE  /\ Steady(r, Clear(r, F)) /\ Steady(r, Set(r, F)) /\ Steady(r, Set(r, F \cup {"DIRTY"}))
           /\ Clear(r, F) \in Block /\ Set(r, F) \in Block
  BY DEF Steady, Set, Clear, Block, Flags, Has, Marks

LEMMA TakeSteady ==
    ASSUME NEW r \in Block, NEW t, NEW state, state = r.state \/ {r.state, state} \subseteq Local
    PROVE  Steady(r, Take(r, t, state))
  BY DEF Steady, Take, Block, Has

LEMMA LiftSteady ==
    ASSUME NEW r \in Block, NEW t, NEW F \in SUBSET {"PROMOTE", "PINNED"}
    PROVE  Steady(r, Lift(r, t)) /\ Steady(r, Clear(Lift(r, t), F))
  BY DEF Steady, Lift, Clear, Block, Has

LEMMA RelistSteady ==
    ASSUME NEW r \in Block, NEW l
    PROVE  Steady(r, Relist(r, l))
  BY DEF Steady, Relist, Block, Has

LEMMA ActivateSteady ==
    ASSUME NEW r \in Block, r.state \in Local, NEW target
    PROVE  Steady(r, add_gpas_to_active_list(r, target))
  <1> DEFINE l == ActiveTarget(r, target)
             s == add_gpas_to_active_list(r, target)
  <1>1. s = [r EXCEPT !.state = "ACTIVE", !.list = l,
                      !.flags = IF l = "active" THEN @ ELSE @ \cup {"PROACTIVE"}]
    BY DEF add_gpas_to_active_list
  <1> HIDE DEF l, s
  <1>2. /\ s.w = r.w /\ s.done = r.done /\ s.remote = r.remote /\ s.state = "ACTIVE"
        /\ s.mapped = r.mapped /\ s.pteDirty = r.pteDirty
        /\ s.flags = IF l = "active" THEN r.flags ELSE r.flags \cup {"PROACTIVE"}
    BY <1>1 DEF Block
  <1>3. Steady(r, s)
    BY <1>2 DEF Steady, Has, Local, States
  <1> QED BY <1>3 DEF s

LEMMA PinSteady ==
    ASSUME NEW r \in Block, r.state \in Local, NEW s,
           s = move_to_pin_list(r, TRUE) \/ s = move_to_pin_list(r, FALSE)
    PROVE  Steady(r, s)
  <1>1. PICK F \in {{"PROACTIVE"}, {"PROACTIVE", "PREFETCHED", "HPT"}} :
          s = [r EXCEPT !.state = "ACTIVE", !.list = "pin", !.flags = @ \cup F]
    BY DEF move_to_pin_list
  <1> QED BY <1>1 DEF Steady, Block, Has, Local, States

LEMMA PinType ==
    ASSUME NEW r \in Block, NEW m \in BOOLEAN
    PROVE  move_to_pin_list(r, m) \in Block
  BY DEF move_to_pin_list, Block, Flags, States, Lists

LEMMA PromoteType ==
    ASSUME NEW r \in Block, NEW m \in BOOLEAN
    PROVE  promote_gpas(r, m) \in Block
  BY DEF promote_gpas, Block, Flags, States, Lists

LEMMA PromoteSteady ==
    ASSUME NEW r \in Block, r.state \in Local, NEW s,
           s = promote_gpas(r, TRUE) \/ s = promote_gpas(r, FALSE)
    PROVE  Steady(r, s)
  <1>1. PICK F \in {{"PROACTIVE"}, {"PROACTIVE", "PREFETCHED"}} :
          s = [r EXCEPT !.state = "ACTIVE", !.list = "proactive", !.flags = @ \cup F]
    BY DEF promote_gpas
  <1> QED BY <1>1 DEF Steady, Block, Has, Local, States

-----------------------------------------------------------------------------
(* Waiting for a request, and giving it up.                                *)
LEMMA WaitStored ==
    ASSUME NEW r \in Block, Stored(r)
    PROVE  LET s == wait_read_async(r)
           IN  /\ Stored(s) /\ s \in Block
               /\ s.flags = r.flags /\ s.done = r.done /\ s.state = r.state
               /\ s.w = IF r.w = "fetch" THEN "none" ELSE r.w
  <1> DEFINE s == wait_read_async(r)
  <1>1. CASE r.w # "fetch"
    BY <1>1 DEF wait_read_async
  <1>2. CASE r.w = "fetch"
    <2>1. s \in {[r EXCEPT !.w = "none"], [r EXCEPT !.w = "none", !.remote = "none"]}
      BY <1>2 DEF wait_read_async, free_remote_page, Block
    <2>2. /\ s \in Block /\ s.flags = r.flags /\ s.done = r.done /\ s.state = r.state
          /\ s.w = "none" /\ s.mapped = r.mapped /\ s.pteDirty = r.pteDirty
          /\ s.remote \in {r.remote, "none"}
      BY <2>1 DEF Block, Requests
    <2> HIDE DEF s
    <2>3. Stored(s)
      BY <1>2, <2>2 DEF Stored, OfKind, Writing, Unsaved, Has
    <2> QED BY <1>2, <2>2, <2>3 DEF s
  <1> QED BY <1>1, <1>2

(* After its request was waited for, a block may lose its eager writeback. *)
LEMMA EagerStored ==
    ASSUME NEW r \in Block, Stored(r), Ready(r), r.state # "INIT"
    PROVE  LET e == check_eager_wbr(r)
           IN  /\ Stored(e) /\ e \in Block /\ ~Has(e, "EAGER_WBR")
               /\ e.done = r.done /\ e.state = r.state /\ Ready(e)
               /\ e.w = IF r.w = "eager" THEN "none" ELSE r.w
  <1> DEFINE e == check_eager_wbr(r)
  <1>1. CASE ~Has(r, "EAGER_WBR")
    BY <1>1 DEF check_eager_wbr, Stored, OfKind
  <1>2. CASE Has(r, "EAGER_WBR")
    <2>1. e = [r EXCEPT !.w = "none", !.flags = @ \ {"EAGER_WBR", "DIRTY"}]
      BY <1>2 DEF check_eager_wbr, Clear, Block
    <2>2. /\ e \in Block /\ e.flags = r.flags \ {"EAGER_WBR", "DIRTY"}
          /\ e.done = r.done /\ e.state = r.state
          /\ e.w = "none" /\ e.mapped = r.mapped /\ e.pteDirty = r.pteDirty
          /\ e.remote = r.remote
      BY ZenonT(60), <2>1 DEF Block, Requests, Flags
    <2> HIDE DEF e
    <2>3. r.w = "eager" /\ r.done /\ r.remote = "fresh"
      BY <1>2 DEF Stored, OfKind, Writing, Ready
    <2>4. Stored(e)
      BY <2>2, <2>3 DEF Stored, OfKind, Writing, Unsaved, Has
    <2> QED BY <2>2, <2>3, <2>4 DEF Has, Ready, e
  <1> QED BY <1>1, <1>2

LEMMA PrefetchedStored ==
    ASSUME NEW r \in Block, Stored(r)
    PROVE  LET s == wait_for_prefetched_block(r)
           IN  /\ Stored(s) /\ s \in Block /\ s.state = r.state
               /\ s.w = IF r.w = "fetch" THEN "none" ELSE r.w
               /\ s.flags = r.flags \ {"PREFETCHED"}
  <1> DEFINE d == wait_read_async(r)
             s == Clear(d, {"PREFETCHED"})
  <1>1. /\ Stored(d) /\ d \in Block
        /\ d.flags = r.flags /\ d.done = r.done /\ d.state = r.state
        /\ d.w = IF r.w = "fetch" THEN "none" ELSE r.w
    BY WaitStored
  <1>2. wait_for_prefetched_block(r) = s
    BY DEF wait_for_prefetched_block
  <1> HIDE DEF d
  <1>3. Steady(d, s) /\ s \in Block
    BY <1>1, MarkSteady DEF Marks
  <1>4. s.w = d.w /\ s.state = d.state /\ s.flags = d.flags \ {"PREFETCHED"}
    BY <1>1 DEF Clear, Block
  <1>5. Stored(s)
    BY <1>1, <1>3, SteadyStored
  <1> HIDE DEF s
  <1> QED BY <1>1, <1>2, <1>3, <1>4, <1>5

LEMMA ClearStored ==
    ASSUME NEW r \in Block, Stored(r), Ready(r), r.state # "INIT"
    PROVE  LET s == clear_block_w(r)
           IN  Stored(s) /\ s \in Block /\ s.state = r.state
  <1> DEFINE e == check_eager_wbr(r)
             p == wait_for_prefetched_block(e)
  <1>1. Stored(e) /\ e \in Block /\ e.state = r.state
    BY EagerStored
  <1>2. clear_block_w(r) \in {e, p}
    BY DEF clear_block_w
  <1> HIDE DEF e
  <1>3. Stored(p) /\ p \in Block /\ p.state = e.state
    BY <1>1, PrefetchedStored
  <1> HIDE DEF p
  <1> QED BY <1>1, <1>2, <1>3

(* What is left of any block, waited for or not.                           *)
LEMMA ClearLeaves ==
    ASSUME NEW r, Sane(r), OfKind(r)
    PROVE  LET s == clear_block_w(r)
           IN  /\ s \in Block /\ s.state = r.state
               /\ ~Has(s, "EAGER_WBR") /\ s.w # "eager"
               /\ s.w = "writeback" => r.w = "writeback"
  <1> DEFINE s == clear_block_w(r)
             e == check_eager_wbr(r)
  <1>1. Drained(r, s)
    BY ClearDrains
  <1>2. Drained(r, e) /\ ~Has(e, "EAGER_WBR") /\ e.w # "eager"
    <2>1. Drained(r, e)
      BY EagerDrains
    <2>2. CASE ~Has(r, "EAGER_WBR")
      BY <2>1, <2>2 DEF check_eager_wbr, OfKind
    <2>3. CASE Has(r, "EAGER_WBR")
      <3>1. e = [r EXCEPT !.w = "none", !.flags = @ \ {"EAGER_WBR", "DIRTY"}]
        BY <2>3 DEF check_eager_wbr, Clear, Block, Sane
      <3>2. e.w = "none" /\ e.flags = r.flags \ {"EAGER_WBR", "DIRTY"}
        BY <3>1 DEF Block, Sane
      <3> QED BY <2>1, <3>2 DEF Has
    <2> QED BY <2>2, <2>3
  <1>3. Sane(e)
    BY <1>2, DrainedSane DEF Becomes
  <1>4. Drained(e, s)
    <2>1. CASE Has(e, "PREFETCHED")
      <3>1. Drained(e, wait_for_prefetched_block(e))
        BY <1>3, PrefetchedDrains
      <3> QED BY <2>1, <3>1 DEF clear_block_w
    <2>2. CASE ~Has(e, "PREFETCHED")
      BY <1>3, <2>2 DEF clear_block_w, Drained, Sane
    <2> QED BY <2>1, <2>2
  <1> HIDE DEF s, e
  <1>5. /\ s \in Block /\ s.state = r.state
        /\ ~Has(s, "EAGER_WBR") /\ s.w # "eager"
        /\ s.w = "writeback" => r.w = "writeback"
    BY <1>1, <1>2, <1>4 DEF Drained, Has
  <1> QED BY <1>5 DEF s

-----------------------------------------------------------------------------
(* A block comes into the cache, and leaves it.                            *)
LEMMA FetchStored ==
    ASSUME NEW r, Sane(r), Stored(r), r.state = "INIT", NEW op, NEW target
    PROVE  Stored(add_gpas_to_active_list(FetchedBlock(r, op), target))
  <1> DEFINE g == [Set(r, {"TOUCHED"}) EXCEPT !.page = TRUE,
                      !.w = IF Has(r, "TOUCHED") THEN "fetch" ELSE "none",
                      !.done = ~Has(r, "TOUCHED")]
             f == FetchedBlock(r, op)
             l == ActiveTarget(f, target)
             s == add_gpas_to_active_list(f, target)
  <1>1. g \in Block /\ g.w \in {"fetch", "none"} /\ g.remote = r.remote
        /\ g.flags = r.flags \cup {"TOUCHED"}
    BY DEF Sane, Block, Set, Requests, Flags
  <1>2. f \in {g, Set(g, {"PREFETCHED", "HPT"}), Set(g, {"PREFETCHED", "PROMOTE"})}
    BY DEF FetchedBlock
  <1>3. s = [f EXCEPT !.state = "ACTIVE", !.list = l,
                      !.flags = IF l = "active" THEN @ ELSE @ \cup {"PROACTIVE"}]
    BY DEF add_gpas_to_active_list
  <1> HIDE DEF f, g, l, s
  <1>4. /\ f \in Block /\ f.w \in {"fetch", "none"} /\ f.remote = r.remote
        /\ f.flags \subseteq r.flags \cup {"TOUCHED", "PREFETCHED", "HPT", "PROMOTE"}
    BY <1>1, <1>2 DEF Block, Set, Flags
  <1>5. /\ s.state = "ACTIVE" /\ s.w \in {"fetch", "none"} /\ s.remote = r.remote
        /\ s.flags \subseteq f.flags \cup {"PROACTIVE"}
    BY <1>3, <1>4 DEF Block
  <1>6. r.remote # "stale" /\ ~Has(r, "EAGER_WBR")
    BY DEF Stored, OfKind
  <1>7. Stored(s)
    BY <1>4, <1>5, <1>6 DEF Stored, OfKind, Writing, Unsaved, Has
  <1> QED BY <1>7 DEF s, f

LEMMA ReleaseStored ==
    ASSUME NEW r \in Block, r.remote = "fresh"
    PROVE  Stored(set_gpa_remote(r))
  <1> DEFINE s == set_gpa_remote(r)
  <1>1. /\ s.state = "INIT" /\ s.w = "none" /\ s.remote = "fresh"
        /\ s.flags = r.flags \cap KeepFlags
    BY DEF set_gpa_remote, Block
  <1> HIDE DEF s
  <1>2. Stored(s)
    BY <1>1 DEF Stored, OfKind, Writing, Unsaved, Has, KeepFlags
  <1> QED BY <1>2 DEF s

(* What evict_block() leaves of a block whose write it could not post.     *)
LEMMA EvictErrorStored ==
    ASSUME ~MayDrop, NEW r, Sane(r), OfKind(r), r.state \in Local,
           NEW e \in evict_block_errors(r)
    PROVE  Stored(Unlock(e))
  <1> DEFINE c == clear_block_w(r)
             s == Unlock(e)
  <1>1. /\ c \in Block /\ c.state = r.state /\ ~Has(c, "EAGER_WBR") /\ c.w # "eager"
        /\ c.w = "writeback" => r.w = "writeback"
    BY ClearLeaves
  <1>2. PICK m \in {"none", "stale", "fresh"} : e = [c EXCEPT !.remote = m]
    <2>1. c.remote \in {"none", "stale", "fresh"} /\ c = [c EXCEPT !.remote = c.remote]
      BY <1>1 DEF Block
    <2>2. PICK n \in {"none", "stale", "fresh"} :
            e = c \/ e = free_remote_page([c EXCEPT !.remote = n])
      BY <2>1 DEF evict_block_errors
    <2> HIDE DEF c
    <2>3. free_remote_page([c EXCEPT !.remote = n])
            \in {[c EXCEPT !.remote = n], [c EXCEPT !.remote = "none"]}
      BY <1>1 DEF free_remote_page, Block
    <2> QED BY <2>1, <2>2, <2>3
  <1> HIDE DEF c, s
  <1>3. s.state = r.state /\ s.flags = c.flags /\ s.w = c.w
    BY <1>1, <1>2 DEF Unlock, Block, s
  <1>4. r.w # "writeback"
    BY DEF OfKind, Local
  <1>5. Stored(s)
    BY <1>1, <1>3, <1>4 DEF Stored, OfKind, Writing, Has, Local
  <1> QED BY <1>5 DEF s

(* A write is posted: the remote copy is out of date until it is done.     *)
LEMMA EagerEvictStored ==
    ASSUME NEW r, Sane(r), OfKind(r), r.state = "INACTIVE"
    PROVE  Stored(Unlock(eager_evict(r)))
  <1> DEFINE c == clear_block_w(r)
             s == Unlock(eager_evict(r))
  <1>1. c \in Block /\ c.state = "INACTIVE"
    BY ClearLeaves
  <1>2. s = Unlock(Set([c EXCEPT !.w = "eager", !.done = FALSE, !.remote = "stale"],
                       {"EAGER_WBR"}))
    BY DEF eager_evict, post_writeback
  <1> HIDE DEF c, s
  <1>3. /\ s.state = "INACTIVE" /\ s.flags = c.flags \cup {"EAGER_WBR"}
        /\ s.w = "eager" /\ ~s.done
    BY <1>1, <1>2 DEF Unlock, Set, Block
  <1>4. Stored(s)
    BY <1>1, <1>3 DEF Stored, OfKind, Writing, Unsaved, Has
  <1> QED BY <1>4 DEF s

LEMMA WritebackStored ==
    ASSUME NEW r, Sane(r), OfKind(r)
    PROVE  Stored(Unlock(writeback_evict(r)))
  <1> DEFINE c == clear_block_w(r)
             s == Unlock(writeback_evict(r))
  <1>1. c \in Block /\ ~Has(c, "EAGER_WBR")
    BY ClearLeaves
  <1>2. s = Unlock([[c EXCEPT !.w = "writeback", !.done = FALSE, !.remote = "stale"]
                        EXCEPT !.state = "WB", !.list = "writeback"])
    BY DEF writeback_evict, post_writeback
  <1> HIDE DEF c, s
  <1>3. s.state = "WB" /\ s.flags = c.flags /\ s.w = "writeback" /\ ~s.done
    BY <1>1, <1>2 DEF Unlock, Block
  <1>4. Stored(s)
    BY <1>1, <1>3 DEF Stored, OfKind, Writing, Unsaved, Has
  <1> QED BY <1>4 DEF s

(* emp_writeback_block() decides about a block that nothing is going on    *)
(* with: when it need not write, the remote copy is the latest.            *)
LEMMA CleanIsFresh ==
    ASSUME NEW r, Sane(r), Stored(r), Ready(r), r.state = "TRANS_IL",
           ~check_need_writeback(check_eager_wbr(r))
    PROVE  check_eager_wbr(r).remote = "fresh" /\ check_eager_wbr(r) \in Block
  <1> DEFINE e == check_eager_wbr(r)
  <1>1. /\ Stored(e) /\ e \in Block /\ e.state = r.state /\ Ready(e)
        /\ e.w = IF r.w = "eager" THEN "none" ELSE r.w
    BY EagerStored DEF Sane
  <1>2. e.remote # "none" /\ ~Has(e, "DIRTY")
    BY DEF check_need_writeback
  <1>3. Drained(r, e)
    BY EagerDrains
  <1> HIDE DEF e
  <1>4. ~e.mapped
    BY <1>3 DEF Drained, Sane, Literal
  <1>5. Writing(e) => e.done
    BY <1>1 DEF Ready, Writing
  <1>6. MayDrop
    BY DEF check_need_writeback, MayDrop
  <1> QED BY <1>1, <1>2, <1>4, <1>5, <1>6 DEF Stored, Unsaved, Block, e

LEMMA NeedCheckOfKind ==
    ASSUME NEW r, Sane(r), Stored(r), Ready(r), r.state = "TRANS_IL"
    PROVE  LET e == AfterNeedCheck(check_eager_wbr(r))
           IN  Sane(e) /\ OfKind(e) /\ e.state = "TRANS_IL"
  <1> DEFINE e == check_eager_wbr(r)
             a == AfterNeedCheck(e)
  <1>1. Sane(e) /\ Sane(a) /\ Drained(r, a)
    BY NeedCheckSane
  <1>2. Stored(e)
    BY EagerStored DEF Sane
  <1>3. a \in {e, Clear(e, {"DIRTY"})}
    BY DEF AfterNeedCheck
  <1> HIDE DEF e, a
  <1>4. OfKind(Clear(e, {"DIRTY"}))
    BY <1>1, <1>2 DEF Stored, OfKind, Clear, Sane, Block, Has
  <1>5. OfKind(a)
    BY <1>2, <1>3, <1>4 DEF Stored
  <1>6. a.state = "TRANS_IL"
    BY <1>1 DEF Drained
  <1> QED BY <1>1, <1>5, <1>6 DEF a, e

(* Off the page tables: a dirty mapping becomes a dirty flag.              *)
LEMMA UnmapSteady ==
    ASSUME NEW d, Sane(d)
    PROVE  Steady(d, unmap_gpas(d)) /\ unmap_gpas(d) \in Block
  <1> DEFINE g == unmap_gpas(d)
  <1>1. CASE ~Has(d, "HPT")
    BY <1>1, SteadySelf DEF unmap_gpas, Sane
  <1>2. CASE Has(d, "HPT")
    <2>1. PICK F \in {{}, {"DIRTY"}} :
            /\ g = [Clear(d, {"HPT"}) EXCEPT !.mapped = FALSE, !.pteDirty = FALSE,
                                             !.flags = @ \cup F]
            /\ d.mapped /\ d.pteDirty => F = {"DIRTY"}
      <3>1. CASE d.mapped /\ d.pteDirty
        BY <1>2, <3>1 DEF unmap_gpas, Clear, Block, Sane
      <3>2. CASE ~(d.mapped /\ d.pteDirty)
        BY <1>2, <3>2 DEF unmap_gpas, Clear, Block, Sane
      <3> QED BY <3>1, <3>2
    <2>2. PICK c \in Block : c = Clear(d, {"HPT"})
      BY DEF Clear, Block, Sane
    <2>3. /\ c.w = d.w /\ c.done = d.done /\ c.remote = d.remote /\ c.state = d.state
          /\ c.flags = d.flags \ {"HPT"}
      BY <2>2 DEF Clear, Block, Sane
    <2>4. g = [c EXCEPT !.mapped = FALSE, !.pteDirty = FALSE, !.flags = @ \cup F]
      BY <2>1, <2>2
    <2> HIDE DEF g
    <2>5. /\ g.w = c.w /\ g.done = c.done /\ g.remote = c.remote /\ g.state = c.state
          /\ g.flags = c.flags \cup F
      BY <2>4 DEF Block
    <2>6. g \in Block
      <3>1. PICK G \in SUBSET Flags : G = c.flags \cup F
        BY <2>1 DEF Block, Flags
      <3>2. g = [c EXCEPT !.mapped = FALSE, !.pteDirty = FALSE, !.flags = G]
        BY <2>4, <3>1
      <3> QED BY <3>2 DEF Block
    <2>7. Steady(d, g)
      BY <2>1, <2>3, <2>5 DEF Steady, Has
    <2> QED BY <2>6, <2>7 DEF g
  <1> QED BY <1>1, <1>2

LEMMA UnmapStored ==
    ASSUME NEW r, Sane(r), Stored(r), r.state = "TRANS_AL"
    PROVE  Stored(Unmapped(r))
  <1> DEFINE d == IF Has(r, "PREFETCHED") THEN wait_for_prefetched_block(r) ELSE r
             g == unmap_gpas(d)
             u == add_gpas_to_inactive(g)
  <1>1. Stored(d) /\ Sane(d) /\ d.state = "TRANS_AL"
    <2>1. CASE Has(r, "PREFETCHED")
      <3>1. Sane(wait_for_prefetched_block(r))
        BY PrefetchedDrains, DrainedSane DEF Becomes
      <3>2. /\ Stored(wait_for_prefetched_block(r))
            /\ wait_for_prefetched_block(r).state = r.state
        BY PrefetchedStored DEF Sane
      <3> QED BY <2>1, <3>1, <3>2
    <2>2. CASE ~Has(r, "PREFETCHED")
      BY <2>2
    <2> QED BY <2>1, <2>2
  <1>2. u = Unmapped(r)
    BY DEF Unmapped
  <1> HIDE DEF d
  <1>3. Steady(d, g) /\ g \in Block
    BY <1>1, UnmapSteady
  <1>4. Stored(g) /\ g.state \in Local
    <2>1. Stored(g)
      BY <1>1, <1>3, SteadyStored
    <2> QED BY <1>1, <1>3, <2>1 DEF Steady, Local, States
  <1> HIDE DEF g
  <1>5. Steady(g, u)
    BY <1>3, <1>4 DEF Steady, add_gpas_to_inactive, Block, Has, Local, States
  <1> HIDE DEF u
  <1>6. Stored(u)
    BY <1>4, <1>5, SteadyStored
  <1> QED BY <1>2, <1>6

LEMMA WriteStored ==
    ASSUME NEW r, Sane(r), Stored(r), r.mapped
    PROVE  Stored([r EXCEPT !.pteDirty = TRUE,
                            !.remote = IF @ = "fresh" THEN "stale" ELSE @])
  <1> DEFINE s == [r EXCEPT !.pteDirty = TRUE,
                            !.remote = IF @ = "fresh" THEN "stale" ELSE @]
  <1>1. /\ s.state = r.state /\ s.w = r.w /\ s.flags = r.flags /\ s.mapped /\ s.pteDirty
    BY DEF Sane, Block
  <1>2. r.w = "none" /\ r.state # "INIT"
    BY DEF Sane, Literal
  <1> HIDE DEF s
  <1>3. Stored(s)
    BY <1>1, <1>2 DEF Stored, OfKind, Writing, Unsaved, Has
  <1> QED BY <1>3 DEF s

LEMMA CompleteStored ==
    ASSUME NEW r, Sane(r), Stored(r), ~r.done
    PROVE  Stored([r EXCEPT !.done = TRUE,
                            !.remote = IF r.w = "fetch" THEN @ ELSE "fresh"])
  <1> DEFINE s == [r EXCEPT !.done = TRUE,
                            !.remote = IF r.w = "fetch" THEN @ ELSE "fresh"]
  <1>1. /\ s.state = r.state /\ s.w = r.w /\ s.flags = r.flags /\ s.done
        /\ s.mapped = r.mapped /\ s.pteDirty = r.pteDirty
        /\ s.remote = IF r.w = "fetch" THEN r.remote ELSE "fresh"
    BY DEF Sane, Block
  <1> HIDE DEF s
  <1>2. Stored(s)
    BY <1>1 DEF Stored, OfKind, Writing, Unsaved, Has
  <1> QED BY <1>2 DEF s

-----------------------------------------------------------------------------
(* Steps.                                                                  *)
LEMMA StoredFacts ==
    ASSUME IInv, AllStored
    PROVE  \A b \in Blocks : Sane(blk[b]) /\ Stored(blk[b]) /\ blk[b] \in Block
  BY BlocksSane DEF AllStored, Sane

LEMMA SomeStored ==
    ASSUME AllStored, \A b \in Blocks : blk'[b] = blk[b] \/ Stored(blk'[b])
    PROVE  AllStored'
  BY DEF AllStored

LEMMA OneStored ==
    ASSUME IInv, AllStored, NEW b \in Blocks, NEW s, Stored(s), blk' = [blk EXCEPT ![b] = s]
    PROVE  AllStored'
  <1>1. \A a \in Blocks : blk'[a] = blk[a] \/ Stored(blk'[a])
    BY DEF IInv, TypeOK
  <1> QED BY <1>1, SomeStored

LEMMA SameStored ==
    ASSUME AllStored, UNCHANGED blk
    PROVE  AllStored'
  BY DEF AllStored

LEMMA LockStored ==
    ASSUME NEW r, Sane(r), Stored(r), NEW t
    PROVE  Stored(Lock(r, t)) /\ Stored(Unlock(r)) /\ Stored(map(r)) /\ Stored(Unlock(map(r)))
  <1>1. Steady(r, Lock(r, t)) /\ Steady(r, Unlock(r)) /\ Steady(r, map(r))
    BY LockSteady DEF Sane
  <1>2. map(r) \in Block
    BY DEF map, Sane, Block
  <1>3. Steady(map(r), Unlock(map(r)))
    BY <1>2, LockSteady
  <1> QED BY <1>1, <1>3, SteadyStored

LEMMA FaultLockStored ==
    ASSUME IInv, AllStored, NEW t \in Threads, NEW b \in Blocks, NEW op, FaultLock(t, b, op)
    PROVE  AllStored'
  <1>1. Stored(Lock(blk[b], t))
    BY StoredFacts, LockStored
  <1>2. blk' = [blk EXCEPT ![b] = Lock(blk[b], t)]
    BY DEF FaultLock
  <1> QED BY <1>1, <1>2, OneStored

LEMMA FaultActiveStored ==
    ASSUME IInv, AllStored, NEW t \in Threads, NEW b \in Blocks, FaultActive(t, b)
    PROVE  AllStored'
  <1> DEFINE r == blk[b]
             c == clear_block_w(r)
  <1>1. Sane(r) /\ Stored(r) /\ r \in Block /\ r.state = "ACTIVE"
    BY StoredFacts DEF FaultActive
  <1>2. \/ UNCHANGED blk
        \/ \E s \in {Unlock(map(r)), r} : blk' = [blk EXCEPT ![b] = s]
        \/ Ready(r) /\ \E s \in {Unlock(map(c)), c} : blk' = [blk EXCEPT ![b] = s]
    BY DEF FaultActive, Panic
  <1>3. Ready(r) => Stored(c) /\ Stored(Unlock(map(c)))
    <2>1. SUFFICES ASSUME Ready(r) PROVE Stored(c) /\ Stored(Unlock(map(c)))
      OBVIOUS
    <2>2. Stored(c) /\ c \in Block
      BY <1>1, <2>1, ClearStored
    <2>3. Sane(c)
      BY <1>1, ClearDrains, DrainedSane DEF Becomes
    <2> HIDE DEF c
    <2> QED BY <2>2, <2>3, LockStored
  <1> HIDE DEF c
  <1>4. Stored(Unlock(map(r)))
    BY <1>1, LockStored
  <1> QED BY <1>1, <1>2, <1>3, <1>4, SameStored, OneStored

LEMMA FaultInactiveStored ==
    ASSUME IInv, AllStored, NEW t \in Threads, NEW b \in Blocks, FaultInactive(t, b)
    PROVE  AllStored'
  <1> DEFINE r == blk[b]
             c == clear_block_w(r)
             s == add_gpas_to_active_list(c, "proactive")
  <1>1. Stored(r) /\ r \in Block /\ r.state = "INACTIVE" /\ Ready(r)
    BY StoredFacts DEF FaultInactive
  <1>2. Stored(c) /\ c \in Block /\ c.state = "INACTIVE"
    BY <1>1, ClearStored
  <1>3. blk' = [blk EXCEPT ![b] = s]
    BY DEF FaultInactive
  <1> HIDE DEF c
  <1>4. Steady(c, s)
    BY <1>2, ActivateSteady DEF Local, States
  <1> HIDE DEF s
  <1> QED BY <1>2, <1>3, <1>4, SteadyStored, OneStored

LEMMA FaultWritebackStored ==
    ASSUME IInv, AllStored, NEW t \in Threads, NEW b \in Blocks, FaultWriteback(t, b)
    PROVE  AllStored'
  <1> DEFINE r == blk[b]
             c == free_remote_page(clear_writeback_block(r))
             s == add_gpas_to_active_list(c, "proactive")
  <1>1. Stored(r) /\ r \in Block /\ r.state = "WB" /\ Ready(r)
    BY StoredFacts DEF FaultWriteback
  <1>2. blk' = [blk EXCEPT ![b] = s]
    BY DEF FaultWriteback
  <1>3. r.remote = "fresh" /\ ~Has(r, "EAGER_WBR")
    BY <1>1 DEF Stored, OfKind, Writing, Ready
  <1>4. /\ c.flags = r.flags /\ c.w = "none" /\ c.remote \in {"fresh", "none"} /\ c \in Block
    BY <1>1, <1>3 DEF free_remote_page, clear_writeback_block, Block, Lists, Requests
  <1> HIDE DEF c
  <1>5. PICK l : l = ActiveTarget(c, "proactive")
    OBVIOUS
  <1>6. s = [c EXCEPT !.state = "ACTIVE", !.list = l,
                      !.flags = IF l = "active" THEN @ ELSE @ \cup {"PROACTIVE"}]
    BY <1>5 DEF add_gpas_to_active_list
  <1> HIDE DEF s
  <1>7. /\ s.state = "ACTIVE" /\ s.w = "none" /\ s.remote \in {"fresh", "none"}
        /\ s.flags \subseteq c.flags \cup {"PROACTIVE"}
    BY <1>4, <1>6 DEF Block
  <1>8. Stored(s)
    BY <1>3, <1>4, <1>7 DEF Stored, OfKind, Writing, Unsaved, Has
  <1> QED BY <1>2, <1>8, OneStored

LEMMA FetchBlockStored ==
    ASSUME IInv, AllStored, NEW t \in Threads, NEW b \in Blocks, Fetch(t, b)
    PROVE  AllStored'
  <1>1. blk[b].state = "INIT"
    BY DEF Fetch, At, IInv, ThreadOK, Serving, Pipeline
  <1>2. PICK target : blk' = [blk EXCEPT ![b] =
            add_gpas_to_active_list(FetchedBlock(blk[b], th[t].op), target)]
    BY DEF Fetch
  <1>3. Stored(add_gpas_to_active_list(FetchedBlock(blk[b], th[t].op), target))
    BY <1>1, StoredFacts, FetchStored
  <1> QED BY <1>2, <1>3, OneStored

LEMMA MapBlockStored ==
    ASSUME IInv, AllStored, NEW t \in Threads, NEW b \in Blocks, MapBlock(t, b)
    PROVE  AllStored'
  <1> DEFINE r == blk[b]
             d == wait_read_async(r)
             F == {"HPT"} \cup IF th[t].op = "write" THEN {"DIRTY"} ELSE {}
             m == Set(d, F)
             s == Unlock(map(m))
  <1>1. Sane(r) /\ Stored(r) /\ r \in Block
    BY StoredFacts
  <1>2. UNCHANGED blk \/ blk' = [blk EXCEPT ![b] = s]
    BY DEF MapBlock, Panic
  <1>3. Stored(d) /\ d \in Block
    BY <1>1, WaitStored
  <1>4. F \in {{"HPT"}, {"HPT"} \cup {"DIRTY"}}
    OBVIOUS
  <1> HIDE DEF d, F
  <1>5. Steady(d, Set(d, {"HPT"})) /\ Steady(d, Set(d, {"HPT"} \cup {"DIRTY"}))
    BY <1>3, MarkSteady DEF Marks
  <1>6. Steady(d, m)
    BY <1>4, <1>5
  <1>7. m \in Block
    BY <1>3, <1>4 DEF Set, Block, Flags
  <1> HIDE DEF m
  <1>8. Steady(m, map(m)) /\ map(m) \in Block
    BY <1>7, LockSteady DEF map, Block
  <1>9. Steady(map(m), s)
    BY <1>8, LockSteady
  <1> HIDE DEF s
  <1>10. Stored(s)
    BY <1>3, <1>6, <1>8, <1>9, SteadyStored
  <1> QED BY <1>2, <1>10, SameStored, OneStored

LEMMA UnlockBlocksStored ==
    ASSUME IInv, AllStored, NEW t \in Threads, Finish(t) \/ Fail(t)
    PROVE  AllStored'
  <1>1. ASSUME NEW b \in Blocks PROVE blk'[b] = blk[b] \/ Stored(blk'[b])
    <2> DEFINE r == blk[b]
               c == ClearInFlight(r)
    <2>1. blk'[b] \in {r, Unlock(r), Unlock(c)}
      BY DEF Finish, Fail
    <2>2. Sane(r) /\ Stored(r) /\ r \in Block
      BY StoredFacts
    <2>3. Stored(Unlock(c))
      <3>1. CASE r.w # "fetch"
        BY <2>2, <3>1, LockStored DEF ClearInFlight
      <3>2. CASE r.w = "fetch"
        <4>1. c \in {[r EXCEPT !.w = "freed"], [r EXCEPT !.w = "freed", !.remote = "none"]}
          BY <2>2, <3>2 DEF ClearInFlight, free_remote_page, Block
        <4> DEFINE s == Unlock(c)
        <4>2. /\ s.flags = r.flags /\ s.done = r.done /\ s.state = r.state
              /\ s.w = "freed" /\ s.mapped = r.mapped /\ s.pteDirty = r.pteDirty
              /\ s.remote \in {r.remote, "none"}
          BY <2>2, <4>1 DEF Block, Requests, Unlock
        <4> HIDE DEF s
        <4>3. Stored(s)
          BY <2>2, <3>2, <4>2 DEF Stored, OfKind, Writing, Unsaved, Has
        <4> QED BY <4>3 DEF s
      <3> QED BY <3>1, <3>2
    <2>4. Stored(Unlock(r))
      BY <2>2, LockStored
    <2> QED BY <2>1, <2>3, <2>4
  <1> QED BY <1>1, SomeStored

LEMMA ReapStored ==
    ASSUME IInv, AllStored, NEW t \in Threads, NEW b \in Blocks,
           ReapAhead(t, b) \/ ReapForPage(t, b)
    PROVE  AllStored'
  <1>1. blk' = [blk EXCEPT ![b] = Take(blk[b], t, "WB")] /\ blk[b].list = "writeback"
    BY DEF ReapAhead, ReapForPage, Reap, Unlocked
  <1>2. Stored(blk[b]) /\ blk[b] \in Block /\ blk[b].state = "WB"
    BY <1>1, StoredFacts DEF Sane, Literal
  <1>3. Steady(blk[b], Take(blk[b], t, "WB"))
    BY <1>2, TakeSteady
  <1> QED BY <1>1, <1>2, <1>3, SteadyStored, OneStored

LEMMA ReapDoneStored ==
    ASSUME IInv, AllStored, NEW t \in Threads, ReapDone(t)
    PROVE  AllStored'
  <1>1. ASSUME NEW b \in Blocks PROVE blk'[b] = blk[b] \/ Stored(blk'[b])
    <2>1. CASE b \notin th[t].vs
      BY <2>1 DEF ReapDone, Update
    <2>2. CASE b \in th[t].vs
      <3>1. blk'[b] = set_gpa_remote(blk[b]) /\ Ready(blk[b])
        BY <2>2 DEF ReapDone, Update
      <3>2. blk[b].state = "WB"
        BY <2>2 DEF ReapDone, At, IInv, ThreadOK, VictimOf
      <3>3. blk[b].remote = "fresh" /\ blk[b] \in Block
        BY <3>1, <3>2, StoredFacts DEF Stored, OfKind, Writing, Ready
      <3> QED BY <3>1, <3>3, ReleaseStored
    <2> QED BY <2>1, <2>2
  <1> QED BY <1>1, SomeStored

LEMMA UpdateProactiveStored ==
    ASSUME IInv, AllStored, NEW t \in Threads, UpdateProactive(t)
    PROVE  AllStored'
  <1> DEFINE S == Unlocked("proactive")
             pinned == Flagged(S, "PINNED")
  <1>1. PICK V \in Selection(S, pinned) :
           Update(V, LAMBDA b : IF b \in pinned THEN Lift(blk[b], t)
                                ELSE Clear(Take(blk[b], t, "TRANS_PL"), {"PROACTIVE"}))
    BY DEF UpdateProactive
  <1>2. ASSUME NEW b \in Blocks PROVE blk'[b] = blk[b] \/ Stored(blk'[b])
    <2> DEFINE r == blk[b]
               k == Take(r, t, "TRANS_PL")
    <2>1. CASE b \notin V
      BY <1>1, <2>1 DEF Update
    <2>2. CASE b \in V
      <3>1. blk'[b] \in {Lift(r, t), Clear(k, {"PROACTIVE"})}
        BY <1>1, <2>2 DEF Update
      <3>2. Stored(r) /\ r \in Block /\ r.state = "ACTIVE"
        BY <1>1, <2>2, StoredFacts DEF Selection, Unlocked, Sane, Literal
      <3>3. Steady(r, k) /\ k \in Block
        BY <3>2, TakeSteady, LifecycleAssumption DEF Local, States, Take, Block, Lists
      <3>4. Steady(k, Clear(k, {"PROACTIVE"}))
        BY <3>3, MarkSteady DEF Marks
      <3>5. Steady(r, Lift(r, t))
        BY <3>2, LiftSteady
      <3> HIDE DEF k
      <3> QED BY <3>1, <3>2, <3>3, <3>4, <3>5, SteadyStored
    <2> QED BY <2>1, <2>2
  <1> QED BY <1>2, SomeStored

LEMMA UnpinVictimsStored ==
    ASSUME IInv, AllStored, NEW t \in Threads, UnpinVictims(t)
    PROVE  AllStored'
  <1>1. ASSUME NEW b \in Blocks PROVE blk'[b] = blk[b] \/ Stored(blk'[b])
    <2>1. blk'[b] = blk[b] \/ blk'[b] = Clear(Lift(blk[b], t), {"PINNED"})
      BY DEF UnpinVictims, Update
    <2>2. Stored(blk[b]) /\ blk[b] \in Block
      BY StoredFacts
    <2>3. Steady(blk[b], Clear(Lift(blk[b], t), {"PINNED"}))
      BY <2>2, LiftSteady
    <2> QED BY <2>1, <2>2, <2>3, SteadyStored
  <1> QED BY <1>1, SomeStored

(* Blocks of a scan that a thread puts where they belong.                  *)
LEMMA MoveToPinStored ==
    ASSUME IInv, AllStored, NEW t \in Threads, MoveToPin(t)
    PROVE  AllStored'
  <1>1. ASSUME NEW b \in Blocks PROVE blk'[b] = blk[b] \/ Stored(blk'[b])
    <2>1. CASE b \notin th[t].up
      BY <2>1 DEF MoveToPin, Update, Flagged
    <2>2. CASE b \in th[t].up
      <3>1. PICK s \in {move_to_pin_list(blk[b], TRUE), move_to_pin_list(blk[b], FALSE)} :
               blk'[b] \in {blk[b], Unlock(s)}
        BY <2>2 DEF MoveToPin, Update
      <3>2. Sane(blk[b]) /\ Stored(blk[b]) /\ blk[b] \in Block /\ blk[b].state \in Local
        BY <2>2, StoredFacts DEF IInv, ThreadOK, Local, States
      <3>3. Steady(blk[b], s)
        BY <3>1, <3>2, PinSteady
      <3>4. s \in Block
        BY <3>1, <3>2, PinType
      <3> QED BY <3>1, <3>2, <3>3, <3>4, LockSteady, SteadyStored
    <2> QED BY <2>1, <2>2
  <1> QED BY <1>1, SomeStored

LEMMA PromoteStored ==
    ASSUME IInv, AllStored, NEW t \in Threads, Promote(t)
    PROVE  AllStored'
  <1>1. ASSUME NEW b \in Blocks PROVE blk'[b] = blk[b] \/ Stored(blk'[b])
    <2> DEFINE e == check_eager_wbr(blk[b])
    <2>1. CASE b \notin th[t].up
      BY <2>1 DEF Promote, Update
    <2>2. CASE b \in th[t].up
      <3>1. /\ Sane(blk[b]) /\ Stored(blk[b]) /\ blk[b] \in Block
            /\ blk[b].state \in {"ACTIVE", "INACTIVE"}
        BY <2>2, StoredFacts DEF IInv, ThreadOK
      <3>2. ASSUME NEW c \in Block, Stored(c), c.state \in {"ACTIVE", "INACTIVE"},
                   NEW m \in BOOLEAN
            PROVE  Stored(Unlock(promote_gpas(c, m)))
        <4>1. Steady(c, promote_gpas(c, m)) /\ promote_gpas(c, m) \in Block
          BY <3>2, PromoteSteady, PromoteType DEF Local, States
        <4> QED BY <3>2, <4>1, LockSteady, SteadyStored
      <3>3. CASE blk[b].state = "ACTIVE"
        <4>1. blk'[b] = Unlock(promote_gpas(blk[b], TRUE))
          BY <2>2, <3>3 DEF Promote, Update
        <4> QED BY <3>1, <3>2, <4>1
      <3>4. CASE blk[b].state = "INACTIVE"
        <4>1. /\ blk'[b] = Unlock(promote_gpas(e, FALSE))
              /\ Has(blk[b], "EAGER_WBR") => Ready(blk[b])
          BY <2>2, <3>4 DEF Promote, Update, Flagged
        <4>2. Stored(e) /\ e \in Block /\ e.state = "INACTIVE"
          <5>1. CASE Has(blk[b], "EAGER_WBR")
            BY <3>1, <3>4, <4>1, <5>1, EagerStored
          <5>2. CASE ~Has(blk[b], "EAGER_WBR")
            BY <3>1, <3>4, <5>2 DEF check_eager_wbr
          <5> QED BY <5>1, <5>2
        <4> HIDE DEF e
        <4> QED BY <3>2, <4>1, <4>2
      <3> QED BY <3>1, <3>3, <3>4
    <2> QED BY <2>1, <2>2
  <1> QED BY <1>1, SomeStored

LEMMA DemoteStored ==
    ASSUME IInv, AllStored, NEW t \in Threads, Demote(t)
    PROVE  AllStored'
  <1>1. ASSUME NEW b \in Blocks PROVE blk'[b] = blk[b] \/ Stored(blk'[b])
    <2> DEFINE a == add_gpas_to_active_list(blk[b], "active")
    <2>1. CASE b \notin th[t].vs
      BY <2>1 DEF Demote, Update
    <2>2. CASE b \in th[t].vs
      <3>1. blk'[b] = a
        BY <2>2 DEF Demote, Update
      <3>2. Sane(blk[b]) /\ Stored(blk[b]) /\ blk[b] \in Block /\ blk[b].state = "TRANS_PL"
        BY <2>2, StoredFacts DEF Demote, At, IInv, ThreadOK, VictimOf
      <3>3. Steady(blk[b], a)
        BY <3>2, ActivateSteady DEF Local, States
      <3> HIDE DEF a
      <3> QED BY <3>1, <3>2, <3>3, SteadyStored
    <2> QED BY <2>1, <2>2
  <1> QED BY <1>1, SomeStored

LEMMA DemotedStored ==
    ASSUME IInv, AllStored, NEW t \in Threads, Demoted(t) \/ Release(t)
    PROVE  AllStored'
  <1>1. \A b \in Blocks : blk'[b] = blk[b] \/ blk'[b] = Unlock(blk[b])
    BY DEF Demoted, Release, Update
  <1> QED BY <1>1, StoredFacts, LockStored, SomeStored

LEMMA UpdateActiveStored ==
    ASSUME IInv, AllStored, NEW t \in Threads, UpdateActive(t)
    PROVE  AllStored'
  <1>1. PICK V \in SUBSET Blocks :
           /\ \A b \in Blocks \ V : blk'[b] = blk[b]
           /\ \A b \in V : /\ blk[b].list = "active"
                           /\ \/ blk'[b] = Lift(blk[b], t)
                              \/ blk'[b] = Clear(Lift(blk[b], t), {"PROMOTE"})
                              \/ blk'[b] = Take(blk[b], t, "TRANS_AL")
    BY DEF UpdateActive, Update, Selection, Unlocked
  <1>2. ASSUME NEW b \in Blocks PROVE blk'[b] = blk[b] \/ Stored(blk'[b])
    <2>1. CASE b \notin V
      BY <1>1, <2>1
    <2>2. CASE b \in V
      <3>1. /\ Stored(blk[b]) /\ blk[b] \in Block /\ blk[b].state \in Local
            /\ {blk[b].state, "TRANS_AL"} \subseteq Local
        BY <1>1, <2>2, StoredFacts DEF Sane, Literal, Local, States
      <3>2. Steady(blk[b], Take(blk[b], t, "TRANS_AL"))
        BY <3>1, TakeSteady
      <3>3. Steady(blk[b], Lift(blk[b], t)) /\ Steady(blk[b], Clear(Lift(blk[b], t), {"PROMOTE"}))
        BY <3>1, LiftSteady
      <3> QED BY <1>1, <2>2, <3>1, <3>2, <3>3, SteadyStored
    <2> QED BY <2>1, <2>2
  <1> QED BY <1>2, SomeStored

LEMMA UpdateInactiveStored ==
    ASSUME IInv, AllStored, NEW t \in Threads, UpdateInactive(t)
    PROVE  AllStored'
  <1>1. PICK V \in SUBSET Blocks :
           /\ \A b \in Blocks \ V : blk'[b] = blk[b]
           /\ \A b \in V : /\ blk[b].list = "inactive"
                           /\ \/ blk'[b] = Lift(blk[b], t)
                              \/ blk'[b] = Clear(Lift(blk[b], t), {"PROMOTE"})
                              \/ blk'[b] = Take(blk[b], t, "TRANS_IL")
    BY DEF UpdateInactive, Update, Selection, Unlocked
  <1>2. ASSUME NEW b \in Blocks PROVE blk'[b] = blk[b] \/ Stored(blk'[b])
    <2>1. CASE b \notin V
      BY <1>1, <2>1
    <2>2. CASE b \in V
      <3>1. /\ Stored(blk[b]) /\ blk[b] \in Block /\ blk[b].state \in Local
            /\ {blk[b].state, "TRANS_IL"} \subseteq Local
        BY <1>1, <2>2, StoredFacts DEF Sane, Literal, Local, States
      <3>2. Steady(blk[b], Take(blk[b], t, "TRANS_IL"))
        BY <3>1, TakeSteady
      <3>3. Steady(blk[b], Lift(blk[b], t)) /\ Steady(blk[b], Clear(Lift(blk[b], t), {"PROMOTE"}))
        BY <3>1, LiftSteady
      <3> QED BY <1>1, <2>2, <3>1, <3>2, <3>3, SteadyStored
    <2> QED BY <2>1, <2>2
  <1> QED BY <1>2, SomeStored

LEMMA UnmapVictimsStored ==
    ASSUME IInv, AllStored, NEW t \in Threads, UnmapVictims(t)
    PROVE  AllStored'
  <1>1. ASSUME NEW b \in Blocks PROVE blk'[b] = blk[b] \/ Stored(blk'[b])
    <2>1. \/ blk'[b] = blk[b]
          \/ b \in th[t].vs /\ blk'[b] = Unmapped(blk[b])
      BY DEF UnmapVictims, Update, Panic
    <2>2. ASSUME b \in th[t].vs PROVE Stored(Unmapped(blk[b]))
      <3>1. Sane(blk[b]) /\ Stored(blk[b]) /\ blk[b].state = "TRANS_AL"
        BY <2>2, StoredFacts DEF UnmapVictims, At, IInv, ThreadOK, VictimOf
      <3> QED BY <3>1, UnmapStored
    <2> QED BY <2>1, <2>2
  <1> QED BY <1>1, SomeStored

LEMMA WriteEagerlyStored ==
    ASSUME EvictionsWrite, IInv, AllStored, NEW t \in Threads, WriteEagerly(t)
    PROVE  AllStored'
  <1>1. ASSUME NEW b \in Blocks PROVE blk'[b] = blk[b] \/ Stored(blk'[b])
    <2>1. CASE b \notin th[t].vs
      BY <2>1 DEF WriteEagerly, Update
    <2>2. CASE b \in th[t].vs
      <3>1. /\ Sane(blk[b]) /\ Stored(blk[b]) /\ blk[b].state = "INACTIVE"
            /\ OfKind(blk[b]) /\ blk[b].state \in Local
        BY <2>2, StoredFacts DEF WriteEagerly, At, IInv, ThreadOK, VictimOf, Stored, Local, States
      <3>2. Stored(Unlock(eager_evict(blk[b]))) /\ Stored(Unlock(blk[b]))
        BY <3>1, EagerEvictStored, LockStored
      <3>3. \/ blk'[b] \in {Unlock(eager_evict(blk[b])), Unlock(blk[b])}
            \/ DonorMayFail /\ \E r \in evict_block_errors(blk[b]) : blk'[b] = Unlock(r)
        BY <2>2 DEF WriteEagerly, Update
      <3> QED BY <3>1, <3>2, <3>3, EvictErrorStored DEF EvictionsWrite
    <2> QED BY <2>1, <2>2
  <1> QED BY <1>1, SomeStored

LEMMA EvictCleanStored ==
    ASSUME IInv, AllStored, NEW t \in Threads, NEW b \in Blocks, EvictClean(t, b)
    PROVE  AllStored'
  <1> DEFINE r == blk[b]
             e == check_eager_wbr(r)
  <1>1. Sane(r) /\ Stored(r) /\ Ready(r) /\ r.state = "TRANS_IL" /\ ~check_need_writeback(e)
    BY StoredFacts DEF EvictClean, At, IInv, ThreadOK, VictimOf
  <1>2. blk' = [blk EXCEPT ![b] = set_gpa_remote(e)]
    BY DEF EvictClean
  <1>3. e.remote = "fresh" /\ e \in Block
    BY <1>1, CleanIsFresh
  <1> HIDE DEF e
  <1>4. Stored(set_gpa_remote(e))
    BY <1>3, ReleaseStored
  <1> QED BY <1>2, <1>4, OneStored

LEMMA EvictPostStored ==
    ASSUME IInv, AllStored, NEW t \in Threads, NEW b \in Blocks, EvictPost(t, b)
    PROVE  AllStored'
  <1> DEFINE r == blk[b]
             a == AfterNeedCheck(check_eager_wbr(r))
  <1>1. Sane(r) /\ Stored(r) /\ Ready(r) /\ r.state = "TRANS_IL"
    BY StoredFacts DEF EvictPost, At, IInv, ThreadOK, VictimOf
  <1>2. blk' = [blk EXCEPT ![b] = Unlock(writeback_evict(a))]
    BY DEF EvictPost
  <1>3. Sane(a) /\ OfKind(a)
    BY <1>1, NeedCheckOfKind
  <1> HIDE DEF a
  <1>4. Stored(Unlock(writeback_evict(a)))
    BY <1>3, WritebackStored
  <1> QED BY <1>2, <1>4, OneStored

LEMMA EvictFailStored ==
    ASSUME EvictionsWrite, IInv, AllStored, NEW t \in Threads, NEW b \in Blocks,
           EvictFail(t, b)
    PROVE  AllStored'
  <1> DEFINE r == blk[b]
             a == AfterNeedCheck(check_eager_wbr(r))
  <1>1. Sane(r) /\ Stored(r) /\ Ready(r) /\ r.state = "TRANS_IL"
    BY StoredFacts DEF EvictFail, At, IInv, ThreadOK, VictimOf
  <1>2. /\ DonorMayFail
        /\ \E e \in evict_block_errors(a) :
             \A c \in Blocks : blk'[c] \in {blk[c], Unlock(blk[c]), Unlock(e)}
    BY DEF EvictFail, Update
  <1>3. Sane(a) /\ OfKind(a) /\ a.state = "TRANS_IL"
    BY <1>1, NeedCheckOfKind
  <1> HIDE DEF a
  <1>4. \A e \in evict_block_errors(a) : Stored(Unlock(e))
    BY <1>2, <1>3, EvictErrorStored DEF EvictionsWrite, Local, States
  <1>5. \A c \in Blocks : Stored(Unlock(blk[c]))
    BY StoredFacts, LockStored
  <1> QED BY <1>2, <1>4, <1>5, SomeStored

LEMMA PinStored ==
    ASSUME IInv, AllStored, NEW t \in Threads, NEW b \in Blocks, Pin(t, b)
    PROVE  AllStored'
  <1>1. PICK F \in {{"PINNED"}, {"PINNED", "PROMOTE"}} :
           blk' = [blk EXCEPT ![b] = Set(blk[b], F)]
    BY DEF Pin
  <1>2. Stored(blk[b]) /\ blk[b] \in Block
    BY StoredFacts
  <1>3. Steady(blk[b], Set(blk[b], F))
    BY <1>2, MarkSteady DEF Marks
  <1> QED BY <1>1, <1>2, <1>3, SteadyStored, OneStored

LEMMA UnpinStored ==
    ASSUME IInv, AllStored, NEW t \in Threads, NEW b \in Blocks, Unpin(t, b)
    PROVE  AllStored'
  <1> DEFINE c == Clear(blk[b], {"PINNED"})
  <1>1. \E s \in {c, Relist(c, "proactive")} : blk' = [blk EXCEPT ![b] = s]
    BY DEF Unpin
  <1>2. Stored(blk[b]) /\ blk[b] \in Block
    BY StoredFacts
  <1>3. Steady(blk[b], c) /\ c \in Block
    BY <1>2, MarkSteady DEF Marks
  <1> HIDE DEF c
  <1>4. Steady(c, Relist(c, "proactive"))
    BY <1>3, RelistSteady
  <1> QED BY <1>1, <1>2, <1>3, <1>4, SteadyStored, OneStored

LEMMA PrefetchHintStored ==
    ASSUME IInv, AllStored, NEW t \in Threads, NEW b \in Blocks, Prefetch(t, b)
    PROVE  AllStored'
  <1> DEFINE l == Lock(blk[b], t)
             p == Set(blk[b], {"PROMOTE"})
  <1>1. blk' = [blk EXCEPT ![b] = l] \/ blk' = [blk EXCEPT ![b] = p]
    BY DEF Prefetch
  <1>2. Sane(blk[b]) /\ Stored(blk[b]) /\ blk[b] \in Block
    BY StoredFacts
  <1>3. Stored(l)
    BY <1>2, LockStored
  <1>4. Steady(blk[b], p)
    BY <1>2, MarkSteady DEF Marks
  <1>5. Stored(p)
    BY <1>2, <1>4, SteadyStored
  <1> HIDE DEF l, p
  <1> QED BY <1>1, <1>3, <1>5, OneStored

LEMMA PopulateStored ==
    ASSUME IInv, AllStored, NEW t \in Threads, NEW b \in Blocks, Populate(t, b)
    PROVE  AllStored'
  <1> DEFINE r == blk[b]
             d == wait_read_async(r)
             F == {"PREFETCHED"}
             k == Lock(Clear(r, F), t)
             s(c) == Set(Clear(c, F), {"PROMOTE"})
  <1>1. \/ UNCHANGED blk
        \/ \E x \in {k, s(map(d)), s(r)} : blk' = [blk EXCEPT ![b] = x]
    BY DEF Populate, Panic
  <1>2. Stored(r) /\ r \in Block
    BY StoredFacts
  <1>3. Stored(k)
    <2>1. Steady(r, Clear(r, F)) /\ Clear(r, F) \in Block
      BY <1>2, MarkSteady DEF Marks
    <2>2. Steady(Clear(r, F), k)
      BY <2>1, LockSteady
    <2> QED BY <1>2, <2>1, <2>2, SteadyStored
  <1>4. ASSUME NEW c \in Block, Stored(c) PROVE Stored(s(c))
    <2>1. Steady(c, Clear(c, F)) /\ Clear(c, F) \in Block
      BY <1>4, MarkSteady DEF Marks
    <2>2. Steady(Clear(c, F), s(c))
      BY <2>1, MarkSteady DEF Marks
    <2> QED BY <1>4, <2>1, <2>2, SteadyStored
  <1>5. Stored(map(d)) /\ map(d) \in Block
    <2>1. Stored(d) /\ d \in Block
      BY <1>2, WaitStored
    <2> HIDE DEF d
    <2>2. Steady(d, map(d)) /\ map(d) \in Block
      BY <2>1, LockSteady DEF map, Block
    <2> QED BY <2>1, <2>2, SteadyStored
  <1>6. Stored(s(map(d))) /\ Stored(s(r))
    BY <1>2, <1>4, <1>5
  <1> HIDE DEF k, s, d
  <1> QED BY <1>1, <1>3, <1>6, SameStored, OneStored

LEMMA DontNeedStored ==
    ASSUME IInv, AllStored, NEW t \in Threads, NEW b \in Blocks, DontNeed(t, b)
    PROVE  AllStored'
  <1> DEFINE r == Clear(blk[b], {"PROMOTE", "PINNED"})
             k == Take(r, t, "TRANS_AL")
             s == Clear(k, {"PROACTIVE"})
  <1>1. \/ blk' = [blk EXCEPT ![b] = r]
        \/ r.state = "ACTIVE" /\ blk' = [blk EXCEPT ![b] = s]
    BY DEF DontNeed
  <1>2. Stored(blk[b]) /\ blk[b] \in Block
    BY StoredFacts
  <1>3. Steady(blk[b], r) /\ r \in Block
    BY <1>2, MarkSteady DEF Marks
  <1> HIDE DEF r
  <1>4. Stored(r)
    BY <1>2, <1>3, SteadyStored
  <1>5. ASSUME r.state = "ACTIVE" PROVE Stored(s)
    <2>1. Steady(r, k) /\ k \in Block
      BY <1>3, <1>5, TakeSteady, LifecycleAssumption DEF Local, States, Take, Block, Lists
    <2> HIDE DEF k
    <2>2. Steady(k, s)
      BY <2>1, MarkSteady DEF Marks
    <2> QED BY <1>4, <2>1, <2>2, SteadyStored
  <1> HIDE DEF s
  <1> QED BY <1>1, <1>4, <1>5, OneStored

LEMMA MemoryStored ==
    ASSUME IInv, AllStored, NEW b \in Blocks, Write(b) \/ CompleteIO(b)
    PROVE  AllStored'
  <1> DEFINE r == blk[b]
             w == [r EXCEPT !.pteDirty = TRUE, !.remote = IF @ = "fresh" THEN "stale" ELSE @]
             c == [r EXCEPT !.done = TRUE, !.remote = IF r.w = "fetch" THEN @ ELSE "fresh"]
  <1>1. Sane(r) /\ Stored(r) /\ r \in Block
    BY StoredFacts
  <1>2. CASE Write(b)
    <2>1. blk' = [blk EXCEPT ![b] = w]
      BY <1>1, <1>2 DEF Write, IInv, TypeOK, Block
    <2>2. Stored(w)
      BY <1>1, <1>2, WriteStored DEF Write
    <2> HIDE DEF w
    <2> QED BY <2>1, <2>2, OneStored
  <1>3. CASE CompleteIO(b)
    <2>1. blk' = [blk EXCEPT ![b] = c]
      BY <1>1, <1>3 DEF CompleteIO, IInv, TypeOK, Block
    <2>2. Stored(c)
      BY <1>1, <1>3, CompleteStored DEF CompleteIO
    <2> HIDE DEF c
    <2> QED BY <2>1, <2>2, OneStored
  <1> QED BY <1>2, <1>3

-----------------------------------------------------------------------------
LEMMA WorkStored ==
    ASSUME EvictionsWrite, IInv, AllStored, NEW t \in Threads, Work(t)
    PROVE  AllStored'
  <1>1. CASE \E b \in Blocks :
                \/ FaultActive(t, b) \/ FaultInactive(t, b) \/ FaultWriteback(t, b)
                \/ FaultInvalid(t, b) \/ FaultRemote(t, b) \/ Fetch(t, b) \/ MapBlock(t, b)
                \/ EvictClean(t, b) \/ EvictPost(t, b) \/ EvictFail(t, b)
                \/ ReapForPage(t, b)
    <2>1. ASSUME NEW b \in Blocks, FaultInvalid(t, b) \/ FaultRemote(t, b) PROVE AllStored'
      BY <2>1, SameStored DEF FaultInvalid, FaultRemote, Panic
    <2> QED BY <1>1, <2>1, FaultActiveStored, FaultInactiveStored, FaultWritebackStored,
               FetchBlockStored, MapBlockStored, EvictCleanStored, EvictPostStored,
               EvictFailStored, ReapStored
  <1>2. CASE \/ \E c \in Counters : AdjustLength(t, c)
             \/ AllocReclaim(t)
             \/ SkipProactive(t) \/ SkipUnpin(t) \/ SkipActive(t) \/ SkipInactive(t)
    BY <1>2, SameStored DEF AdjustLength, AllocReclaim, SkipProactive, SkipUnpin,
                            SkipActive, SkipInactive
  <1>3. CASE ReapDone(t) \/ Finish(t) \/ Fail(t)
    BY <1>3, ReapDoneStored, UnlockBlocksStored
  <1>4. CASE \/ UpdateProactive(t) \/ UnpinVictims(t) \/ Demote(t) \/ Demoted(t)
             \/ MoveToPin(t) \/ Promote(t) \/ Release(t)
    BY <1>4, UpdateProactiveStored, UnpinVictimsStored, DemoteStored, DemotedStored,
       MoveToPinStored, PromoteStored
  <1>5. CASE UpdateActive(t) \/ UnmapVictims(t) \/ WriteEagerly(t) \/ UpdateInactive(t)
    BY <1>5, UpdateActiveStored, UnmapVictimsStored, WriteEagerlyStored, UpdateInactiveStored
  <1> QED BY <1>1, <1>2, <1>3, <1>4, <1>5 DEF Work

LEMMA SyscallStored ==
    ASSUME IInv, AllStored, NEW t \in Threads, Syscall(t)
    PROVE  AllStored'
  BY FaultLockStored, ReapStored, PinStored, UnpinStored, PrefetchHintStored, PopulateStored,
     DontNeedStored DEF Syscall

LEMMA NextStored ==
    ASSUME EvictionsWrite, IInv, AllStored, [Next]_vars
    PROVE  AllStored'
  <1>1. CASE \E t \in Threads : Work(t) \/ Syscall(t)
    BY <1>1, WorkStored, SyscallStored
  <1>2. CASE \E b \in Blocks : Write(b) \/ CompleteIO(b)
    BY <1>2, MemoryStored
  <1>3. CASE Halted \/ UNCHANGED vars
    BY <1>3, SameStored DEF Halted, vars
  <1> QED BY <1>1, <1>2, <1>3 DEF Next

LEMMA InitStored ==
    ASSUME Init
    PROVE  AllStored
  BY DEF Init, NewBlock, AllStored, Stored, OfKind, Writing, Unsaved, Has

(* The invariant holds in every reachable state, where no donor fails or   *)
(* every eviction writes.                                                  *)
THEOREM WritesInductive ==
    ASSUME EvictionsWrite
    PROVE  Spec => [](IInv /\ AllStored)
  <1>1. Init => AllStored
    BY InitStored
  <1>2. IInv /\ AllStored /\ [Next]_vars => AllStored'
    BY NextStored
  <1> QED BY <1>1, <1>2, Inductive, PTL DEF Spec

(* What a program wrote into a block is in its remote page when the block  *)
(* has left the cache, through scans of several threads, eager writebacks  *)
(* and hints (check_need_writeback(), check_eager_wbr(),                   *)
(* set_gpa_remote()).  Donors may fail unless remote pages are reused and  *)
(* clean blocks dropped: then evict_block() leaves a slot behind that was  *)
(* never written and passes for a copy.                                    *)
THEOREM NoUpdateIsLost ==
    ASSUME DonorMayFail => ~RemoteReuse \/ ~WritebackOpt
    PROVE  Spec => []NoLostUpdate
  <1>1. AllStored => NoLostUpdate
    BY DEF AllStored, NoLostUpdate, Stored, Resident
  <1>2. EvictionsWrite
    BY DEF EvictionsWrite, MayDrop
  <1> QED BY <1>1, <1>2, WritesInductive, PTL

-----------------------------------------------------------------------------
(* @w is a request of its kind.  A block whose fetch is under way without  *)
(* a prefetch mark is owed a mapping: the thread that faulted on it will   *)
(* wait for the fetch.  With donors that fail the debt is dropped on the   *)
(* way, and a populate hint takes the mark away without waiting.           *)
Fetching(r) == r.w = "fetch" /\ ~Has(r, "PREFETCHED")
Awaited(b) == \E t \in Threads : b \in th[t].cur /\ Serving(th[t]) = "map"
OnDuty(s) ==
    /\ s.pc # "error"
    /\ s.cur # {} => s.op \in {"read", "write", "prefetch"}
Kept ==
    /\ \A t \in Threads : OnDuty(th[t])
    /\ \A b \in Blocks : /\ blk[b].w # "freed"
                         /\ Fetching(blk[b]) => Awaited(b)

(* A change that starts no fetch and hides none.                           *)
Follows(r, s) ==
    /\ s.w = "freed" => r.w = "freed"
    /\ Fetching(s) => Fetching(r)

LEMMA FollowsTransitive ==
    ASSUME NEW r, NEW s, NEW u, Follows(r, s), Follows(s, u)
    PROVE  Follows(r, u)
  BY DEF Follows

LEMMA HoldFollows ==
    ASSUME NEW r \in Block, NEW t, NEW state, NEW l
    PROVE  /\ Follows(r, Lock(r, t)) /\ Follows(r, Unlock(r)) /\ Follows(r, map(r))
           /\ Follows(r, Take(r, t, state)) /\ Follows(r, Relist(r, l)) /\ Follows(r, r)
           /\ Follows(r, Lift(r, t)) /\ Lift(r, t).w = r.w /\ Lift(r, t).flags = r.flags
  BY DEF Follows, Fetching, Has, Lock, Unlock, map, Take, Relist, Lift, Block

LEMMA LiftFollows ==
    ASSUME NEW r \in Block, NEW t, NEW F \in {{"PROMOTE"}, {"PINNED"}}
    PROVE  Follows(r, Clear(Lift(r, t), F))
  BY DEF Follows, Fetching, Has, Lift, Clear, Block

LEMMA MarkFollows ==
    ASSUME NEW r \in Block, NEW F
    PROVE  /\ Follows(r, Set(r, F))
           /\ "PREFETCHED" \notin F => Follows(r, Clear(r, F))
  BY DEF Follows, Fetching, Has, Set, Clear, Block

LEMMA WaitFollows ==
    ASSUME NEW r \in Block
    PROVE  /\ Follows(r, wait_read_async(r)) /\ wait_read_async(r).w # "fetch"
           /\ wait_read_async(r) \in Block
  <1>1. CASE r.w # "fetch"
    BY <1>1 DEF wait_read_async, Follows
  <1>2. CASE r.w = "fetch"
    BY <1>2 DEF wait_read_async, free_remote_page, Follows, Fetching, Block, Requests
  <1> QED BY <1>1, <1>2

LEMMA PrefetchedFollows ==
    ASSUME NEW r \in Block
    PROVE  Follows(r, wait_for_prefetched_block(r)) /\ wait_for_prefetched_block(r) \in Block
  <1> DEFINE d == wait_read_async(r)
  <1>1. Follows(r, d) /\ d.w # "fetch" /\ d \in Block
    BY WaitFollows
  <1> HIDE DEF d
  <1>2. Clear(d, {"PREFETCHED"}).w = d.w /\ Clear(d, {"PREFETCHED"}) \in Block
    BY <1>1 DEF Clear, Block, Flags
  <1> QED BY <1>1, <1>2 DEF wait_for_prefetched_block, d, Follows, Fetching

LEMMA EagerFollows ==
    ASSUME NEW r \in Block
    PROVE  Follows(r, check_eager_wbr(r)) /\ check_eager_wbr(r) \in Block
  <1>1. CASE ~Has(r, "EAGER_WBR")
    BY <1>1 DEF check_eager_wbr, Follows
  <1>2. CASE Has(r, "EAGER_WBR")
    BY <1>2 DEF check_eager_wbr, Clear, Follows, Fetching, Has, Block, Requests, Flags
  <1> QED BY <1>1, <1>2

LEMMA ClearFollows ==
    ASSUME NEW r \in Block
    PROVE  Follows(r, clear_block_w(r)) /\ clear_block_w(r) \in Block
  <1> DEFINE e == check_eager_wbr(r)
             p == wait_for_prefetched_block(e)
  <1>1. Follows(r, e) /\ e \in Block
    BY EagerFollows
  <1>2. clear_block_w(r) \in {e, p}
    BY DEF clear_block_w
  <1> HIDE DEF e
  <1>3. Follows(e, p) /\ p \in Block
    BY <1>1, PrefetchedFollows
  <1> HIDE DEF p
  <1> QED BY <1>1, <1>2, <1>3, FollowsTransitive

LEMMA ListFollows ==
    ASSUME NEW r \in Block, NEW target
    PROVE  /\ Follows(r, add_gpas_to_active_list(r, target))
           /\ Follows(r, add_gpas_to_inactive(r))
  <1>1. add_gpas_to_active_list(r, target).w = r.w
    BY DEF add_gpas_to_active_list, Block
  <1>2. Has(r, "PREFETCHED") => Has(add_gpas_to_active_list(r, target), "PREFETCHED")
    BY DEF add_gpas_to_active_list, Block, Has
  <1>3. Follows(r, add_gpas_to_inactive(r))
    BY DEF add_gpas_to_inactive, Follows, Fetching, Has, Block
  <1> QED BY <1>1, <1>2, <1>3 DEF Follows, Fetching

LEMMA MoveFollows ==
    ASSUME NEW r \in Block, NEW s,
           \/ s = move_to_pin_list(r, TRUE) \/ s = move_to_pin_list(r, FALSE)
           \/ s = promote_gpas(r, TRUE) \/ s = promote_gpas(r, FALSE)
    PROVE  Follows(r, s)
  <1>1. CASE s = move_to_pin_list(r, TRUE) \/ s = move_to_pin_list(r, FALSE)
    <2>1. PICK F \in {{"PROACTIVE"}, {"PROACTIVE", "PREFETCHED", "HPT"}} :
            s = [r EXCEPT !.state = "ACTIVE", !.list = "pin", !.flags = @ \cup F]
      BY <1>1 DEF move_to_pin_list
    <2> QED BY <2>1 DEF Follows, Fetching, Has, Block
  <1>2. CASE s = promote_gpas(r, TRUE) \/ s = promote_gpas(r, FALSE)
    <2>1. PICK F \in {{"PROACTIVE"}, {"PROACTIVE", "PREFETCHED"}} :
            s = [r EXCEPT !.state = "ACTIVE", !.list = "proactive", !.flags = @ \cup F]
      BY <1>2 DEF promote_gpas
    <2> QED BY <2>1 DEF Follows, Fetching, Has, Block
  <1> QED BY <1>1, <1>2

LEMMA UnmappedFollows ==
    ASSUME NEW r, Sane(r)
    PROVE  Follows(r, Unmapped(r)) /\ Unmapped(r) \in Block
  <1> DEFINE d == IF Has(r, "PREFETCHED") THEN wait_for_prefetched_block(r) ELSE r
             g == unmap_gpas(d)
             u == add_gpas_to_inactive(g)
  <1>1. Follows(r, d) /\ Sane(d)
    <2>1. Sane(wait_for_prefetched_block(r))
      BY PrefetchedDrains, DrainedSane DEF Becomes
    <2> QED BY <2>1, PrefetchedFollows, HoldFollows DEF Sane
  <1>2. u = Unmapped(r)
    BY DEF Unmapped
  <1> HIDE DEF d
  <1>3. Follows(d, g) /\ g \in Block
    <2>1. g \in Block
      BY <1>1, UnmapSteady
    <2>2. g.w = d.w /\ (Has(d, "PREFETCHED") => Has(g, "PREFETCHED"))
      BY <1>1 DEF unmap_gpas, Clear, Has, Sane, Block
    <2> QED BY <2>1, <2>2 DEF Follows, Fetching
  <1> HIDE DEF g
  <1>4. Follows(g, u) /\ u \in Block
    BY <1>3, ListFollows DEF add_gpas_to_inactive, Block, States, Lists
  <1> HIDE DEF u
  <1>5. Follows(r, u)
    BY <1>1, <1>3, <1>4, FollowsTransitive
  <1> QED BY <1>2, <1>4, <1>5

LEMMA WriteFollows ==
    ASSUME NEW r \in Block, NEW s,
           s = Unlock(eager_evict(r)) \/ s = Unlock(writeback_evict(r))
    PROVE  s.w \in {"eager", "writeback"}
  <1> DEFINE c == clear_block_w(r)
  <1>1. c \in Block
    BY ClearFollows
  <1>2. CASE s = Unlock(eager_evict(r))
    <2>1. s = Unlock(Set([c EXCEPT !.w = "eager", !.done = FALSE, !.remote = "stale"],
                         {"EAGER_WBR"}))
      BY <1>2 DEF eager_evict, post_writeback
    <2> HIDE DEF c
    <2> QED BY <1>1, <2>1 DEF Unlock, Set, Block
  <1>3. CASE s = Unlock(writeback_evict(r))
    <2>1. s = Unlock([[c EXCEPT !.w = "writeback", !.done = FALSE, !.remote = "stale"]
                          EXCEPT !.state = "WB", !.list = "writeback"])
      BY <1>3 DEF writeback_evict, post_writeback
    <2> HIDE DEF c
    <2> QED BY <1>1, <2>1 DEF Unlock, Block
  <1> QED BY <1>2, <1>3

-----------------------------------------------------------------------------
(* What a step of @t does to the threads: nobody else is disturbed, and a  *)
(* block that was owed a mapping still is.                                 *)
Going(t) ==
    /\ \A u \in Threads \ {t} : th'[u] = th[u]
    /\ OnDuty(th'[t])
    /\ Serving(th[t]) = "map" =>
         \A b \in th[t].cur : b \in th'[t].cur /\ Serving(th'[t]) = "map"

LEMMA StillAwaited ==
    ASSUME NEW t \in Threads, Going(t), NEW b \in Blocks, Awaited(b)
    PROVE  Awaited(b)'
  BY DEF Awaited, Going

LEMMA StillKept ==
    ASSUME Kept, NEW t \in Threads, Going(t),
           \A b \in Blocks : \/ Follows(blk[b], blk'[b])
                             \/ blk'[b].w # "freed" /\ (Fetching(blk'[b]) => Awaited(b)')
    PROVE  Kept'
  <1>1. \A u \in Threads : OnDuty(th'[u])
    BY DEF Going, Kept
  <1>2. ASSUME NEW b \in Blocks
        PROVE  blk'[b].w # "freed" /\ (Fetching(blk'[b]) => Awaited(b)')
    BY StillAwaited DEF Kept, Follows
  <1> QED BY <1>1, <1>2 DEF Kept

LEMMA OneKept ==
    ASSUME IInv, Kept, NEW t \in Threads, Going(t), NEW b \in Blocks,
           NEW s, blk' = [blk EXCEPT ![b] = s],
           Follows(blk[b], s) \/ s.w \notin {"freed", "fetch"}
    PROVE  Kept'
  <1>1. ASSUME NEW a \in Blocks
        PROVE  \/ Follows(blk[a], blk'[a])
               \/ blk'[a].w # "freed" /\ (Fetching(blk'[a]) => Awaited(a)')
    <2>1. CASE a = b
      <3>1. blk'[a] = s
        BY <2>1 DEF IInv, TypeOK
      <3> QED BY <2>1, <3>1 DEF Fetching
    <2>2. CASE a # b
      <3>1. blk'[a] = blk[a]
        BY <2>2 DEF IInv, TypeOK
      <3> QED BY <3>1 DEF Follows
    <2> QED BY <2>1, <2>2
  <1> QED BY <1>1, StillKept

LEMMA StayGoing ==
    ASSUME IInv, Kept, NEW t \in Threads, UNCHANGED th
    PROVE  Going(t)
  BY DEF Kept, Going

LEMMA ThreadGoing ==
    ASSUME IInv, NEW t \in Threads, NEW s, th' = [th EXCEPT ![t] = s], OnDuty(s),
           Serving(th[t]) = "map" => \A b \in th[t].cur : b \in s.cur /\ Serving(s) = "map"
    PROVE  Going(t)
  <1>1. th'[t] = s /\ \A u \in Threads \ {t} : th'[u] = th[u]
    BY DEF IInv, TypeOK
  <1> QED BY <1>1 DEF Going

Elsewhere == {"idle", "local", "alloc"}

LEMMA GotoGoing ==
    ASSUME IInv, Kept, NEW t \in Threads, NEW p, NEW V, Goto(t, p) \/ GotoWith(t, p, V),
           p # "error", (th[t].pc \in Pipeline /\ p \in Pipeline) \/ th[t].pc \in Elsewhere
    PROVE  Going(t)
  <1>1. th[t] \in Thread /\ OnDuty(th[t])
    BY DEF IInv, TypeOK, Kept
  <1>2. PICK s \in {[th[t] EXCEPT !.pc = p], [th[t] EXCEPT !.pc = p, !.vs = V]} :
           th' = [th EXCEPT ![t] = s]
    BY DEF Goto, GotoWith
  <1>3. s.pc = p /\ s.cur = th[t].cur /\ s.op = th[t].op /\ s.ret = th[t].ret
    BY <1>1, <1>2 DEF Thread
  <1>4. OnDuty(s)
    BY <1>1, <1>3 DEF OnDuty
  <1>5. Serving(th[t]) = "map" => Serving(s) = "map"
    BY <1>3 DEF Serving, Pipeline, Elsewhere
  <1> QED BY <1>2, <1>3, <1>4, <1>5, ThreadGoing

LEMMA CallGoing ==
    ASSUME IInv, Kept, NEW t \in Threads, NEW p, NEW r, Call(t, p, r),
           p # "error", th[t].pc \in Elsewhere
    PROVE  Going(t)
  <1>1. th[t] \in Thread /\ OnDuty(th[t])
    BY DEF IInv, TypeOK, Kept
  <1>2. PICK s : s = [th[t] EXCEPT !.pc = p, !.ret = r]
    OBVIOUS
  <1>3. s.pc = p /\ s.cur = th[t].cur /\ s.op = th[t].op
    BY <1>1, <1>2 DEF Thread
  <1>4. OnDuty(s)
    BY <1>1, <1>3 DEF OnDuty
  <1>5. Serving(th[t]) # "map"
    BY DEF Serving, Pipeline, Elsewhere
  <1> QED BY <1>2, <1>4, <1>5, ThreadGoing DEF Call

LEMMA ReturnGoing ==
    ASSUME IInv, Kept, NEW t \in Threads, Return(t), th[t].pc \in Pipeline
    PROVE  Going(t)
  <1>1. th[t] \in Thread /\ OnDuty(th[t])
    BY DEF IInv, TypeOK, Kept
  <1>2. PICK s : s = [th[t] EXCEPT !.pc = th[t].ret, !.vs = {}]
    OBVIOUS
  <1>3. /\ s.pc = th[t].ret /\ s.cur = th[t].cur /\ s.op = th[t].op
        /\ s.pc \in {"idle", "alloc", "map", "finish"}
    BY <1>1, <1>2 DEF Thread
  <1>4. OnDuty(s)
    BY <1>1, <1>3 DEF OnDuty
  <1>5. Serving(th[t]) = "map" => Serving(s) = "map"
    BY <1>3 DEF Serving, Pipeline
  <1> QED BY <1>2, <1>3, <1>4, <1>5, ThreadGoing DEF Return

LEMMA LeaveGoing ==
    ASSUME IInv, Kept, NEW t \in Threads, Leave(t),
           Serving(th[t]) # "map" \/ th[t].cur = {}
    PROVE  Going(t)
  <1>1. OnDuty(IdleThread)
    BY DEF OnDuty, IdleThread
  <1> QED BY <1>1, ThreadGoing DEF Leave

LEMMA EnterGoing ==
    ASSUME IInv, Kept, NEW t \in Threads, NEW p \in {"local", "alloc"},
           NEW o \in {"read", "write", "prefetch"}, NEW b \in Blocks, Enter(t, p, o, b),
           th[t].pc = "idle"
    PROVE  Going(t)
  <1>1. PICK s : s = [pc |-> p, op |-> o, cur |-> {b}, vs |-> {}, up |-> {},
                       ret |-> "finish"]
    OBVIOUS
  <1>2. OnDuty(s)
    BY <1>1 DEF OnDuty
  <1>3. Serving(th[t]) # "map"
    BY DEF Serving, Pipeline
  <1> QED BY <1>1, <1>2, <1>3, ThreadGoing DEF Enter

LEMMA ScannedGoing ==
    ASSUME IInv, Kept, NEW t \in Threads, NEW p, NEW V, NEW U, Scanned(t, p, V, U),
           th[t].pc \in Pipeline, p \in Pipeline \/ p = th[t].ret
    PROVE  Going(t)
  <1>1. th[t] \in Thread /\ OnDuty(th[t])
    BY DEF IInv, TypeOK, Kept
  <1>2. PICK s : s = [th[t] EXCEPT !.pc = p, !.vs = V, !.up = U]
    OBVIOUS
  <1>3. /\ s.pc = p /\ s.cur = th[t].cur /\ s.op = th[t].op /\ s.ret = th[t].ret
        /\ th[t].ret \in {"idle", "alloc", "map", "finish"}
    BY <1>1, <1>2 DEF Thread
  <1>4. OnDuty(s)
    BY <1>1, <1>3 DEF OnDuty, Pipeline
  <1>5. Serving(th[t]) = "map" => Serving(s) = "map"
    BY <1>3 DEF Serving, Pipeline
  <1>6. th' = [th EXCEPT ![t] = s]
    BY <1>2 DEF Scanned
  <1> QED BY <1>3, <1>4, <1>5, <1>6, ThreadGoing

LEMMA LandedGoing ==
    ASSUME IInv, Kept, NEW t \in Threads, NEW U, th' = [th EXCEPT ![t].up = U]
    PROVE  Going(t)
  <1>1. th[t] \in Thread /\ OnDuty(th[t])
    BY DEF IInv, TypeOK, Kept
  <1>2. PICK s : s = [th[t] EXCEPT !.up = U]
    OBVIOUS
  <1>3. s.pc = th[t].pc /\ s.cur = th[t].cur /\ s.op = th[t].op /\ s.ret = th[t].ret
    BY <1>1, <1>2 DEF Thread
  <1>4. OnDuty(s) /\ (Serving(th[t]) = "map" => Serving(s) = "map")
    BY <1>1, <1>3 DEF OnDuty, Serving
  <1>5. th' = [th EXCEPT ![t] = s]
    BY <1>2
  <1> QED BY <1>3, <1>4, <1>5, ThreadGoing

LEMMA EvictedGoing ==
    ASSUME IInv, Kept, NEW t \in Threads, NEW b \in Blocks, Evicted(t, b), th[t].pc = "evict"
    PROVE  Going(t)
  <1>1. CASE Return(t)
    BY <1>1, ReturnGoing DEF Pipeline
  <1>2. CASE GotoWith(t, "evict", th[t].vs \ {b})
    <2>1. "evict" \in Pipeline /\ "evict" # "error"
      BY DEF Pipeline
    <2> QED BY <1>2, <2>1, GotoGoing
  <1> QED BY <1>1, <1>2 DEF Evicted

LEMMA StepTypes ==
    ASSUME IInv
    PROVE  \A b \in Blocks : Sane(blk[b]) /\ blk[b] \in Block
  BY BlocksSane DEF Sane

-----------------------------------------------------------------------------
(* Steps on the way of a fault.                                            *)
LEMMA FaultLockKept ==
    ASSUME IInv, Kept, NEW t \in Threads, NEW b \in Blocks, NEW op \in {"read", "write"},
           FaultLock(t, b, op)
    PROVE  Kept'
  <1>1. Follows(blk[b], Lock(blk[b], t))
    BY StepTypes, HoldFollows
  <1>2. blk' = [blk EXCEPT ![b] = Lock(blk[b], t)]
    BY DEF FaultLock
  <1>3. Going(t)
    BY EnterGoing DEF FaultLock, At
  <1> QED BY <1>1, <1>2, <1>3, OneKept

LEMMA FaultActiveKept ==
    ASSUME IInv, Kept, NEW t \in Threads, NEW b \in Blocks, FaultActive(t, b)
    PROVE  Kept'
  <1> DEFINE r == blk[b]
             c == clear_block_w(r)
  <1>1. r \in Block /\ th[t].pc = "local"
    BY StepTypes DEF FaultActive, At
  <1>2. \/ UNCHANGED <<blk, th>>
        \/ /\ Leave(t) \/ Goto(t, "map")
           /\ \E s \in {Unlock(map(r)), r, Unlock(map(c)), c} : blk' = [blk EXCEPT ![b] = s]
    BY DEF FaultActive, Panic
  <1>3. Follows(r, c) /\ c \in Block
    BY <1>1, ClearFollows
  <1> HIDE DEF c
  <1>4. ASSUME NEW d \in Block PROVE Follows(d, Unlock(map(d)))
    <2>1. Follows(d, map(d)) /\ map(d) \in Block
      BY HoldFollows DEF map, Block
    <2>2. Follows(map(d), Unlock(map(d)))
      BY <2>1, HoldFollows
    <2> QED BY <2>1, <2>2, FollowsTransitive
  <1>5. \A s \in {Unlock(map(r)), r, Unlock(map(c)), c} : Follows(r, s)
    BY <1>1, <1>3, <1>4, HoldFollows, FollowsTransitive
  <1>6. CASE UNCHANGED <<blk, th>>
    BY <1>6 DEF Kept, Awaited
  <1>7. CASE Leave(t) \/ Goto(t, "map")
    <2>1. Serving(th[t]) # "map" /\ th[t].pc \in Elsewhere
      BY <1>1 DEF Serving, Pipeline, Elsewhere
    <2>2. Going(t)
      BY <1>7, <2>1, LeaveGoing, GotoGoing
    <2>3. \/ UNCHANGED blk
          \/ \E s \in {Unlock(map(r)), r, Unlock(map(c)), c} : blk' = [blk EXCEPT ![b] = s]
      BY <1>2
    <2>4. CASE UNCHANGED blk
      BY <2>2, <2>4, StillKept DEF Follows
    <2> QED BY <1>5, <2>2, <2>3, <2>4, OneKept
  <1> QED BY <1>2, <1>6, <1>7

LEMMA FaultInactiveKept ==
    ASSUME IInv, Kept, NEW t \in Threads, NEW b \in Blocks, FaultInactive(t, b)
    PROVE  Kept'
  <1> DEFINE c == clear_block_w(blk[b])
             s == add_gpas_to_active_list(c, "proactive")
  <1>1. Follows(blk[b], c) /\ c \in Block
    BY StepTypes, ClearFollows
  <1>2. blk' = [blk EXCEPT ![b] = s] /\ Goto(t, "map") /\ th[t].pc \in Elsewhere
    BY DEF FaultInactive, At, Elsewhere
  <1> HIDE DEF c
  <1>3. Follows(c, s)
    BY <1>1, ListFollows
  <1> HIDE DEF s
  <1>4. Going(t)
    BY <1>2, GotoGoing
  <1> QED BY <1>1, <1>2, <1>3, <1>4, FollowsTransitive, OneKept

LEMMA FaultWritebackKept ==
    ASSUME IInv, Kept, NEW t \in Threads, NEW b \in Blocks, FaultWriteback(t, b)
    PROVE  Kept'
  <1> DEFINE c == free_remote_page(clear_writeback_block(blk[b]))
             s == add_gpas_to_active_list(c, "proactive")
  <1>1. c.w = "none" /\ c \in Block
    BY StepTypes DEF free_remote_page, clear_writeback_block, Block, Lists, Requests
  <1>2. blk' = [blk EXCEPT ![b] = s] /\ Call(t, "proactive", "map") /\ th[t].pc \in Elsewhere
    BY DEF FaultWriteback, At, Elsewhere
  <1> HIDE DEF c
  <1>3. s.w = "none"
    BY <1>1 DEF add_gpas_to_active_list, Block
  <1> HIDE DEF s
  <1>4. Going(t)
    BY <1>2, CallGoing
  <1> QED BY <1>2, <1>3, <1>4, OneKept

(* A fetch is marked as a prefetch, or waited for by its fault.            *)
LEMMA FetchKept ==
    ASSUME IInv, Kept, NEW t \in Threads, NEW b \in Blocks, Fetch(t, b)
    PROVE  Kept'
  <1> DEFINE r == blk[b]
             op == th[t].op
             f == FetchedBlock(r, op)
             g == [Set(r, {"TOUCHED"}) EXCEPT !.page = TRUE,
                      !.w = IF Has(r, "TOUCHED") THEN "fetch" ELSE "none",
                      !.done = ~Has(r, "TOUCHED")]
  <1>1. /\ r \in Block /\ th[t].pc = "alloc" /\ th[t].pc \in Elsewhere
        /\ b \in th[t].cur /\ op \in {"read", "write", "prefetch"}
    BY StepTypes DEF Fetch, At, Elsewhere, Kept, OnDuty
  <1>2. PICK target : blk' = [blk EXCEPT ![b] = add_gpas_to_active_list(f, target)]
    BY DEF Fetch
  <1>3. PICK x : /\ Call(t, "proactive", x)
                 /\ op \in {"read", "write"} => x = "map"
    BY DEF Fetch
  <1>4. Going(t)
    BY <1>1, <1>3, CallGoing
  <1>5. PICK s : s = add_gpas_to_active_list(f, target)
    OBVIOUS
  <1>6. s.w # "freed" /\ (op = "prefetch" => ~Fetching(s))
    <2>1. g \in Block /\ g.w # "freed"
      BY <1>1 DEF Set, Block, Requests, Flags
    <2>2. f = IF op = "prefetch" THEN Set(g, {"PREFETCHED", "HPT"}) ELSE g
      BY <1>1 DEF FetchedBlock
    <2> HIDE DEF g, f
    <2>3. f \in Block /\ f.w # "freed" /\ (op = "prefetch" => Has(f, "PREFETCHED"))
      BY <2>1, <2>2 DEF Set, Block, Flags, Has
    <2>4. Follows(f, s)
      BY <1>5, <2>3, ListFollows
    <2> QED BY <2>3, <2>4 DEF Follows, Fetching
  <1>7. op # "prefetch" => Awaited(b)'
    <2>1. SUFFICES ASSUME op # "prefetch" PROVE Awaited(b)'
      OBVIOUS
    <2>2. Call(t, "proactive", "map")
      BY <1>1, <1>3, <2>1
    <2>3. th'[t] = [th[t] EXCEPT !.pc = "proactive", !.ret = "map"] /\ th[t] \in Thread
      BY <2>2 DEF Call, IInv, TypeOK
    <2>4. th'[t].cur = th[t].cur /\ th'[t].pc = "proactive" /\ th'[t].ret = "map"
      BY <2>3 DEF Thread
    <2> QED BY <1>1, <2>4 DEF Awaited, Serving, Pipeline
  <1> HIDE DEF f, op
  <1>8. ASSUME NEW a \in Blocks
        PROVE  \/ Follows(blk[a], blk'[a])
               \/ blk'[a].w # "freed" /\ (Fetching(blk'[a]) => Awaited(a)')
    <2>1. CASE a = b
      <3>1. blk'[a] = s
        BY <1>2, <1>5, <2>1 DEF IInv, TypeOK
      <3> QED BY <1>6, <1>7, <2>1, <3>1
    <2>2. CASE a # b
      <3>1. blk'[a] = blk[a]
        BY <1>2, <2>2 DEF IInv, TypeOK
      <3> QED BY <3>1 DEF Follows
    <2> QED BY <2>1, <2>2
  <1> QED BY <1>4, <1>8, StillKept

(* The debt is paid: the one block of the fault is waited for and mapped.  *)
LEMMA MapBlockKept ==
    ASSUME IInv, Kept, NEW t \in Threads, NEW b \in Blocks, MapBlock(t, b)
    PROVE  Kept'
  <1> DEFINE r == blk[b]
             d == wait_read_async(r)
             F == {"HPT"} \cup IF th[t].op = "write" THEN {"DIRTY"} ELSE {}
             s == Unlock(map(Set(d, F)))
  <1>1. r \in Block
    BY StepTypes
  <1>2. CASE Misread(r)
    BY <1>2 DEF MapBlock, Panic, Kept, Awaited
  <1>3. CASE ~Misread(r)
    <2>1. blk' = [blk EXCEPT ![b] = s] /\ Leave(t) /\ th[t].pc = "map" /\ b \in th[t].cur
      BY <1>3 DEF MapBlock, At
    <2>2. d \in Block /\ d.w # "fetch" /\ Follows(r, d)
      BY <1>1, WaitFollows
    <2> HIDE DEF d, F
    <2>3. s.w = d.w
      BY <2>2 DEF Unlock, map, Set, Block
    <2>4. s.w \notin {"freed", "fetch"}
      BY <2>2, <2>3 DEF Kept, Follows
    <2> HIDE DEF s
    <2>5. blk'[b] = s /\ \A a \in Blocks \ {b} : blk'[a] = blk[a]
      BY <2>1 DEF IInv, TypeOK
    <2>6. th'[t] = IdleThread /\ \A u \in Threads \ {t} : th'[u] = th[u]
      BY <2>1 DEF Leave, IInv, TypeOK
    <2>7. \A u \in Threads : OnDuty(th'[u])
      BY <2>6 DEF Kept, OnDuty, IdleThread
    <2>8. ASSUME NEW a \in Blocks \ {b}, Awaited(a) PROVE Awaited(a)'
      <3>1. a \notin th[t].cur
        BY <2>1, <2>8 DEF IInv, ThreadOK
      <3> QED BY <2>6, <2>8, <3>1 DEF Awaited
    <2>9. \A a \in Blocks : blk'[a].w # "freed" /\ (Fetching(blk'[a]) => Awaited(a)')
      BY <2>4, <2>5, <2>8 DEF Kept, Fetching
    <2> QED BY <2>7, <2>9 DEF Kept
  <1> QED BY <1>2, <1>3

LEMMA FinishKept ==
    ASSUME IInv, Kept, NEW t \in Threads, Finish(t)
    PROVE  Kept'
  <1>1. \A b \in Blocks : blk'[b] = blk[b] \/ blk'[b] = Unlock(blk[b])
    BY DEF Finish
  <1>2. \A b \in Blocks : Follows(blk[b], blk'[b])
    BY <1>1, StepTypes, HoldFollows
  <1>3. Going(t)
    BY LeaveGoing DEF Finish, At, Serving, Pipeline
  <1> QED BY <1>2, <1>3, StillKept

-----------------------------------------------------------------------------
(* Steps of reclaim.                                                       *)
LEMMA ReapKept ==
    ASSUME IInv, Kept, NEW t \in Threads, NEW b \in Blocks,
           ReapAhead(t, b) \/ ReapForPage(t, b)
    PROVE  Kept'
  <1>1. blk' = [blk EXCEPT ![b] = Take(blk[b], t, "WB")] /\ th[t].pc \in Elsewhere
    BY DEF ReapAhead, ReapForPage, Reap, At, Elsewhere
  <1>2. Follows(blk[b], Take(blk[b], t, "WB"))
    BY StepTypes, HoldFollows
  <1>3. PICK s : s = [th[t] EXCEPT !.pc = "reap", !.vs = {b}, !.ret = th[t].pc]
    OBVIOUS
  <1>4. s.pc = "reap" /\ s.cur = th[t].cur /\ s.op = th[t].op /\ OnDuty(th[t])
    BY <1>3 DEF IInv, TypeOK, Thread, Kept
  <1>5. OnDuty(s)
    BY <1>4 DEF OnDuty
  <1>6. Serving(th[t]) # "map"
    BY <1>1 DEF Serving, Pipeline, Elsewhere
  <1>7. th' = [th EXCEPT ![t] = s]
    BY <1>3 DEF ReapAhead, ReapForPage, Reap
  <1>8. Going(t)
    BY <1>5, <1>6, <1>7, ThreadGoing
  <1> QED BY <1>1, <1>2, <1>8, OneKept

LEMMA ReapDoneKept ==
    ASSUME IInv, Kept, NEW t \in Threads, ReapDone(t)
    PROVE  Kept'
  <1>1. ASSUME NEW b \in Blocks PROVE Follows(blk[b], blk'[b])
    <2>1. blk'[b] \in {blk[b], set_gpa_remote(blk[b])}
      BY DEF ReapDone, Update
    <2>2. set_gpa_remote(blk[b]).w = "none"
      BY StepTypes DEF set_gpa_remote, Block
    <2> QED BY <2>1, <2>2 DEF Follows, Fetching
  <1>2. Going(t)
    BY GotoGoing DEF ReapDone, At, Pipeline
  <1> QED BY <1>1, <1>2, StillKept

LEMMA UpdateProactiveKept ==
    ASSUME IInv, Kept, NEW t \in Threads, UpdateProactive(t)
    PROVE  Kept'
  <1>1. \A b \in Blocks : blk'[b] \in {blk[b], Lift(blk[b], t),
                                       Clear(Take(blk[b], t, "TRANS_PL"), {"PROACTIVE"})}
    BY DEF UpdateProactive, Update
  <1>2. ASSUME NEW b \in Blocks PROVE Follows(blk[b], blk'[b])
    <2> DEFINE r == blk[b]
               k == Take(r, t, "TRANS_PL")
    <2>1. r \in Block
      BY StepTypes
    <2>2. Follows(r, k) /\ k \in Block
      BY <2>1, HoldFollows, LifecycleAssumption DEF Take, Block, States, Lists
    <2> HIDE DEF k
    <2>3. Follows(k, Clear(k, {"PROACTIVE"}))
      BY <2>2, MarkFollows
    <2>4. Follows(r, Lift(r, t)) /\ Follows(r, r)
      BY <2>1, HoldFollows
    <2>5. blk'[b] \in {r, Lift(r, t), Clear(k, {"PROACTIVE"})}
      BY <1>1 DEF k
    <2> QED BY <2>2, <2>3, <2>4, <2>5, FollowsTransitive
  <1>3. /\ th[t].pc \in Pipeline
        /\ \E p \in {"unpin", "demote"} : \E V, U : Scanned(t, p, V, U) /\ p \in Pipeline
    BY DEF UpdateProactive, At, Pipeline
  <1>4. Going(t)
    BY <1>3, ScannedGoing
  <1> QED BY <1>2, <1>4, StillKept

LEMMA UnpinVictimsKept ==
    ASSUME IInv, Kept, NEW t \in Threads, UnpinVictims(t)
    PROVE  Kept'
  <1>1. ASSUME NEW b \in Blocks PROVE Follows(blk[b], blk'[b])
    <2>1. blk'[b] = blk[b] \/ blk'[b] = Clear(Lift(blk[b], t), {"PINNED"})
      BY DEF UnpinVictims, Update
    <2> QED BY <2>1, StepTypes, LiftFollows, HoldFollows
  <1>2. /\ th[t].pc \in Pipeline
        /\ \E p \in {"active", "rescan"} : \E V, U : Scanned(t, p, V, U) /\ p \in Pipeline
    BY DEF UnpinVictims, At, Pipeline
  <1>3. Going(t)
    BY <1>2, ScannedGoing
  <1> QED BY <1>1, <1>3, StillKept

(* The blocks of a scan land where they belong.                            *)
LEMMA LandKept ==
    ASSUME IInv, Kept, NEW t \in Threads, MoveToPin(t) \/ Promote(t)
    PROVE  Kept'
  <1>1. ASSUME NEW b \in Blocks PROVE Follows(blk[b], blk'[b])
    <2> DEFINE e == check_eager_wbr(blk[b])
    <2>1. Follows(blk[b], e) /\ e \in Block /\ blk[b] \in Block /\ Follows(blk[b], blk[b])
      BY StepTypes, EagerFollows, HoldFollows
    <2>2. \/ blk'[b] = blk[b]
          \/ \E m \in BOOLEAN : \/ blk'[b] = Unlock(move_to_pin_list(blk[b], m))
                               \/ blk'[b] = Unlock(promote_gpas(blk[b], m))
                               \/ blk'[b] = Unlock(promote_gpas(e, m))
      BY DEF MoveToPin, Promote, Update
    <2> HIDE DEF e
    <2>3. ASSUME NEW c \in Block, Follows(blk[b], c), NEW m \in BOOLEAN
          PROVE  /\ Follows(blk[b], Unlock(move_to_pin_list(c, m)))
                 /\ Follows(blk[b], Unlock(promote_gpas(c, m)))
      <3>1. /\ Follows(c, move_to_pin_list(c, m)) /\ Follows(c, promote_gpas(c, m))
            /\ move_to_pin_list(c, m) \in Block /\ promote_gpas(c, m) \in Block
        BY MoveFollows, PinType, PromoteType
      <3>2. /\ Follows(move_to_pin_list(c, m), Unlock(move_to_pin_list(c, m)))
            /\ Follows(promote_gpas(c, m), Unlock(promote_gpas(c, m)))
        BY <3>1, HoldFollows
      <3> QED BY <2>3, <3>1, <3>2, FollowsTransitive
    <2> QED BY <2>1, <2>2, <2>3
  <1>2. \E U : th' = [th EXCEPT ![t].up = U]
    BY DEF MoveToPin, Promote
  <1>3. Going(t)
    BY <1>2, LandedGoing
  <1> QED BY <1>1, <1>3, StillKept

LEMMA DemoteKept ==
    ASSUME IInv, Kept, NEW t \in Threads, Demote(t)
    PROVE  Kept'
  <1>1. \A b \in Blocks : blk'[b] \in {blk[b], add_gpas_to_active_list(blk[b], "active")}
    BY DEF Demote, Update
  <1>2. \A b \in Blocks : Follows(blk[b], blk'[b])
    BY <1>1, StepTypes, ListFollows, HoldFollows
  <1>3. Going(t)
    BY GotoGoing DEF Demote, At, Pipeline
  <1> QED BY <1>2, <1>3, StillKept

LEMMA DemotedKept ==
    ASSUME IInv, Kept, NEW t \in Threads, Demoted(t) \/ Release(t)
    PROVE  Kept'
  <1>1. \A b \in Blocks : blk'[b] \in {blk[b], Unlock(blk[b])}
    BY DEF Demoted, Release, Update
  <1>2. \A b \in Blocks : Follows(blk[b], blk'[b])
    BY <1>1, StepTypes, HoldFollows
  <1>3. /\ \/ \E p \in {"active", "evict"} : \E V : GotoWith(t, p, V)
           \/ Return(t)
        /\ th[t].pc \in Pipeline /\ {"active", "evict"} \subseteq Pipeline \ {"error"}
    BY DEF Demoted, Release, At, Pipeline
  <1>4. Going(t)
    BY <1>3, GotoGoing, ReturnGoing
  <1> QED BY <1>2, <1>4, StillKept

LEMMA UpdateActiveKept ==
    ASSUME IInv, Kept, NEW t \in Threads, UpdateActive(t)
    PROVE  Kept'
  <1>1. \A b \in Blocks : blk'[b] \in {blk[b], Lift(blk[b], t), Clear(Lift(blk[b], t), {"PROMOTE"}),
                                       Take(blk[b], t, "TRANS_AL")}
    BY DEF UpdateActive, Update
  <1>2. ASSUME NEW b \in Blocks PROVE Follows(blk[b], blk'[b])
    BY <1>1, StepTypes, LiftFollows, HoldFollows
  <1>3. /\ th[t].pc \in Pipeline
        /\ \E p \in {"inactive", "unmap"} : \E V, U : Scanned(t, p, V, U) /\ p \in Pipeline
    BY DEF UpdateActive, At, Pipeline
  <1>4. Going(t)
    BY <1>3, ScannedGoing
  <1> QED BY <1>2, <1>4, StillKept

LEMMA UpdateInactiveKept ==
    ASSUME IInv, Kept, NEW t \in Threads, UpdateInactive(t)
    PROVE  Kept'
  <1>1. \A b \in Blocks : blk'[b] \in {blk[b], Lift(blk[b], t), Clear(Lift(blk[b], t), {"PROMOTE"}),
                                       Take(blk[b], t, "TRANS_IL")}
    BY DEF UpdateInactive, Update
  <1>2. ASSUME NEW b \in Blocks PROVE Follows(blk[b], blk'[b])
    BY <1>1, StepTypes, LiftFollows, HoldFollows
  <1>3. /\ th[t].pc \in Pipeline
        /\ \E p : /\ p \in {"evict", "proactive"} \/ p = th[t].ret
                  /\ \E V, U : Scanned(t, p, V, U)
        /\ {"evict", "proactive"} \subseteq Pipeline
    BY DEF UpdateInactive, At, Pipeline
  <1>4. Going(t)
    BY <1>3, ScannedGoing
  <1> QED BY <1>2, <1>4, StillKept

LEMMA UnmapVictimsKept ==
    ASSUME IInv, Kept, NEW t \in Threads, UnmapVictims(t)
    PROVE  Kept'
  <1>1. CASE UNCHANGED <<blk, th>>
    BY <1>1 DEF Kept, Awaited
  <1>2. CASE ~UNCHANGED <<blk, th>>
    <2>1. /\ \A b \in Blocks : blk'[b] \in {blk[b], Unmapped(blk[b])}
          /\ Goto(t, "eager") /\ th[t].pc \in Pipeline /\ "eager" \in Pipeline
      BY <1>2 DEF UnmapVictims, Update, Panic, At, Pipeline
    <2>2. \A b \in Blocks : Follows(blk[b], blk'[b])
      BY <2>1, StepTypes, UnmappedFollows, HoldFollows
    <2>3. Going(t)
      BY <2>1, GotoGoing
    <2> QED BY <2>2, <2>3, StillKept
  <1> QED BY <1>1, <1>2

(* Without failing donors the error path of evict_block() is not taken.    *)
LEMMA WriteEagerlyKept ==
    ASSUME IInv, Kept, ~DonorMayFail, NEW t \in Threads, WriteEagerly(t)
    PROVE  Kept'
  <1>1. /\ \A b \in Blocks : blk'[b] \in {blk[b], Unlock(eager_evict(blk[b])), Unlock(blk[b])}
        /\ \/ th[t].op = "dontneed" /\ Leave(t)
           \/ GotoWith(t, "inactive", {})
    BY DEF WriteEagerly, Update
  <1>2. ASSUME NEW b \in Blocks
        PROVE  \/ Follows(blk[b], blk'[b])
               \/ blk'[b].w # "freed" /\ (Fetching(blk'[b]) => Awaited(b)')
    <2>1. Follows(blk[b], Unlock(blk[b])) /\ Follows(blk[b], blk[b])
      BY StepTypes, HoldFollows
    <2>2. Unlock(eager_evict(blk[b])).w \in {"eager", "writeback"}
      BY StepTypes, WriteFollows
    <2> QED BY <1>1, <2>1, <2>2 DEF Fetching
  <1>3. Going(t)
    <2>1. CASE th[t].op = "dontneed" /\ Leave(t)
      <3>1. th[t].cur = {}
        BY <2>1 DEF Kept, OnDuty
      <3> QED BY <2>1, <3>1, LeaveGoing
    <2>2. CASE GotoWith(t, "inactive", {})
      <3>1. th[t].pc \in Pipeline /\ "inactive" \in Pipeline
        BY DEF WriteEagerly, At, Pipeline
      <3> QED BY <2>2, <3>1, GotoGoing
    <2> QED BY <1>1, <2>1, <2>2
  <1> QED BY <1>2, <1>3, StillKept

LEMMA EvictKept ==
    ASSUME IInv, Kept, NEW t \in Threads, NEW b \in Blocks, EvictClean(t, b) \/ EvictPost(t, b)
    PROVE  Kept'
  <1> DEFINE e == check_eager_wbr(blk[b])
             a == AfterNeedCheck(e)
  <1>1. e \in Block
    BY StepTypes, EagerFollows
  <1>2. \E s \in {set_gpa_remote(e), Unlock(writeback_evict(a))} :
           blk' = [blk EXCEPT ![b] = s]
    BY DEF EvictClean, EvictPost
  <1>3. a \in Block
    BY <1>1 DEF AfterNeedCheck, Clear, Block, Flags
  <1> HIDE DEF e, a
  <1>4. set_gpa_remote(e).w = "none"
    BY <1>1 DEF set_gpa_remote, Block
  <1>5. Unlock(writeback_evict(a)).w \in {"eager", "writeback"}
    BY <1>3, WriteFollows
  <1>6. Going(t)
    <2>1. CASE EvictClean(t, b)
      BY <2>1, GotoGoing DEF EvictClean, At, Pipeline
    <2>2. CASE EvictPost(t, b)
      BY <2>2, EvictedGoing DEF EvictPost, At
    <2> QED BY <2>1, <2>2
  <1> QED BY <1>2, <1>4, <1>5, <1>6, OneKept

-----------------------------------------------------------------------------
(* Hints, the memory and the device.                                       *)
LEMMA HintKept ==
    ASSUME IInv, Kept, NEW t \in Threads, NEW b \in Blocks,
           Pin(t, b) \/ Unpin(t, b) \/ Prefetch(t, b)
    PROVE  Kept'
  <1> DEFINE r == blk[b]
             c == Clear(r, {"PINNED"})
  <1>1. \E s \in {Set(r, {"PINNED"}), Set(r, {"PINNED", "PROMOTE"}), Set(r, {"PROMOTE"}),
                  c, Relist(c, "proactive"), Lock(r, t)} : blk' = [blk EXCEPT ![b] = s]
    BY DEF Pin, Unpin, Prefetch
  <1>2. r \in Block /\ c \in Block
    BY StepTypes DEF Clear, Block, Flags
  <1>3. Follows(r, c)
    BY <1>2, MarkFollows
  <1> HIDE DEF c
  <1>4. Follows(c, Relist(c, "proactive"))
    BY <1>2, HoldFollows
  <1>5. /\ Follows(r, Relist(c, "proactive")) /\ Follows(r, Lock(r, t))
        /\ \A F : Follows(r, Set(r, F))
    BY <1>2, <1>3, <1>4, HoldFollows, MarkFollows, FollowsTransitive
  <1>6. UNCHANGED th \/ (Enter(t, "alloc", "prefetch", b) /\ th[t].pc = "idle")
    BY DEF Pin, Unpin, Prefetch, At
  <1>7. Going(t)
    BY <1>6, StayGoing, EnterGoing
  <1> QED BY <1>1, <1>3, <1>5, <1>7, OneKept

LEMMA DontNeedKept ==
    ASSUME IInv, Kept, NEW t \in Threads, NEW b \in Blocks, DontNeed(t, b)
    PROVE  Kept'
  <1> DEFINE r == Clear(blk[b], {"PROMOTE", "PINNED"})
             k == Take(r, t, "TRANS_AL")
             s == Clear(k, {"PROACTIVE"})
             d == [IdleThread EXCEPT !.pc = "unmap", !.op = "dontneed", !.vs = {b}]
  <1>1. \E x \in {r, s} : blk' = [blk EXCEPT ![b] = x]
    BY DEF DontNeed
  <1>2. Follows(blk[b], r) /\ r \in Block
    BY StepTypes, MarkFollows DEF Clear, Block, Flags
  <1> HIDE DEF r
  <1>3. Follows(r, k) /\ k \in Block
    BY <1>2, HoldFollows, LifecycleAssumption DEF Take, Block, States, Lists
  <1> HIDE DEF k
  <1>4. Follows(k, s)
    BY <1>3, MarkFollows
  <1> HIDE DEF s
  <1>5. UNCHANGED th \/ th' = [th EXCEPT ![t] = d]
    BY DEF DontNeed
  <1>6. OnDuty(d)
    BY DEF OnDuty, IdleThread
  <1>7. Serving(th[t]) # "map"
    BY DEF DontNeed, At, Serving, Pipeline
  <1> HIDE DEF d
  <1>8. Going(t)
    BY <1>5, <1>6, <1>7, StayGoing, ThreadGoing
  <1>9. Follows(blk[b], s)
    BY <1>2, <1>3, <1>4, FollowsTransitive
  <1> QED BY <1>1, <1>2, <1>8, <1>9, OneKept

LEMMA MemoryKept ==
    ASSUME IInv, Kept, NEW b \in Blocks, Write(b) \/ CompleteIO(b)
    PROVE  Kept'
  <1>1. ASSUME NEW a \in Blocks PROVE blk'[a].w = blk[a].w /\ blk'[a].flags = blk[a].flags
    <2>1. blk[a] \in Block /\ blk \in [Blocks -> Block]
      BY DEF IInv, TypeOK
    <2>2. CASE Write(b)
      BY <2>1, <2>2 DEF Write, Block
    <2>3. CASE CompleteIO(b)
      BY <2>1, <2>3 DEF CompleteIO, Block
    <2> QED BY <2>2, <2>3
  <1>2. UNCHANGED th
    BY DEF Write, CompleteIO
  <1> QED BY <1>1, <1>2 DEF Kept, Awaited, Fetching, Has

-----------------------------------------------------------------------------
DonorsHold == ~DonorMayFail /\ "populate" \notin Ops

LEMMA WorkKept ==
    ASSUME IInv, Kept, DonorsHold, NEW t \in Threads, Work(t)
    PROVE  Kept'
  <1>1. CASE \E b \in Blocks :
                \/ FaultActive(t, b) \/ FaultInactive(t, b) \/ FaultWriteback(t, b)
                \/ FaultInvalid(t, b) \/ FaultRemote(t, b) \/ Fetch(t, b) \/ MapBlock(t, b)
                \/ EvictClean(t, b) \/ EvictPost(t, b) \/ EvictFail(t, b)
                \/ ReapForPage(t, b)
    <2>1. ASSUME NEW b \in Blocks, FaultInvalid(t, b) PROVE Kept'
      BY <2>1 DEF FaultInvalid, Panic, Kept, Awaited
    <2>2. ASSUME NEW b \in Blocks, FaultRemote(t, b) PROVE Kept'
      <3>1. Going(t)
        BY <2>2, GotoGoing DEF FaultRemote, At, Elsewhere
      <3> QED BY <2>2, <3>1, StillKept DEF FaultRemote, Follows
    <2>3. ASSUME NEW b \in Blocks PROVE ~EvictFail(t, b)
      BY DEF EvictFail, DonorsHold
    <2> QED BY <1>1, <2>1, <2>2, <2>3, FaultActiveKept, FaultInactiveKept, FaultWritebackKept,
               FetchKept, MapBlockKept, EvictKept, ReapKept
  <1>2. CASE AllocReclaim(t)
    <2>1. Going(t)
      BY <1>2, CallGoing DEF AllocReclaim, At, Elsewhere
    <2> QED BY <1>2, <2>1, StillKept DEF AllocReclaim, Follows
  <1>3. CASE SkipProactive(t) \/ SkipUnpin(t) \/ SkipActive(t) \/ SkipInactive(t)
    <2>1. /\ Goto(t, "active") \/ Goto(t, "inactive") \/ Return(t)
          /\ th[t].pc \in Pipeline /\ {"active", "inactive"} \subseteq Pipeline
      BY <1>3 DEF SkipProactive, SkipUnpin, SkipActive, SkipInactive, At, Pipeline
    <2>2. Going(t)
      BY <2>1, GotoGoing, ReturnGoing
    <2>3. UNCHANGED blk
      BY <1>3 DEF SkipProactive, SkipUnpin, SkipActive, SkipInactive
    <2> QED BY <2>2, <2>3, StillKept DEF Follows
  <1>4. CASE ReapDone(t) \/ Finish(t)
    BY <1>4, ReapDoneKept, FinishKept
  <1>5. CASE Fail(t)
    BY <1>5 DEF Fail, At, Kept, OnDuty
  <1>6. CASE \/ UpdateProactive(t) \/ UnpinVictims(t) \/ Demote(t) \/ Demoted(t)
             \/ MoveToPin(t) \/ Promote(t) \/ Release(t)
    BY <1>6, UpdateProactiveKept, UnpinVictimsKept, DemoteKept, DemotedKept, LandKept
  <1>7. CASE UpdateActive(t) \/ UnmapVictims(t) \/ WriteEagerly(t) \/ UpdateInactive(t)
    BY <1>7, UpdateActiveKept, UnmapVictimsKept, WriteEagerlyKept, UpdateInactiveKept
       DEF DonorsHold
  <1>8. CASE \E c \in Counters : AdjustLength(t, c)
    BY <1>8 DEF AdjustLength, Kept, Awaited
  <1> QED BY <1>1, <1>2, <1>3, <1>4, <1>5, <1>6, <1>7, <1>8 DEF Work

LEMMA SyscallKept ==
    ASSUME IInv, Kept, DonorsHold, NEW t \in Threads, Syscall(t)
    PROVE  Kept'
  <1>1. ASSUME NEW b \in Blocks PROVE ~Populate(t, b)
    BY DEF Populate, DonorsHold
  <1> QED BY <1>1, FaultLockKept, ReapKept, HintKept, DontNeedKept DEF Syscall

LEMMA NextKept ==
    ASSUME IInv, Kept, DonorsHold, [Next]_vars
    PROVE  Kept'
  <1>1. CASE \E t \in Threads : Work(t) \/ Syscall(t)
    BY <1>1, WorkKept, SyscallKept
  <1>2. CASE \E b \in Blocks : Write(b) \/ CompleteIO(b)
    BY <1>2, MemoryKept
  <1>3. CASE Halted \/ UNCHANGED vars
    BY <1>3 DEF Halted, vars, Kept, Awaited
  <1> QED BY <1>1, <1>2, <1>3 DEF Next

LEMMA InitKept ==
    ASSUME Init
    PROVE  Kept
  BY DEF Init, NewBlock, IdleThread, Kept, OnDuty, Fetching

LEMMA KindFollows ==
    ASSUME IInv, AllStored, Kept
    PROVE  RequestOfItsKind
  <1>1. SUFFICES ASSUME NEW b \in Blocks, Free(b)
                 PROVE  blk[b].w = CASE Has(blk[b], "EAGER_WBR") -> "eager"
                                     [] blk[b].state = "WB" -> "writeback"
                                     [] OTHER -> IF blk[b].w = "fetch" /\ Has(blk[b], "PREFETCHED")
                                                 THEN "fetch" ELSE "none"
    BY DEF RequestOfItsKind
  <1>2. blk[b].w \in {"none", "fetch", "writeback", "eager"} /\ OfKind(blk[b])
    BY StepTypes DEF Block, Requests, Kept, AllStored, Stored
  <1>3. ~Awaited(b)
    BY <1>1, LifecycleAssumption DEF Free, Awaited, IInv, ThreadOK, Hands
  <1>4. blk[b].w = "fetch" => Has(blk[b], "PREFETCHED")
    BY <1>3 DEF Kept, Fetching
  <1>5. CASE Has(blk[b], "EAGER_WBR")
    BY <1>2, <1>5 DEF OfKind
  <1>6. CASE ~Has(blk[b], "EAGER_WBR") /\ blk[b].state = "WB"
    BY <1>2, <1>6 DEF OfKind
  <1>7. CASE ~Has(blk[b], "EAGER_WBR") /\ blk[b].state # "WB"
    BY <1>2, <1>4, <1>7 DEF OfKind
  <1> QED BY <1>5, <1>6, <1>7

(* As long as donors do not fail and nobody populates, @w of a block that  *)
(* nobody holds is what __clear_block_w() takes it for: an eager writeback *)
(* under GPA_EAGER_WBR_MASK, the writeback in state GPA_WB, or a fetch     *)
(* with the prefetch mark set.                                             *)
THEOREM RequestsKeepTheirKind ==
    ASSUME ~DonorMayFail, "populate" \notin Ops
    PROVE  Spec => []RequestOfItsKind
  <1>1. Init => Kept
    BY InitKept
  <1>2. IInv /\ Kept /\ [Next]_vars => Kept'
    BY NextKept DEF DonorsHold
  <1>3. IInv /\ AllStored /\ Kept => RequestOfItsKind
    BY KindFollows
  <1>4. Spec => [](IInv /\ Kept)
    BY <1>1, <1>2, Inductive, PTL DEF Spec
  <1>5. EvictionsWrite
    BY DEF EvictionsWrite
  <1> QED BY <1>3, <1>4, <1>5, WritesInductive, PTL
=============================================================================
