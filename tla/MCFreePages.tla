---------------------------- MODULE MCFreePages ----------------------------
(* Small instances of FreePages for TLC.                                   *)
EXTENDS FreePages, TLC

CONSTANTS t1, t2, t3

(* One cpu for all threads, or another one for t2.                         *)
OneCpu == t1 :> 1 @@ t2 :> 1 @@ t3 :> 1
TwoCpus == t1 :> 1 @@ t2 :> 2 @@ t3 :> 1

(* Two threads and everything that can fail: a cache too small for two     *)
(* blocks, or with room for two private copies.                            *)
Mishaps == {"kill", "oom", "evict"}
Tight(cpus) == [threads |-> {t1, t2}, cpu |-> cpus, caches |-> {1, 3},
                ops |-> {"fetch", "free"} \cup Mishaps]
Roomy == [threads |-> {t1, t2}, cpu |-> OneCpu, caches |-> {5},
          ops |-> {"fetch", "copy"} \cup Mishaps]

(* Three threads on one cpu: a page for each is all that LOCAL_CACHE_MAX   *)
(* has.                                                                    *)
Crowded == [threads |-> Threads, cpu |-> OneCpu, caches |-> {1}, ops |-> {"fetch", "free"}]

PageConfigs == {Tight(OneCpu), Tight(TwoCpus), Roomy, Crowded}
=============================================================================
