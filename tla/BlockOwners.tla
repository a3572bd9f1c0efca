---------------------------- MODULE BlockOwners ----------------------------
(***************************************************************************)
(* What emp_lock_block() promises its callers, without orders, heads or    *)
(* lock words: the subblocks a thread works on are its own.  It takes only *)
(* subblocks that nobody else has, and nobody else gives them up.          *)
(***************************************************************************)
CONSTANTS Threads, Descs

VARIABLE owns  \* the subblocks each thread has to itself

Init == owns = [t \in Threads |-> {}]

OthersKeep(t) == owns' = [owns EXCEPT ![t] = owns'[t]]

Acquire(t) ==
    /\ owns[t] \subseteq owns'[t] /\ owns'[t] \subseteq Descs
    /\ \A u \in Threads \ {t} : owns'[t] \cap owns[u] = {}
    /\ OthersKeep(t)

Release(t) == owns'[t] \subseteq owns[t] /\ OthersKeep(t)

Next == \E t \in Threads : Acquire(t) \/ Release(t)

Spec == Init /\ [][Next]_owns

Exclusive == \A t, u \in Threads : t # u => owns[t] \cap owns[u] = {}
=============================================================================
