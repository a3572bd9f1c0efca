---------------------------- MODULE MCBlockLocks ----------------------------
(* Small instances of BlockLocks for TLC.                                  *)
EXTENDS BlockLocks, TLC

MCWidth == [o \in 0 .. MaxOrder |-> 2 ^ o]
MCSubs == 0 .. 2 ^ MaxOrder - 1

(* Pointers into a group are rounded down to a multiple of the block.      *)
MCHead == [o \in 0 .. MaxOrder |-> [s \in MCSubs |-> s - (s % (2 ^ o))]]

CONSTANTS t1, t2, v1, v2

(* Elastic blocks and new groups; hints and one writer after a fork; two   *)
(* writers of the same view.                                               *)
Elastic == [views |-> {v1}, shared |-> FALSE, at |-> {0, 3},
            ops |-> {"fault", "evict"}, writers |-> {}]
Forked == [views |-> {v1, v2}, shared |-> TRUE, at |-> {0, 3},
           ops |-> {"hint"}, writers |-> {t1}]
MCConfigs == {Elastic, Forked}
MCWriters == {[Forked EXCEPT !.ops = {}, !.at = MCSubs, !.writers = {t1, t2}]}

MCSymmetry == Permutations(Groups)
=============================================================================
