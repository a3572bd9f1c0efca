--------------------------- MODULE MCRemotePages ---------------------------
(* Small instances of RemotePages for TLC.                                 *)
EXTENDS RemotePages, TLC

MCSymmetry == Permutations(Threads) \cup Permutations(Cows) \cup Permutations(Blocks)

(* Three slots for the four subblocks of two blocks: the donors run full.  *)
MCSize == [m \in 0 .. Mrs - 1 |-> 2 - m]

(* One donor with three slots: with Mrs = 1 in RemoteContended.cfg, where  *)
(* RoomIsFound does not hold (README, further divergences).                *)
MCOneRegion == [m \in 0 .. Mrs - 1 |-> 3]

MCConfigs == [policy : Policies, policy_block : {2}, reuse : BOOLEAN]
=============================================================================
