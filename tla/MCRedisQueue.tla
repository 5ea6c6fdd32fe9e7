---------------------------- MODULE MCRedisQueue ----------------------------
(* Instances of RedisQueue for TLC; see the .cfg files of the same prefix. *)
EXTENDS RedisQueue, TLC

Symmetry == Permutations(Messages) \cup Permutations(Tasks)
=============================================================================
