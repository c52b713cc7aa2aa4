------------------------------ MODULE MCPosixIo ------------------------------
(* Two threads: with descriptors of their own, or sharing a table. *)
EXTENDS PosixIo, TLC

MCOwn == [t \in Threads |-> t]
MCShared == [t \in Threads |-> CHOOSE u \in Threads : TRUE]
Symmetry == Permutations(Threads)
=============================================================================
