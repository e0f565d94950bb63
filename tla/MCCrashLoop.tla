---------------------------- MODULE MCCrashLoop ----------------------------
(* A small instance of CrashLoop for TLC. *)
EXTENDS CrashLoop, TLC

OwnKey  == [j \in Jobs |-> j]
JobKeys == Jobs

WorkerSymmetry == Permutations(Workers)
=============================================================================
