---------------------------- MODULE MCAiBackend ----------------------------
(* Small instances of AiBackend for TLC. *)
EXTENDS AiBackend

(* Every job is its own incident. *)
OwnKey  == [j \in Jobs |-> j]
JobKeys == Jobs
=============================================================================
