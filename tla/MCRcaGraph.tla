----------------------------- MODULE MCRcaGraph -----------------------------
(* An instance of RcaGraph for TLC. *)
EXTENDS RcaGraph

(* One bundle that calls every agent, with one modality triggered and one  *)
(* not; one with a modality that is empty although it was triggered.       *)
SomeBundles == {[items |-> {"log", "trace"}, triggered |-> {"log"}],
                [items |-> {"trace"},        triggered |-> {"log"}]}

=============================================================================
