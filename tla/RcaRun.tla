------------------------------- MODULE RcaRun -------------------------------
(***************************************************************************)
(* What _run_rca promises to the worker that calls it: the analysis of a   *)
(* job is tried at most twice, and gives a result or an error.             *)
(***************************************************************************)
EXTENDS Naturals

CONSTANT Workers

VARIABLES
    run,      \* "idle" before the first job; "result" or "failed" after one
    attempt   \* the attempt that runs or has run

vars == <<run, attempt>>

Init == run = [w \in Workers |-> "idle"] /\ attempt = [w \in Workers |-> 1]

Set(w, r, n) ==
    run' = [run EXCEPT ![w] = r] /\ attempt' = [attempt EXCEPT ![w] = n]

(* The worker turns to a job. *)
Start(w) == run[w] # "running" /\ Set(w, "running", 1)

(* An attempt failed, and it was the first. *)
Retry(w) == run[w] = "running" /\ attempt[w] = 1 /\ Set(w, "running", 2)

(* Either attempt may succeed; only the second one fails the job. *)
Succeed(w) == run[w] = "running" /\ Set(w, "result", attempt[w])
Fail(w)    == run[w] = "running" /\ attempt[w] = 2 /\ Set(w, "failed", 2)

Goes(w) == Retry(w) \/ Succeed(w) \/ Fail(w)

Next == \E w \in Workers : Start(w) \/ Goes(w)

Spec == Init /\ [][Next]_vars

=============================================================================
