------------------------------ MODULE CrashLoop ------------------------------
(***************************************************************************)
(* AiBackend with a history variable that counts the crashes in the middle *)
(* of an attempt at a job: a worker held it, and its outcome was not yet   *)
(* committed, so the next start runs the job again.                        *)
(***************************************************************************)
EXTENDS AiBackend

VARIABLE cut    \* per job, the attempts a crash cut short, by its status then

Attempted(j, s) == status[j] = s /\ \E w \in Workers : wjob[w] = j

CountCuts ==
    cut' = IF ~Crash THEN cut
           ELSE [j \in Jobs |-> [s \in {"PENDING", "RUNNING"} |->
                    IF Attempted(j, s) THEN cut[j][s] + 1 ELSE cut[j][s]]]

InitCut == Init /\ cut = [j \in Jobs |-> [s \in {"PENDING", "RUNNING"} |-> 0]]
SpecCut == InitCut /\ [][Next /\ CountCuts]_<<vars, cut>>

(* A job whose analysis crashes the process time and again gets one first  *)
(* attempt and MaxRequeue more (stuck_job_reaper.py lines 10-12), however  *)
(* the start-up recovery and the workers interleave.                       *)
AnalysisCrashesBounded == \A j \in Jobs : cut[j]["RUNNING"] <= MaxRequeue + 1

(* The same lines promise it of every crash loop: also of one that crashes *)
(* while the worker still restores the bundle.                             *)
CrashLoopBounded ==
    \A j \in Jobs : cut[j]["PENDING"] + cut[j]["RUNNING"] <= MaxRequeue + 1

=============================================================================
