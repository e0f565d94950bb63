---------------------------- MODULE ReportFacts -----------------------------
(***************************************************************************)
(* What the report takes from the bundle itself (app/agents/report_llm.py):*)
(* service_liveness, for the prompt, and the numbers of errors with which  *)
(* assemble replaces those of the LLM.  The items are the lines of the log;*)
(* the context is [intervals, drafted]: the intervals of modalityInfo,     *)
(* [modality, service, status], and impact.affected as drafted by the LLM, *)
(* [service, errors].                                                      *)
(***************************************************************************)
EXTENDS LogDigest

CONSTANT Norm \* _norm_service, as a function on the names that occur

ASSUME IntervalsType ==
    "report" \in DOMAIN Contexts =>
        \A c \in Contexts["report"] :
            /\ Len(c.intervals) \in Nat /\ DOMAIN c.intervals = 1..Len(c.intervals)
            /\ Len(c.drafted) \in Nat /\ DOMAIN c.drafted = 1..Len(c.drafted)

VARIABLES
    liveness, \* service -> modality -> status
    affected  \* impact.affected

reportVars == <<liveness, affected>>

InitReport == liveness = <<>> /\ affected = <<>>

LIVENESS_RANK(status) ==
    CASE status = "data" -> 3 [] status = "empty" -> 2 [] status = "missing" -> 1 [] OTHER -> 0

(* Mutant of Observed: the last interval decides. *)
Observed_Last(seen, iv) == Put(seen, iv.modality, iv.status)

(* The stronger signal stays; an unknown status is none. *)
Observed(seen, iv) ==
    LET old == IF iv.modality \in DOMAIN seen THEN LIVENESS_RANK(seen[iv.modality]) ELSE 0
    IN IF LIVENESS_RANK(iv.status) > old THEN Put(seen, iv.modality, iv.status) ELSE seen

(* for iv in detail.intervals *)
Observe ==
    /\ pc = "read" /\ input.reader = "report" /\ next \in DOMAIN input.context.intervals
    /\ LET iv == input.context.intervals[next]
           seen == IF iv.service \in DOMAIN liveness THEN liveness[iv.service] ELSE <<>>
       IN liveness' = Put(liveness, iv.service, Observed(seen, iv))
    /\ next' = next + 1
    /\ UNCHANGED <<pc, input, groups, rows, window, affected>>

-----------------------------------------------------------------------------
(* service_error_counts has the services with an error, only. *)
ErrorLines(s) == {i \in Items : Item(i).service = s /\ LEVEL_ORDER(Item(i).level) = 0}

Counted == {s \in {Item(i).service : i \in Items} : ErrorLines(s) # {}}

(* The services that a name of the LLM may mean; where several do, the one *)
(* that was counted last remains in the dict.                              *)
Meant(name) == {s \in Counted : Norm[s] = Norm[name]}

LastCounted(S) ==
    CHOOSE s \in S : \A o \in S : Min(ErrorLines(o)) <= Min(ErrorLines(s))

Filled(a) ==
    IF Meant(a.service) = {} THEN a
    ELSE [a EXCEPT !.errors = Cardinality(ErrorLines(LastCounted(Meant(a.service))))]

(* assemble *)
Assemble ==
    /\ pc = "read" /\ input.reader = "report" /\ next \notin DOMAIN input.context.intervals
    /\ affected' = [n \in DOMAIN input.context.drafted |-> Filled(input.context.drafted[n])]
    /\ pc' = "done"
    /\ UNCHANGED <<input, next, groups, rows, window, liveness>>

=============================================================================
