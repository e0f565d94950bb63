---------------------------- MODULE SpringClient ----------------------------
(***************************************************************************)
(* The outgoing POST of app/services/spring_client.py and, as far as it    *)
(* relies on them, the answers of the Spring service.  What a POST meets:  *)
(*   "answered"      Spring handles the request and its answer arrives     *)
(*   "lost"          Spring handles the request, the answer never arrives  *)
(*   "down"          5xx, connection refused, timeout, or an exception     *)
(*                   before anything was sent: nothing is stored           *)
(*   "unauthorized"  401: the shared secrets differ; nothing is stored     *)
(***************************************************************************)
EXTENDS Pipeline

(* What sending job j may meet.  _result_payload and _failure_payload raise *)
(* for some signals (signal_selector.py: SignalSelector), every time.      *)
Meets(j, signals) ==
    IF signals /\ j \in Unbuildable THEN {"down"} ELSE SpringAnswers

(* Spring keeps the first report of a triggerTime and answers 409 to any   *)
(* later one; a payload it refuses is never stored.                        *)
Handled(j, kind) ==
    LET k == TriggerTime[j] IN
    IF j \notin BadPayload /\ spring[k] = NoReport
    THEN [spring EXCEPT ![k] = [kind |-> kind, job |-> j]]
    ELSE spring

Store(j, kind, answer) ==
    spring' = IF answer \in {"answered", "lost"} THEN Handled(j, kind) ELSE spring

(* Mutants of Verdict: a timeout taken for a delivery; a 409 taken for a   *)
(* refusal.                                                                *)
Verdict_TimeoutIsOk(j, answer) ==
    CASE answer = "answered"     -> IF j \in BadPayload THEN "permanent" ELSE "ok"
      [] answer = "unauthorized" -> "permanent"
      [] OTHER                   -> "ok"

Verdict_ConflictRefused(j, answer) ==
    CASE answer = "answered"     -> IF j \in BadPayload \/ spring[TriggerTime[j]] # NoReport
                                    THEN "permanent" ELSE "ok"
      [] answer = "unauthorized" -> "permanent"
      [] OTHER                   -> "transient"

(* _post: 2xx and 409 return, 401 and other 4xx raise                      *)
(* DeliveryPermanentError, a 5xx raises DeliveryTransientError and a       *)
(* network error propagates.  The callers take any other exception for a   *)
(* transient failure, also one of the assembly of the payload.             *)
Verdict(j, answer) ==
    CASE answer = "answered"     -> IF j \in BadPayload THEN "permanent" ELSE "ok"
      [] answer = "unauthorized" -> "permanent"
      [] OTHER                   -> "transient"

=============================================================================
