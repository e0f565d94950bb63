--------------------------- MODULE RawNormalizer ----------------------------
(***************************************************************************)
(* normalize_payload_signals (app/services/raw_normalizer.py): what Spring *)
(* is sent for the raw line of an item.  Beyond what the selector reads,   *)
(* an item has ("none": the key is missing)                                *)
(*   log     levelKey, the value of its level key; message: it has a       *)
(*           message key; word: the first level word in that message       *)
(*   metric  label: the first label key of a JSON line with both a label   *)
(*           key and a value key                                           *)
(*   trace   status, code: the status keys; endless: an infinite duration  *)
(***************************************************************************)
EXTENDS SignalSelector

(* span_fields: the status, and without one the code.                      *)
is_err(status, code) == status = "ERROR" \/ (status \in {"none", ""} /\ code = "500")

ASSUME ErrType ==
    "trace" \in DOMAIN Entries =>
        \A S \in Entries["trace"] : \A e \in S : e.err = is_err(e.status, e.code)

(* Mutant of normalize_log: without a level key there is no level. *)
normalize_log_KeyOnly(line) ==
    [level |-> IF line.levelKey # "none" THEN line.levelKey ELSE "",
     msg   |-> IF line.message THEN "message" ELSE "raw"]

(* The whole line where there is no message; and where there is no level,  *)
(* the first one that is found in what is sent.                            *)
normalize_log(line) ==
    LET found == IF line.message THEN line.word ELSE line.level
    IN [level |-> IF line.levelKey \notin {"none", ""} THEN line.levelKey
                  ELSE IF found = "-" THEN "" ELSE found,
        msg   |-> IF line.message THEN "message" ELSE "raw"]

normalize_metric(point) ==
    [label |-> IF point.label # "none" THEN point.label
               ELSE IF point.parsed THEN point.key ELSE "",
     value |-> point.value]

(* A duration that is no number is sent as none. *)
normalize_trace(span) ==
    [status   |-> IF span.status # "none" THEN span.status
                  ELSE IF span.code # "none" THEN span.code ELSE "",
     duration |-> IF span.bad THEN "none" ELSE "number"]

Normal(raw) ==
    CASE input.modality = "log"    -> normalize_log(raw)
      [] input.modality = "metric" -> normalize_metric(raw)
      [] input.modality = "trace"  -> normalize_trace(raw)

(* int(float(v)) of an infinite duration is an OverflowError, which is not *)
(* among those that are caught.                                            *)
Overflows(raw) == input.modality = "trace" /\ raw.endless

=============================================================================
