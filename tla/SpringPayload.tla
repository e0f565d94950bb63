--------------------------- MODULE SpringPayload ----------------------------
(***************************************************************************)
(* What SpringClient posts for a job (_result_payload, _failure_payload):  *)
(* the signals of a modality are selected (SignalSelector), the evidence   *)
(* gets a note of how many are carried, and times and raw lines get the    *)
(* form that Spring reads.  A job whose post did not succeed is posted     *)
(* again, by the reconciler, and then all of this is done again.           *)
(***************************************************************************)
EXTENDS RawNormalizer

CONSTANTS
    Zones,   \* per modality, the zones of the times: sequences of [naive, off]
    MaxSends \* bound: how often a job is posted

(* A time without a zone is UTC. *)
ASSUME ZonesType ==
    \A m \in DOMAIN Entries :
        Zones[m] \subseteq Seq({z \in [naive : BOOLEAN, off : Int] : z.naive => z.off = 0})

VARIABLES
    kind,     \* "DONE": save_result, "FAILED": save_failure
    zones,    \* of the times of the items
    stored,   \* evidence.source of the result in the database, as its parts
    stage,    \* "select", "stamp", "normalize", "post"
    payload,  \* [items, source]
    attempts  \* what became of each sending: [raised, payload]

payloadVars == <<kind, zones, stored, stage, payload, attempts>>
allVars == <<vars, payloadVars>>

NoPayload == [items |-> <<>>, source |-> <<>>]

(* Which points have a zone that the trigger, naive or not, has not.       *)
ZonesTell(naive) ==
    \A i \in Items : Item(i).parsed => (Item(i).bad <=> zones[i].naive # naive)

InitPayload ==
    /\ Init
    /\ kind \in {"DONE", "FAILED"}
    /\ zones \in {z \in Zones[input.modality] : Len(z) = Len(input.times)}
    /\ input.modality = "metric" => \E naive \in BOOLEAN : ZonesTell(naive)
    /\ stored = <<"agent">>
    /\ stage = "select" /\ payload = NoPayload /\ attempts = <<>>

(* A time as it was collected: input.times says when that is, in UTC. *)
Collected(i) ==
    [naive |-> zones[i].naive, off |-> zones[i].off, wall |-> input.times[i] + zones[i].off]

Carried(i) == [stamp |-> Collected(i), raw |-> Item(i)]

UTC(wall) == [naive |-> FALSE, off |-> 0, wall |-> wall]

(* Mutant of to_spring_ts: every time is taken for UTC. *)
to_spring_ts_NoZone(t) == UTC(t.wall)

(* No zone is UTC; any other is converted. *)
to_spring_ts(t) == UTC(IF t.naive THEN t.wall ELSE t.wall - t.off)

(* _apply_selection *)
Select ==
    /\ stage = "select" /\ pc \notin {"done", "raised"}
    /\ Len(attempts) < MaxSends
    /\ Next
    /\ UNCHANGED payloadVars

(* How many signals are carried, and of how many; nothing where there are  *)
(* none.                                                                   *)
Note ==
    IF Items = {} THEN <<>>
    ELSE <<[total |-> Cardinality(Items), carried |-> Len(picked)]>>

(* Mutant of Annotate: the note is written into the stored result. *)
Annotate_Stored ==
    /\ stage = "select" /\ pc = "done"
    /\ stored' = IF kind = "DONE" THEN stored \o Note ELSE stored
    /\ payload' = [items |-> [n \in DOMAIN picked |-> Carried(picked[n])],
                   source |-> IF kind = "DONE" THEN stored' ELSE <<>>]
    /\ stage' = "stamp"
    /\ UNCHANGED <<vars, kind, zones, attempts>>

(* _annotate_sources, on a copy of the result; a failure has none. *)
Annotate ==
    /\ stage = "select" /\ pc = "done"
    /\ payload' = [items |-> [n \in DOMAIN picked |-> Carried(picked[n])],
                   source |-> IF kind = "DONE" THEN stored \o Note ELSE <<>>]
    /\ stage' = "stamp"
    /\ UNCHANGED <<vars, kind, zones, stored, attempts>>

InUTC(signal)    == [signal EXCEPT !.stamp = to_spring_ts(@)]
InFields(signal) == [signal EXCEPT !.raw = Normal(@)]

(* _normalize_timestamps *)
Stamp ==
    /\ stage = "stamp"
    /\ payload' = [payload EXCEPT !.items = [n \in DOMAIN @ |-> InUTC(@[n])]]
    /\ stage' = "normalize"
    /\ UNCHANGED <<vars, kind, zones, stored, attempts>>

(* normalize_payload_signals *)
Normalize ==
    /\ stage = "normalize"
    /\ \A n \in DOMAIN payload.items : ~Overflows(payload.items[n].raw)
    /\ payload' = [payload EXCEPT !.items = [n \in DOMAIN @ |-> InFields(@[n])]]
    /\ stage' = "post"
    /\ UNCHANGED <<vars, kind, zones, stored, attempts>>

(* What the attempt came to; the next one starts from the stored bundle. *)
Again(raised) ==
    /\ attempts' = Append(attempts, [raised |-> raised, payload |-> IF raised THEN NoPayload ELSE payload])
    /\ stage' = "select" /\ payload' = NoPayload
    /\ pc' = "start" /\ groups' = <<>> /\ cursors' = <<>> /\ gi' = 1
    /\ advanced' = FALSE /\ picked' = <<>>
    /\ UNCHANGED <<input, kind, zones, stored>>

Post == stage = "post" /\ Again(FALSE)

(* The selection or the normalisation raises: nothing is posted, which to  *)
(* the caller is as if Spring was down.                                    *)
Fail ==
    /\ \/ stage = "select" /\ pc = "raised"
       \/ stage = "normalize" /\ \E n \in DOMAIN payload.items : Overflows(payload.items[n].raw)
    /\ Again(TRUE)

NextPayload == Select \/ Annotate \/ Stamp \/ Normalize \/ Post \/ Fail

PayloadSpec == InitPayload /\ [][NextPayload]_allVars

FairPayload == PayloadSpec /\ WF_allVars(NextPayload)

-----------------------------------------------------------------------------
(* A job that is posted again is posted as before, so the answer 409 is    *)
(* about the same report; and a bundle whose payload cannot be built is    *)
(* never built (signal_selector.py:214-215).                               *)
SameEachTime == \A a, b \in DOMAIN attempts : attempts[a] = attempts[b]

(* Signals that were selected are in the order of the times that Spring    *)
(* gets, whatever the zones in which they were collected (lines 17-18 of   *)
(* signal_selector.py, spring_client.py:39-50).                            *)
ShownInOrder ==
    stage = "post" /\ Len(payload.items) < Cardinality(Items) =>
        \A m, n \in DOMAIN payload.items :
            m < n => payload.items[m].stamp.wall <= payload.items[n].stamp.wall

(* The selector takes an item for an error by its raw line; Spring is told *)
(* of it in the fields of the normaliser.  They agree where the line has   *)
(* no level and no message key, and no empty status before the code.       *)
Plain(i) ==
    CASE input.modality = "log"    -> Item(i).levelKey = "none" /\ ~Item(i).message
      [] input.modality = "trace"  -> Item(i).status # ""
      [] input.modality = "metric" -> FALSE
ErrorShown ==
    stage = "post" =>
        \A n \in DOMAIN payload.items :
            Plain(picked[n]) /\ Severity(picked[n]) = 0 =>
                IF input.modality = "log" THEN LEVEL_ORDER(payload.items[n].raw.level) = 0
                ELSE payload.items[n].raw.status \in {"ERROR", "500"}

=============================================================================
