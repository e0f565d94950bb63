------------------------ MODULE SpringPayloadProofs -------------------------
(***************************************************************************)
(* The selection keeps its promises in every sending of a job, however     *)
(* often the reconciler starts it again, and what is posted is the same    *)
(* each time.                                                              *)
(***************************************************************************)
EXTENDS SpringPayload, SignalSelectorProofs

(* A selection that is started again is a selection from its start. *)
LEMMA AgainKeeps ==
    ASSUME SelectorInv, NEW raised, Again(raised)
    PROVE  SelectorInv'
<1>1. /\ pc' = "start" /\ groups' = <<>> /\ cursors' = <<>> /\ gi' = 1
      /\ advanced' = FALSE /\ picked' = <<>> /\ input' = input
    BY DEF Again
<1>2. Fitting'
    <2>1. groups' \in Seq(Range(groups')) /\ Len(groups') = 0
        BY <1>1
    <2>2. cursors' \in [DOMAIN groups' -> Nat]
        BY <1>1
    <2>3. gi' \in 1..(Len(groups') + 1)
        BY <1>1, <2>1
    <2> QED BY <1>1, <2>1, <2>2, <2>3 DEF Fitting
<1>3. Grouped' /\ Capped' /\ Picking' /\ Ending'
    BY <1>1 DEF Grouped, Capped, Picking, Ending, Looping
<1>4. Bundle'
    BY <1>1 DEF SelectorInv, Bundle
<1>5. Even'
    BY <1>1 DEF Even
<1> QED BY <1>1, <1>2, <1>3, <1>4, <1>5 DEF SelectorInv

LEMMA SelectionStep == SelectorInv /\ [NextPayload]_allVars => SelectorInv'
<1> SUFFICES ASSUME SelectorInv, [NextPayload]_allVars
             PROVE  SelectorInv'
    OBVIOUS
<1>1. CASE Select
    BY <1>1, SelectorStep DEF Select
<1>2. CASE Annotate \/ Stamp \/ Normalize \/ UNCHANGED allVars
    <2>1. UNCHANGED vars
        BY <1>2 DEF Annotate, Stamp, Normalize, allVars
    <2> QED BY <2>1, SelectorStep
<1>3. CASE Post \/ Fail
    BY <1>3, AgainKeeps DEF Post, Fail
<1> QED BY <1>1, <1>2, <1>3 DEF NextPayload

LEMMA SelectionInit == InitPayload => SelectorInv
BY SelectorInit DEF InitPayload

(* The types, and the cap of a payload that is being selected, over all    *)
(* sendings of save_result and save_failure.                               *)
THEOREM PayloadTypeCorrect == PayloadSpec => []TypeOK
BY SelectionInit, SelectionStep, InvType, PTL DEF PayloadSpec

(* No pattern is crowded out of what is posted, in any sending.            *)
THEOREM PayloadFair == PayloadSpec => []NoFavourites
BY SelectionInit, SelectionStep, EvenIsFair, PTL DEF PayloadSpec

(* Every sending has as many signals as the cap lets it have, each once.   *)
THEOREM PayloadFull == PayloadSpec => []CapFilled
BY SelectionInit, SelectionStep, InvFills, PTL DEF PayloadSpec

(* No sending leaves out what is worse than something that is in it.       *)
THEOREM PayloadKeepsTheWorst == PayloadSpec => []WorstKept
BY SelectionInit, SelectionStep, InvKeepsTheWorst, PTL DEF PayloadSpec

-----------------------------------------------------------------------------
(* The inductive invariant of a sending: what is made of a choice p, step  *)
(* by step, and what came of the earlier ones.                             *)

SourceOf(p) ==
    IF kind = "DONE"
    THEN stored \o IF Items = {} THEN <<>>
                   ELSE <<[total |-> Cardinality(Items), carried |-> Len(p)]>>
    ELSE <<>>

Annotated(p) == [items  |-> [n \in DOMAIN p |-> Carried(p[n])], source |-> SourceOf(p)]
Stamped(p) ==
    [items  |-> [n \in DOMAIN p |-> [stamp |-> to_spring_ts(Collected(p[n])), raw |-> Item(p[n])]],
     source |-> SourceOf(p)]
Finished(p) ==
    [items  |-> [n \in DOMAIN p |-> [stamp |-> to_spring_ts(Collected(p[n])), raw |-> Normal(Item(p[n]))]],
     source |-> SourceOf(p)]

Endless(p) == \E n \in DOMAIN p : Overflows(Item(p[n]))
Refused == ~(Cardinality(Items) <= cap) /\ Raises
Failed == [raised |-> TRUE, payload |-> NoPayload]

Outcome(p) == IF Endless(p) THEN Failed ELSE [raised |-> FALSE, payload |-> Finished(p)]

Building ==
    /\ stage \in {"select", "stamp", "normalize", "post"}
    /\ stage # "select" => pc = "done"
    /\ pc # "start" => (pc = "raised" <=> Refused)
    /\ stage = "stamp" => payload = Annotated(picked)
    /\ stage = "normalize" => payload = Stamped(picked)
    /\ stage = "post" => payload = Finished(picked) /\ ~Endless(picked)

Zoned ==
    /\ Len(zones) = Len(input.times)
    /\ zones \in Seq({z \in [naive : BOOLEAN, off : Int] : z.naive => z.off = 0})

Expected(attempt) == IF Refused THEN attempt = Failed ELSE \E p : Chosen(p) /\ attempt = Outcome(p)

Sent ==
    /\ attempts \in Seq(Range(attempts))
    /\ \A a \in DOMAIN attempts : Expected(attempts[a])

PayloadInv == SelectorInv /\ Building /\ Zoned /\ Sent

LEMMA PayloadInit == InitPayload => PayloadInv
<1> SUFFICES ASSUME InitPayload PROVE PayloadInv
    OBVIOUS
<1>1. SelectorInv /\ pc = "start" /\ stage = "select" /\ attempts = <<>>
    BY SelectionInit DEF InitPayload, Init
<1>2. Building /\ Sent
    BY <1>1 DEF Building, Sent
<1>3. Zoned
    <2>1. input.modality \in DOMAIN Entries
        BY <1>1 DEF SelectorInv, Bundle
    <2> QED BY <2>1, ZonesType DEF InitPayload, Zoned
<1> QED BY <1>1, <1>2, <1>3 DEF PayloadInv

(* A matter of what stays from sending to sending. *)
LEMMA StaysTheSame ==
    ASSUME UNCHANGED <<input, kind, zones, stored>>
    PROVE  /\ Refused' <=> Refused
           /\ Zoned' <=> Zoned
           /\ \A p : /\ Chosen(p)' <=> Chosen(p)
                     /\ Endless(p)' <=> Endless(p)
                     /\ Annotated(p)' = Annotated(p) /\ Stamped(p)' = Stamped(p)
                     /\ Finished(p)' = Finished(p) /\ Outcome(p)' = Outcome(p)
           /\ \A t : Expected(t)' <=> Expected(t)
<1>1. /\ OrderedGroups' = OrderedGroups /\ Items' = Items
      /\ \A i : Item(i)' = Item(i) /\ Collected(i)' = Collected(i) /\ Carried(i)' = Carried(i)
    BY GroupsStay DEF Item, Collected, Carried
<1>2. (Refused' <=> Refused) /\ (Zoned' <=> Zoned)
    BY <1>1 DEF Refused, Raises, Zoned
<1>3. \A r, n : Share(r, n)' = Share(r, n) /\ ByTime(Share(r, n))' = ByTime(Share(r, n))
    BY <1>1 DEF Share, ByTime, Turns
<1>4. \A p : Chosen(p)' <=> Chosen(p)
    BY <1>1, <1>3 DEF Chosen
<1>5. \A raw : (Overflows(raw)' <=> Overflows(raw)) /\ Normal(raw)' = Normal(raw)
    BY DEF Overflows, Normal
<1>6. \A p : SourceOf(p)' = SourceOf(p)
    BY <1>1 DEF SourceOf
<1>7. \A p : /\ Endless(p)' <=> Endless(p)
             /\ Annotated(p)' = Annotated(p) /\ Stamped(p)' = Stamped(p) /\ Finished(p)' = Finished(p)
    BY <1>1, <1>5, <1>6 DEF Endless, Annotated, Stamped, Finished
<1>8. \A p : Outcome(p)' = Outcome(p)
    BY <1>7 DEF Outcome, Failed
<1>9. \A t : Expected(t)' <=> Expected(t)
    BY <1>2, <1>4, <1>8 DEF Expected, Failed
<1> QED BY <1>2, <1>4, <1>7, <1>8, <1>9

LEMMA SelectKeeps == PayloadInv /\ Select => PayloadInv'
<1> SUFFICES ASSUME PayloadInv, Select PROVE PayloadInv'
    OBVIOUS
<1>1. SelectorInv' /\ Next /\ stage = "select" /\ pc \notin {"done", "raised"} /\ UNCHANGED payloadVars
    BY SelectionStep DEF PayloadInv, Select, NextPayload
<1>2. input' = input
    BY <1>1 DEF Next, PassThrough, Raise, Group, Pass, Visit, Sort
<1>3. UNCHANGED <<input, kind, zones, stored>>
    BY <1>1, <1>2 DEF payloadVars
<1>4. pc' # "start" /\ (pc' = "raised" <=> Refused)
    <2>1. CASE PassThrough
        BY <2>1 DEF PassThrough, Refused
    <2>2. CASE Raise
        <3>1. Cardinality(Items) > cap /\ Raises /\ pc' = "raised"
            BY <2>2 DEF Raise
        <3>2. Cardinality(Items) \in Nat
            BY ItemsFinite DEF PayloadInv, SelectorInv, Bundle
        <3> QED BY <3>1, <3>2, CapType DEF Refused
    <2>3. CASE Group
        BY <2>3 DEF Group, Refused
    <2>4. CASE Pass \/ Visit \/ Sort
        <3>1. pc \notin {"start", "raised"} /\ pc' \notin {"start", "raised"}
            BY <2>4 DEF Pass, Visit, Take, Sort
        <3> QED BY <3>1 DEF PayloadInv, Building
    <2> QED BY <1>1, <2>1, <2>2, <2>3, <2>4 DEF Next
<1>5. Building'
    <2>1. Refused' <=> Refused
        BY <1>3, StaysTheSame
    <2> QED BY <1>1, <1>4, <2>1 DEF Building, payloadVars
<1>6. Zoned' /\ Sent'
    <2>1. (Zoned' <=> Zoned) /\ \A t : Expected(t)' <=> Expected(t)
        BY <1>3, StaysTheSame
    <2>2. attempts' = attempts
        BY <1>1 DEF payloadVars
    <2> QED BY <2>1, <2>2 DEF PayloadInv, Sent, Range
<1> QED BY <1>1, <1>5, <1>6 DEF PayloadInv

(* Of the three steps that make the payload, each does its part. *)
LEMMA MakeKeeps ==
    ASSUME PayloadInv, Annotate \/ Stamp \/ Normalize
    PROVE  PayloadInv'
<1>1. SelectorInv' /\ UNCHANGED <<vars, kind, zones, stored, attempts>>
    BY SelectionStep DEF PayloadInv, NextPayload, Annotate, Stamp, Normalize
<1>2. UNCHANGED <<input, kind, zones, stored>> /\ picked' = picked /\ pc' = pc /\ attempts' = attempts
    BY <1>1 DEF vars
<1>3. Zoned' /\ Sent'
    <2>1. (Zoned' <=> Zoned) /\ \A t : Expected(t)' <=> Expected(t)
        BY <1>2, StaysTheSame
    <2> QED BY <1>2, <2>1 DEF PayloadInv, Sent, Range
<1>4. Refused' <=> Refused
    BY <1>2, StaysTheSame
<1>5. /\ Annotated(picked)' = Annotated(picked) /\ Stamped(picked)' = Stamped(picked)
      /\ Finished(picked)' = Finished(picked) /\ (Endless(picked)' <=> Endless(picked))
    <2>1. \A p : /\ Annotated(p)' = Annotated(p) /\ Stamped(p)' = Stamped(p)
                 /\ Finished(p)' = Finished(p) /\ (Endless(p)' <=> Endless(p))
        BY <1>2, StaysTheSame
    <2> QED BY <1>2, <2>1
<1>6. Building'
    <2>1. CASE Annotate
        <3>1. stage' = "stamp" /\ pc = "done" /\ payload' = Annotated(picked)
            BY <2>1 DEF Annotate, Annotated, SourceOf, Note
        <3> QED BY <1>2, <1>4, <1>5, <3>1 DEF Building, PayloadInv
    <2>2. CASE Stamp
        <3>1. stage' = "normalize" /\ pc = "done" /\ payload = Annotated(picked)
            BY <2>2 DEF Stamp, Building, PayloadInv
        <3>2. payload' = [payload EXCEPT !.items =
                             [n \in DOMAIN payload.items |-> InUTC(payload.items[n])]]
            BY <2>2 DEF Stamp
        <3>3. payload' = Stamped(picked)
            BY <3>1, <3>2 DEF Annotated, Stamped, Carried, InUTC
        <3> QED BY <1>2, <1>4, <1>5, <3>1, <3>3 DEF Building, PayloadInv
    <2>3. CASE Normalize
        <3>1. stage' = "post" /\ pc = "done" /\ payload = Stamped(picked)
            BY <2>3 DEF Normalize, Building, PayloadInv
        <3>2. /\ \A n \in DOMAIN payload.items : ~Overflows(payload.items[n].raw)
              /\ payload' = [payload EXCEPT !.items =
                                [n \in DOMAIN payload.items |-> InFields(payload.items[n])]]
            BY <2>3 DEF Normalize
        <3>3. payload' = Finished(picked) /\ ~Endless(picked)
            BY <3>1, <3>2 DEF Stamped, Finished, Endless, InFields
        <3> QED BY <1>2, <1>4, <1>5, <3>1, <3>3 DEF Building, PayloadInv
    <2> QED BY <2>1, <2>2, <2>3
<1> QED BY <1>1, <1>3, <1>6 DEF PayloadInv

LEMMA EndKeeps ==
    ASSUME PayloadInv, Post \/ Fail
    PROVE  PayloadInv'
<1>1. PICK raised \in BOOLEAN : Again(raised) /\ (raised <=> Fail) /\ (~raised <=> Post)
    BY DEF Post, Fail, PayloadInv, Building
<1>2. SelectorInv'
    BY <1>1, AgainKeeps DEF PayloadInv
<1> DEFINE new == [raised |-> raised, payload |-> IF raised THEN NoPayload ELSE payload]
<1>3. /\ attempts' = Append(attempts, new) /\ stage' = "select" /\ pc' = "start"
      /\ UNCHANGED <<input, kind, zones, stored>>
    BY <1>1 DEF Again
<1>4. Building'
    BY <1>3 DEF Building
<1>5. Expected(new)
    <2>1. pc # "start" => (pc = "raised" <=> Refused)
        BY DEF PayloadInv, Building
    <2>2. pc = "done" => Chosen(picked)
        BY DEF PayloadInv, SelectorInv
    <2>3. CASE stage = "select" /\ pc = "raised" /\ Fail
        <3>1. new = Failed
            BY <1>1, <2>3 DEF Failed
        <3> QED BY <2>1, <2>3, <3>1 DEF Expected
    <2>4. CASE stage = "normalize" /\ (\E n \in DOMAIN payload.items : Overflows(payload.items[n].raw)) /\ Fail
        <3>1. new = Failed /\ pc = "done" /\ payload = Stamped(picked)
            BY <1>1, <2>4 DEF Failed, PayloadInv, Building
        <3>2. Endless(picked)
            BY <2>4, <3>1 DEF Stamped, Endless
        <3> QED BY <2>1, <2>2, <3>1, <3>2 DEF Expected, Outcome
    <2>5. CASE stage = "post" /\ Post
        <3>1. pc = "done" /\ payload = Finished(picked) /\ ~Endless(picked)
            BY <2>5 DEF PayloadInv, Building
        <3>2. new = Outcome(picked)
            BY <1>1, <2>5, <3>1 DEF Outcome
        <3> QED BY <2>1, <2>2, <3>1, <3>2 DEF Expected
    <2> QED BY <2>3, <2>4, <2>5 DEF Post, Fail
<1> HIDE DEF new
<1>6. Sent'
    <2>1. attempts \in Seq(Range(attempts) \cup {new})
        BY DEF PayloadInv, Sent
    <2>2. /\ attempts' \in Seq(Range(attempts) \cup {new})
          /\ Len(attempts') = Len(attempts) + 1 /\ DOMAIN attempts' = 1..Len(attempts')
          /\ \A a \in DOMAIN attempts' : attempts'[a] = new \/ \E b \in DOMAIN attempts : attempts'[a] = attempts[b]
        BY <1>3, <2>1
    <2>3. \A t : Expected(t)' <=> Expected(t)
        BY <1>3, StaysTheSame
    <2>4. ASSUME NEW a \in DOMAIN attempts' PROVE Expected(attempts[a])'
        <3>1. Expected(attempts'[a])
            BY <1>5, <2>2 DEF PayloadInv, Sent
        <3>2. (Refused' <=> Refused) /\ \A p : (Chosen(p)' <=> Chosen(p)) /\ Outcome(p)' = Outcome(p)
            BY <1>3, StaysTheSame
        <3> QED BY <3>1, <3>2 DEF Expected, Failed
    <2>5. attempts' \in Seq(Range(attempts'))
        <3>1. attempts' = [a \in 1..Len(attempts') |-> attempts'[a]] /\ Len(attempts') \in Nat
            BY <2>2
        <3>2. \A a \in 1..Len(attempts') : attempts'[a] \in Range(attempts')
            BY <2>2 DEF Range
        <3> QED BY <3>1, <3>2
    <2> QED BY <2>4, <2>5 DEF Sent
<1>7. Zoned'
    BY <1>3, StaysTheSame DEF PayloadInv
<1> QED BY <1>2, <1>4, <1>6, <1>7 DEF PayloadInv

LEMMA PayloadStep == PayloadInv /\ [NextPayload]_allVars => PayloadInv'
<1> SUFFICES ASSUME PayloadInv, [NextPayload]_allVars PROVE PayloadInv'
    OBVIOUS
<1>1. CASE UNCHANGED allVars
    <2>1. SelectorInv'
        BY <1>1, SelectionStep DEF PayloadInv
    <2>2. UNCHANGED <<input, kind, zones, stored>> /\ UNCHANGED <<pc, picked, stage, payload, attempts>>
        BY <1>1 DEF allVars, vars, payloadVars
    <2>3. /\ Refused' <=> Refused
          /\ Zoned' <=> Zoned
          /\ \A t : Expected(t)' <=> Expected(t)
          /\ Annotated(picked)' = Annotated(picked) /\ Stamped(picked)' = Stamped(picked)
          /\ Finished(picked)' = Finished(picked) /\ (Endless(picked)' <=> Endless(picked))
        <3>1. \A p : /\ Annotated(p)' = Annotated(p) /\ Stamped(p)' = Stamped(p)
                     /\ Finished(p)' = Finished(p) /\ (Endless(p)' <=> Endless(p))
            BY <2>2, StaysTheSame
        <3> QED BY <2>2, <3>1, StaysTheSame
    <2>4. Building'
        BY <2>2, <2>3 DEF PayloadInv, Building
    <2>5. Sent' /\ Zoned'
        BY <2>2, <2>3 DEF PayloadInv, Sent, Range
    <2> QED BY <2>1, <2>4, <2>5 DEF PayloadInv
<1> QED BY <1>1, SelectKeeps, MakeKeeps, EndKeeps DEF NextPayload

-----------------------------------------------------------------------------
(* However often save_result or save_failure is called for a job, what it  *)
(* posts, or that it fails to, is the same: the selection has no choice.   *)
THEOREM PostedTheSame == PayloadSpec => []SameEachTime
<1>1. PayloadInv => SameEachTime
    <2> SUFFICES ASSUME PayloadInv, NEW a \in DOMAIN attempts, NEW b \in DOMAIN attempts
                 PROVE  attempts[a] = attempts[b]
        BY DEF SameEachTime
    <2>1. Expected(attempts[a]) /\ Expected(attempts[b]) /\ Bundle
        BY DEF PayloadInv, Sent, SelectorInv
    <2>2. CASE Refused
        BY <2>1, <2>2 DEF Expected
    <2>3. CASE ~Refused
        <3>1. PICK p : Chosen(p) /\ attempts[a] = Outcome(p)
            BY <2>1, <2>3 DEF Expected
        <3>2. PICK q : Chosen(q) /\ attempts[b] = Outcome(q)
            BY <2>1, <2>3 DEF Expected
        <3>3. p = q
            BY <2>1, <3>1, <3>2, ChosenOne
        <3> QED BY <3>1, <3>2, <3>3
    <2> QED BY <2>2, <2>3
<1> QED BY PayloadInit, PayloadStep, <1>1, PTL DEF PayloadSpec

(* The time that Spring gets is the time of the item. *)
LEMMA TimesInUTC ==
    ASSUME Bundle, Zoned, NEW i \in Items
    PROVE  to_spring_ts(Collected(i)).wall = input.times[i]
<1>1. Items = 1..Len(input.times) /\ input.times[i] \in Nat
    BY ItemsFinite DEF Bundle
<1>2. zones[i] \in {z \in [naive : BOOLEAN, off : Int] : z.naive => z.off = 0}
    BY <1>1 DEF Zoned
<1> DEFINE t == Collected(i)
<1>3. /\ t.naive = zones[i].naive /\ t.off = zones[i].off /\ t.wall = input.times[i] + zones[i].off
      /\ zones[i].off \in Int /\ (zones[i].naive => zones[i].off = 0)
    BY <1>2 DEF Collected
<1>4. to_spring_ts(t).wall = IF t.naive THEN t.wall ELSE t.wall - t.off
    BY DEF to_spring_ts, UTC
<1> HIDE DEF t
<1>5. to_spring_ts(t).wall = input.times[i]
    BY <1>1, <1>3, <1>4
<1> QED BY <1>5 DEF t

(* What was selected is posted in the order of the times in the payload,   *)
(* whatever the zones in which they were collected.                        *)
THEOREM PostedInOrder == PayloadSpec => []ShownInOrder
<1>1. PayloadInv => ShownInOrder
    <2> SUFFICES ASSUME PayloadInv, stage = "post", Len(payload.items) < Cardinality(Items),
                        NEW m \in DOMAIN payload.items, NEW n \in DOMAIN payload.items, m < n
                 PROVE  payload.items[m].stamp.wall <= payload.items[n].stamp.wall
        BY DEF ShownInOrder
    <2>1. payload = Finished(picked) /\ Chosen(picked) /\ Bundle /\ Zoned
        BY DEF PayloadInv, Building, SelectorInv
    <2>2. Len(picked) \in Nat /\ DOMAIN picked = 1..Len(picked) /\ \A k \in DOMAIN picked : picked[k] \in Items
        BY <2>1, ChosenByTime
    <2>3. /\ DOMAIN payload.items = DOMAIN picked
          /\ \A k \in DOMAIN picked : payload.items[k].stamp = to_spring_ts(Collected(picked[k]))
        BY <2>1 DEF Finished
    <2>4. Len(payload.items) = Len(picked)
        BY <2>1, <2>2 DEF Finished
    <2>5. input.times[picked[m]] <= input.times[picked[n]]
        BY <2>1, <2>3, <2>4, ChosenByTime
    <2> QED BY <2>1, <2>2, <2>3, <2>5, TimesInUTC
<1> QED BY PayloadInit, PayloadStep, <1>1, PTL DEF PayloadSpec

(* What the selector took for an error is one in the fields that Spring is *)
(* sent.                                                                   *)
THEOREM PostedAsError == PayloadSpec => []ErrorShown
<1>1. PayloadInv => ErrorShown
    <2> SUFFICES ASSUME PayloadInv, stage = "post", NEW n \in DOMAIN payload.items,
                        Plain(picked[n]), Severity(picked[n]) = 0
                 PROVE  IF input.modality = "log" THEN LEVEL_ORDER(payload.items[n].raw.level) = 0
                        ELSE payload.items[n].raw.status \in {"ERROR", "500"}
        BY DEF ErrorShown
    <2>1. payload = Finished(picked) /\ Chosen(picked) /\ Bundle
        BY DEF PayloadInv, Building, SelectorInv
    <2>2. n \in DOMAIN picked /\ payload.items[n].raw = Normal(Item(picked[n]))
        BY <2>1 DEF Finished
    <2>3. picked[n] \in Items /\ input.modality \in {"log", "metric", "trace"}
        BY <2>1, <2>2, ChosenByTime, BundleType DEF Bundle
    <2> DEFINE line == Item(picked[n])
    <2>4. CASE input.modality = "log"
        <3>1. line.levelKey = "none" /\ ~line.message /\ line.level = "ERROR"
            BY <2>4 DEF Plain, Severity, LEVEL_ORDER
        <3>2. normalize_log(line).level = "ERROR"
            BY <3>1 DEF normalize_log
        <3> QED BY <2>2, <2>4, <3>2 DEF Normal, LEVEL_ORDER
    <2>5. CASE input.modality = "trace"
        <3>1. line.err /\ line.status # ""
            <4>1. line.status # "" /\ (IF line.err THEN 0 ELSE 1) = 0
                BY <2>5 DEF Plain, Severity
            <4> HIDE DEF line
            <4>2. CASE ~line.err
                <5>1. (IF line.err THEN 0 ELSE 1) = 1
                    BY <4>2, Zenon
                <5>2. 0 # 1
                    OBVIOUS
                <5> QED BY <4>1, <5>1, <5>2, Zenon
            <4> QED BY <4>1, <4>2
        <3>2. line.err = is_err(line.status, line.code)
            <4>1. line \in UNION Entries["trace"] /\ "trace" \in DOMAIN Entries
                BY <2>1, <2>3, <2>5, ItemsFinite DEF Bundle, Item
            <4> QED BY <4>1, ErrType
        <3>3. normalize_trace(line).status \in {"ERROR", "500"}
            BY <3>1, <3>2 DEF is_err, normalize_trace
        <3> QED BY <2>2, <2>5, <3>3 DEF Normal
    <2>6. CASE input.modality = "metric"
        BY <2>6 DEF Plain
    <2> QED BY <2>3, <2>4, <2>5, <2>6
<1> QED BY PayloadInit, PayloadStep, <1>1, PTL DEF PayloadSpec

=============================================================================
