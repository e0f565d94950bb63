--------------------------- MODULE SignalSelector ---------------------------
(***************************************************************************)
(* select_signals (app/services/signal_selector.py): of the items of one   *)
(* modality, those that go to Spring.  Too many are grouped, the groups    *)
(* and the items in each are put in order, and one item of every group     *)
(* after the other is taken until the cap is reached.                      *)
(*                                                                         *)
(* What an item is to the selector, by modality:                           *)
(*   log     key: its Drain cluster; level: of its line                    *)
(*   metric  parsed: a value was found in it; key: its series, one key for *)
(*           all without a value; value; base: before the trigger; bad:    *)
(*           one of the two times has a zone, the other none               *)
(*   trace   key: its operation; err; duration; bad: a JSON duration that  *)
(*           is no number                                                  *)
(* and, apart, its time (what _chron gives).                               *)
(***************************************************************************)
EXTENDS Integers, Sequences, FiniteSets, SequencesExt, Ordering

CONSTANTS
    Entries,  \* per modality, the sets of items of which a bundle is made
    Sizes,    \* how many items a bundle has
    Times,    \* the times they may have: sequences of numbers
    cap       \* settings.spring_signal_limit

ASSUME BundleType ==
    /\ Sizes \subseteq Nat /\ Times \subseteq Seq(Nat)
    /\ DOMAIN Entries \subseteq {"log", "metric", "trace"}
ASSUME SpanType ==
    "trace" \in DOMAIN Entries =>
        \A S \in Entries["trace"] : \A e \in S : e.err \in BOOLEAN /\ e.duration \in Int
ASSUME CapType == cap \in Nat

VARIABLES
    pc,       \* "start"; "pass", "visit": the two loops; "sort"; "done", "raised"
    input,    \* [modality, items, times]
    groups,   \* sequences of item numbers, most important group and item first
    cursors,  \* per group, how many of its items were taken
    gi,       \* the group to visit next in this pass
    advanced, \* this pass took an item
    picked    \* item numbers

vars == <<pc, input, groups, cursors, gi, advanced, picked>>

Init ==
    /\ pc = "start"
    /\ \E m \in DOMAIN Entries, n \in Sizes :
       \E S \in Entries[m], ts \in {t \in Times : Len(t) = n} :
          \E items \in [1..n -> S] :
             input = [modality |-> m, items |-> items, times |-> ts]
    /\ groups = <<>> /\ cursors = <<>> /\ gi = 1 /\ advanced = FALSE
    /\ picked = <<>>

Items   == DOMAIN input.items
Item(i) == input.items[i]

-----------------------------------------------------------------------------
(* Importance.                                                             *)

Peers(i) == {k \in Items : Item(k).key = Item(i).key}

LEVEL_ORDER(level) ==
    CASE level = "ERROR" -> 0 [] level = "WARN" -> 1 [] OTHER -> 2

(* More than 3 sigma off the mean of the series before the trigger; the    *)
(* formula is abs(value - mu) > 3 * sigma over the integers, and decides a *)
(* sigma of 0 as the code does.                                            *)
Deviant(i) ==
    LET base == {k \in Peers(i) : Item(k).base}
        sum  == SumFunction([k \in base |-> Item(k).value])
        sqr  == SumFunction([k \in base |-> Item(k).value * Item(k).value])
        n    == Cardinality(base)
        off  == n * Item(i).value - sum
    IN /\ Item(i).parsed /\ base # {} /\ ~Item(i).base
       /\ off * off > 9 * (n * sqr - sum * sum)

(* Errors first, then the slower one. *)
SpanOrder(i) == <<IF Item(i).err THEN 0 ELSE 1, -Item(i).duration, i>>

(* The grade of an item in its bucket.  For a span, its rank there. *)
Grade(i) ==
    CASE input.modality = "log"    -> LEVEL_ORDER(Item(i).level)
      [] input.modality = "metric" -> IF Deviant(i) THEN 0 ELSE 1
      [] input.modality = "trace"  ->
            Cardinality({k \in Peers(i) : Before(SpanOrder(k), SpanOrder(i))})

(* The items of one bucket; and the buckets, by their best grade, their    *)
(* size, and their first item.  Mutant of GroupOrder: size comes first.    *)
Ordered(S) == InOrder(S, [i \in S |-> <<Grade(i), i>>])

GroupOrder_BySize(g) == <<-Len(g), Grade(g[1]), g[1]>>

GroupOrder(g) == <<Grade(g[1]), -Len(g), g[1]>>

Buckets == {Ordered(Peers(i)) : i \in Items}

OrderedGroups == InOrder(Buckets, [g \in Buckets |-> GroupOrder(g)])

-----------------------------------------------------------------------------
(* Not more than the cap: all of them, as they are. *)
PassThrough ==
    /\ pc = "start"
    /\ Cardinality(Items) <= cap
    /\ picked' = [i \in Items |-> i]
    /\ pc' = "done"
    /\ UNCHANGED <<input, groups, cursors, gi, advanced>>

(* Grouping compares the times of the points with the trigger, and reads   *)
(* the durations of the spans.                                             *)
Raises == input.modality # "log" /\ \E i \in Items : Item(i).bad

Raise ==
    /\ pc = "start"
    /\ Cardinality(Items) > cap
    /\ Raises
    /\ pc' = "raised"
    /\ UNCHANGED <<input, groups, cursors, gi, advanced, picked>>

Group ==
    /\ pc = "start"
    /\ Cardinality(Items) > cap
    /\ ~Raises
    /\ groups' = OrderedGroups
    /\ cursors' = [g \in DOMAIN groups' |-> 0]
    /\ gi' = Len(groups') + 1
    /\ advanced' = TRUE
    /\ pc' = "pass"
    /\ UNCHANGED <<input, picked>>

(* Mutant of Pass: one round only. *)
Pass_Once ==
    /\ pc = "pass"
    /\ IF picked = <<>>
       THEN /\ pc' = "visit" /\ gi' = 1 /\ advanced' = FALSE
       ELSE /\ pc' = "sort" /\ UNCHANGED <<gi, advanced>>
    /\ UNCHANGED <<input, groups, cursors, picked>>

(* while advanced and len(picked) < limit *)
Pass ==
    /\ pc = "pass"
    /\ IF advanced /\ Len(picked) < cap
       THEN /\ pc' = "visit" /\ gi' = 1 /\ advanced' = FALSE
       ELSE /\ pc' = "sort" /\ UNCHANGED <<gi, advanced>>
    /\ UNCHANGED <<input, groups, cursors, picked>>

Rest(g) == cursors[g] + 1 \in DOMAIN groups[g]

(* Mutant of Take: the cap is tested before the item is taken. *)
Take_TestFirst(g) ==
    /\ picked' = Append(picked, groups[g][cursors[g] + 1])
    /\ cursors' = [cursors EXCEPT ![g] = cursors[g] + 1]
    /\ advanced' = TRUE
    /\ gi' = g + 1
    /\ pc' = IF Len(picked) >= cap THEN "pass" ELSE "visit"

(* Mutant of Take: it stays with a group as long as it has items. *)
Take_Stays(g) ==
    /\ picked' = Append(picked, groups[g][cursors[g] + 1])
    /\ cursors' = [cursors EXCEPT ![g] = cursors[g] + 1]
    /\ advanced' = TRUE
    /\ gi' = g
    /\ pc' = IF Len(picked') >= cap THEN "pass" ELSE "visit"

(* The next item of the group; at the cap the pass ends early. *)
Take(g) ==
    /\ picked' = Append(picked, groups[g][cursors[g] + 1])
    /\ cursors' = [cursors EXCEPT ![g] = cursors[g] + 1]
    /\ advanced' = TRUE
    /\ gi' = g + 1
    /\ pc' = IF Len(picked') >= cap THEN "pass" ELSE "visit"

(* Mutant of Visit: it does not get past a group that has run out. *)
Visit_Stuck ==
    /\ pc = "visit"
    /\ \/ gi \in DOMAIN groups /\ Rest(gi) /\ Take(gi)
       \/ /\ gi \notin DOMAIN groups
          /\ pc' = "pass"
          /\ UNCHANGED <<gi, cursors, advanced, picked>>
    /\ UNCHANGED <<input, groups>>

(* for gi, group in enumerate(groups) *)
Visit ==
    /\ pc = "visit"
    /\ \/ gi \in DOMAIN groups /\ Rest(gi) /\ Take(gi)
       \/ /\ gi \in DOMAIN groups /\ ~Rest(gi)
          /\ gi' = gi + 1
          /\ UNCHANGED <<pc, cursors, advanced, picked>>
       \/ /\ gi \notin DOMAIN groups
          /\ pc' = "pass"
          /\ UNCHANGED <<gi, cursors, advanced, picked>>
    /\ UNCHANGED <<input, groups>>

Selected == ToSet(picked)

(* In the order of time, and of the collector where times are the same. *)
Sort ==
    /\ pc = "sort"
    /\ picked' = InOrder(Selected, [i \in Selected |-> <<input.times[i], i>>])
    /\ pc' = "done"
    /\ UNCHANGED <<input, groups, cursors, gi, advanced>>

Next == PassThrough \/ Raise \/ Group \/ Pass \/ Visit \/ Sort

Spec == Init /\ [][Next]_vars

FairSpec == Spec /\ WF_vars(Next)

-----------------------------------------------------------------------------
(* Types; and, at any point of the loops, never more than the cap, which   *)
(* max_allowed_packet of the database asks for.                            *)
Looping == pc \in {"pass", "visit", "sort"}

TypeOK ==
    /\ pc \in {"start", "pass", "visit", "sort", "done", "raised"}
    /\ input.items \in [1..Len(input.times) -> UNION Entries[input.modality]]
    /\ gi \in Nat /\ advanced \in BOOLEAN
    /\ groups \in Seq(Range(groups)) /\ cursors \in [DOMAIN groups -> Nat]
    /\ Looping => Len(picked) <= cap

(* A selection is no smaller than it has to be, repeats nothing, and       *)
(* invents nothing.                                                        *)
CapFilled ==
    pc = "done" =>
        /\ Len(picked) = IF Cardinality(Items) <= cap THEN Cardinality(Items) ELSE cap
        /\ IsInjective(picked)
        /\ ToSet(picked) \subseteq Items

(* Round robin: while a group still has items, no other is more than one   *)
(* item ahead of it.  However often one pattern occurs, a rare one is not  *)
(* crowded out (lines 21-23).                                              *)
NoFavourites ==
    \A g, h \in DOMAIN cursors : Rest(g) => cursors[h] <= cursors[g] + 1

(* How bad an item is, and a bucket: as its worst item. *)
Severity(i) ==
    CASE input.modality = "log"    -> LEVEL_ORDER(Item(i).level)
      [] input.modality = "metric" -> IF Deviant(i) THEN 0 ELSE 1
      [] input.modality = "trace"  -> IF Item(i).err THEN 0 ELSE 1
Worst(i) == Min({Severity(k) : k \in Peers(i)})

(* What is left out of a bucket is not worse than what was taken from it,  *)
(* and a bucket that is left out not worse than one that is represented    *)
(* (lines 15-18).  For spans only the former holds.                        *)
WorstItemsKept ==
    pc = "done" => \A i \in Selected, k \in Items \ Selected :
                      k \in Peers(i) => Severity(i) <= Severity(k)
WorstGroupsKept ==
    pc = "done" => \A i \in Selected, k \in Items :
                      Peers(k) \cap Selected = {} => Worst(i) <= Worst(k)
WorstKept == WorstItemsKept /\ (input.modality # "trace" => WorstGroupsKept)

(* The loops come to an end, whatever the sizes of the groups. *)
Terminates == <>(pc \in {"done", "raised"})

=============================================================================
