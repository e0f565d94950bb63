---------------------------- MODULE MetricDigest ----------------------------
(***************************************************************************)
(* compress_metrics.  An item is [service, pairs]: pairs, a function from  *)
(* labels to values, is what metric_pairs finds in its raw line, and empty *)
(* if it cannot be read.  Services and labels are numbers, in the order of *)
(* their names.  The table has a series, the items it is made of, for each *)
(* service and label.                                                      *)
(***************************************************************************)
EXTENDS Digest

(* A raw line is finite. *)
ASSUME PairsType ==
    "metric" \in DOMAIN Entries =>
        \A S \in Entries["metric"] : \A e \in S :
            /\ e.service \in Int
            /\ IsFiniteSet(DOMAIN e.pairs) /\ DOMAIN e.pairs \subseteq Int
            /\ \A l \in DOMAIN e.pairs : e.pairs[l] \in Int

Series(i) == {<<Item(i).service, l>> : l \in DOMAIN Item(i).pairs}

ReadPoint ==
    /\ pc = "read" /\ input.reader = "metric" /\ next \in Items
    /\ groups' = [k \in DOMAIN groups \cup Series(next) |->
                    (IF k \in DOMAIN groups THEN groups[k] ELSE {})
                      \cup (IF k \in Series(next) THEN {next} ELSE {})]
    /\ next' = next + 1
    /\ UNCHANGED <<pc, input, rows, window>>

-----------------------------------------------------------------------------
(* Mean and deviation of a series before the trigger, over the integers:   *)
(* Count times the distance from the mean, and Count^2 times the variance. *)

Base(k)  == {i \in groups[k] : IsBase(i)}
Incid(k) == groups[k] \ Base(k)
Count(k) == Cardinality(Base(k))
Value(k, i) == Item(i).pairs[k[2]]

Off(k, i) == Count(k) * Value(k, i) - SumFunction([j \in Base(k) |-> Value(k, j)])

Variance(k) ==
    LET sum == SumFunction([j \in Base(k) |-> Value(k, j)])
        sqr == SumFunction([j \in Base(k) |-> Value(k, j) * Value(k, j)])
    IN Count(k) * sqr - sum * sum

(* Mutant of Outliers: a series that never moved has none. *)
Outliers_Sigma(k) ==
    IF Base(k) = {} THEN {}
    ELSE {i \in Incid(k) : Variance(k) > 0 /\ Off(k, i) * Off(k, i) > 9 * Variance(k)}

(* More than 3 sigma off, or with a sigma of 0 anything off at all. *)
Outliers(k) ==
    IF Base(k) = {} THEN {}
    ELSE {i \in Incid(k) : Off(k, i) * Off(k, i) > 9 * Variance(k)}

Onset(k) == Min(Outliers(k))

Peak(k) ==
    Min({i \in Outliers(k) : \A j \in Outliers(k) : Off(k, j) * Off(k, j) <= Off(k, i) * Off(k, i)})

(* The square of the score, as a fraction: the peak in units of sigma, or  *)
(* as it is where sigma is 0.                                              *)
Score(k) ==
    IF Outliers(k) = {} THEN [num |-> 0, den |-> 1]
    ELSE [num |-> Off(k, Peak(k)) * Off(k, Peak(k)),
          den |-> IF Variance(k) = 0 THEN Count(k) * Count(k) ELSE Variance(k)]

(* Mutant of Louder: the smallest first. *)
Louder_Least(k, h) == Score(k).num * Score(h).den < Score(h).num * Score(k).den

Louder(k, h) == Score(k).num * Score(h).den > Score(h).num * Score(k).den

SeriesRows ==
    LET Order(k) == <<Cardinality({h \in DOMAIN groups : Louder(h, k)}), k[1], k[2]>>
        order == Listed(DOMAIN groups, Order)
    IN [n \in DOMAIN order |->
          Row("series", order[n],
              IF Outliers(order[n]) = {} THEN {} ELSE {Onset(order[n]), Peak(order[n])})]

(* What cannot be read is passed on, after the rest. *)
Unparsed == {i \in Items : DOMAIN Item(i).pairs = {}}

UnparsedRows ==
    LET Came(i) == <<i>>
        order == Listed(Unparsed, Came)
    IN [n \in DOMAIN order |-> Row("unparsed", <<>>, {order[n]})]

RankSeries ==
    /\ pc = "read" /\ input.reader = "metric" /\ next \notin Items
    /\ \/ \E i \in Items \ Unparsed : Raise(i)
       \/ /\ input.context.bad \subseteq Unparsed
          /\ rows' = SeriesRows \o UnparsedRows
          /\ pc' = "cut"
          /\ UNCHANGED <<input, next, groups, window>>

=============================================================================
