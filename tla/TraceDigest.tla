----------------------------- MODULE TraceDigest ----------------------------
(***************************************************************************)
(* compress_traces.  An item is [service, op, err, duration], what         *)
(* span_fields finds in a span; a duration below 0 stands for none.        *)
(***************************************************************************)
EXTENDS Digest

CONSTANT ExemplarLimit \* _EXEMPLAR_LIMIT

ASSUME ExemplarType == ExemplarLimit \in Nat \ {0}
ASSUME SpanType ==
    "trace" \in DOMAIN Entries =>
        \A S \in Entries["trace"] : \A e \in S : e.err \in BOOLEAN /\ e.duration \in Int

Operation(i) == <<Item(i).service, Item(i).op>>
Timed(i)     == Item(i).duration >= 0

(* for item in items *)
ReadSpan ==
    /\ pc = "read" /\ input.reader = "trace" /\ next \in Items
    /\ \/ Raise(next)
       \/ /\ next \notin input.context.bad
          /\ LET k == Operation(next)
                 g == IF k \in DOMAIN groups THEN groups[k]
                      ELSE [count |-> 0, err |-> 0, first |-> next, durations |-> <<>>]
             IN groups' =
                  Put(groups, k,
                      [count |-> g.count + 1, first |-> g.first,
                       err |-> IF Item(next).err THEN g.err + 1 ELSE g.err,
                       durations |-> IF Timed(next) THEN Append(g.durations, Item(next).duration)
                                                    ELSE g.durations])
          /\ next' = next + 1
          /\ UNCHANGED <<pc, input, rows, window>>

-----------------------------------------------------------------------------
(* The rank is rounded, a half to the even one. *)
Percentile(sorted, percent) ==
    LET rank == percent * (Len(sorted) - 1)
        down == rank \div 100
        half == 2 * (rank % 100)
        near == IF half > 100 \/ (half = 100 /\ down % 2 = 1) THEN down + 1 ELSE down
    IN sorted[near + 1]

(* Mutant of Delays: as they came. *)
Delays_Unsorted(k) ==
    LET came == groups[k].durations
    IN IF came = <<>> THEN <<>>
       ELSE <<Percentile(came, 50), Percentile(came, 95), came[Len(came)]>>

Sorted(came) ==
    LET order == InOrder(DOMAIN came, [i \in DOMAIN came |-> <<came[i], i>>])
    IN [n \in DOMAIN order |-> came[order[n]]]

(* p50, p95, max; or nothing. *)
Delays(k) ==
    LET sorted == Sorted(groups[k].durations)
    IN IF sorted = <<>> THEN <<>>
       ELSE <<Percentile(sorted, 50), Percentile(sorted, 95), sorted[Len(sorted)]>>

OperationRows ==
    LET Order(k) == <<-groups[k].err, -groups[k].count, groups[k].first>>
        order == Listed(DOMAIN groups, Order)
    IN [n \in DOMAIN order |-> Row("operation", <<order[n], Delays(order[n])>>, {})]

(* A row for each service, with its spans by the minute. *)
VolumeRows ==
    LET Name(s) == <<s>>
        order == Listed({Item(i).service : i \in Items}, Name)
    IN [n \in DOMAIN order |-> Row("volume", <<order[n]>>, {})]

(* The slowest spans, and the first ones that are errors. *)
Slowest ==
    LET Slow(i) == <<-Item(i).duration, i>>
    IN FirstOf(Listed({i \in Items : Timed(i)}, Slow), ExemplarLimit)

Errors ==
    LET Came(i) == <<i>>
    IN FirstOf(Listed({i \in Items : Item(i).err}, Came), ExemplarLimit)

(* item not in exemplars: the same service, time and raw line. *)
Same(i, k) == Item(i) = Item(k) /\ At(i) = At(k)

(* Mutant of Exemplars: the slowest alone. *)
Exemplars_Slowest == Slowest

Exemplars ==
    LET all == Errors \o Slowest
        New(n) == \A m \in 1..(n - 1) : ~Same(all[m], all[n])
        Came(n) == <<n>>
        order == Listed({n \in DOMAIN all : New(n)}, Came)
    IN [n \in DOMAIN order |-> all[order[n]]]

RankSpans ==
    /\ pc = "read" /\ input.reader = "trace" /\ next \notin Items
    /\ rows' = OperationRows \o VolumeRows
                 \o [n \in DOMAIN Exemplars |-> Row("exemplar", Operation(Exemplars[n]), {Exemplars[n]})]
    /\ pc' = "cut"
    /\ UNCHANGED <<input, next, groups, window>>

=============================================================================
