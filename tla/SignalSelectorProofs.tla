------------------------ MODULE SignalSelectorProofs ------------------------
(***************************************************************************)
(* What holds of select_signals for every bundle, any number of groups of  *)
(* any sizes, and any cap.                                                 *)
(***************************************************************************)
EXTENDS SignalSelector, CollectionProofs

Bundle ==
    /\ input.times \in Times /\ Len(input.times) \in Nat
    /\ input.modality \in DOMAIN Entries
    /\ input.items \in [1..Len(input.times) -> UNION Entries[input.modality]]

-----------------------------------------------------------------------------
(* The groups.                                                             *)

LEMMA ItemsFinite ==
    ASSUME Bundle
    PROVE  /\ Items = 1..Len(input.times) /\ Items \subseteq Nat /\ IsFiniteSet(Items)
           /\ Cardinality(Items) = Len(input.times)
           /\ \A i \in Items : input.times[i] \in Nat
<1>1. Items = 1..Len(input.times) /\ Len(input.times) \in Nat /\ input.times \in Seq(Nat)
  BY BundleType DEF Bundle, Items
<1>2. IsFiniteSet(Items) /\ Cardinality(Items) = Len(input.times)
  BY <1>1, FS_Interval
<1> QED
  BY <1>1, <1>2

LEMMA PeersFinite ==
    ASSUME Bundle, NEW i \in Items
    PROVE  IsFiniteSet(Peers(i)) /\ Peers(i) \subseteq Items /\ i \in Peers(i)
<1>1. Peers(i) \in SUBSET Items /\ i \in Peers(i)
  BY DEF Peers
<1> QED
  BY <1>1, ItemsFinite, FS_Subset

LEMMA GradeType ==
    ASSUME Bundle, NEW i \in Items
    PROVE  Grade(i) \in Int
<1>1. input.modality \in {"log", "metric", "trace"}
  BY BundleType DEF Bundle
<1>2. CASE input.modality = "log"
  BY <1>2 DEF Grade, LEVEL_ORDER
<1>3. CASE input.modality = "metric"
  BY <1>3 DEF Grade
<1>4. CASE input.modality = "trace"
  <2> DEFINE S == {k \in Peers(i) : Before(SpanOrder(k), SpanOrder(i))}
  <2>1. IsFiniteSet(S)
    BY PeersFinite, FS_Subset
  <2>2. Cardinality(S) \in Nat
    BY <2>1, FS_CardinalityType
  <2>3. Grade(i) = Cardinality(S)
    BY <1>4 DEF Grade
  <2> QED
    BY <2>2, <2>3
<1> QED
  BY <1>1, <1>2, <1>3, <1>4

(* s lists the members of S, each in one place. *)
Lists(s, S) ==
    /\ Cardinality(S) \in Nat /\ s \in [1..Cardinality(S) -> S]
    /\ \A x \in S : \E n \in DOMAIN s : s[n] = x
    /\ \A m, n \in DOMAIN s : s[m] = s[n] => m = n

(* A bucket has its items by their grade. *)
LEMMA BucketOrder ==
    ASSUME Bundle, NEW i \in Items
    PROVE  /\ Lists(Ordered(Peers(i)), Peers(i))
           /\ \A m, n \in DOMAIN Ordered(Peers(i)) :
                 m < n => Grade(Ordered(Peers(i))[m]) <= Grade(Ordered(Peers(i))[n])
<1> DEFINE S == Peers(i)
           key == [k \in S |-> <<Grade(k), k>>]
<1>1. IsFiniteSet(S) /\ S \subseteq Items /\ \A k \in S : k \in Nat /\ Grade(k) \in Int
  BY PeersFinite, ItemsFinite, GradeType
<1>2. \A k \in S : key[k] \in Tuples(2) /\ key[k][1] = Grade(k) /\ key[k][2] = k
  BY <1>1 DEF Tuples
<1>3. key \in Keys(S, 2)
  BY <1>2 DEF Keys
<1>4. Ordered(S) = InOrder(S, key)
  BY DEF Ordered
<1> HIDE DEF key
<1>5. /\ Lists(Ordered(S), S)
      /\ \A m, n \in DOMAIN Ordered(S) : m < n <=> Before(key[Ordered(S)[m]], key[Ordered(S)[n]])
  BY <1>1, <1>3, <1>4, SortedByKey DEF Lists
<1>6. ASSUME NEW m \in DOMAIN Ordered(S), NEW n \in DOMAIN Ordered(S), m < n
      PROVE  Grade(Ordered(S)[m]) <= Grade(Ordered(S)[n])
  <2>1. Ordered(S)[m] \in S /\ Ordered(S)[n] \in S
    BY <1>5 DEF Lists
  <2>2. Before(key[Ordered(S)[m]], key[Ordered(S)[n]])
    BY <1>5, <1>6
  <2> QED
    BY <1>2, <2>1, <2>2, FirstPartDecides
<1> QED
  BY <1>5, <1>6

(* A bucket is known by its first item. *)
LEMMA BucketsTell ==
    ASSUME Bundle
    PROVE  /\ IsFiniteSet(Buckets)
           /\ \A g \in Buckets : /\ Len(g) \in Nat \ {0} /\ g \in [1..Len(g) -> Items]
                                 /\ \A k \in DOMAIN g : g = Ordered(Peers(g[k]))
                                 /\ \A k, l \in DOMAIN g : g[k] = g[l] => k = l
           /\ \A g, h \in Buckets : \A k \in DOMAIN g, l \in DOMAIN h : g[k] = h[l] => g = h
           /\ \A i \in Items : \E g \in Buckets : \E k \in DOMAIN g : g[k] = i
<1> DEFINE f == [i \in Items |-> Ordered(Peers(i))]
<1>1. IsFiniteSet(Buckets)
  <2>1. f \in Surjection(Items, Buckets)
    BY DEF Surjection, Buckets
  <2> HIDE DEF f
  <2> QED
    BY <2>1, ItemsFinite, FS_Surjection
<1>2. ASSUME NEW g \in Buckets
      PROVE  /\ Len(g) \in Nat \ {0} /\ g \in [1..Len(g) -> Items]
             /\ \A k \in DOMAIN g : g = Ordered(Peers(g[k]))
             /\ \A k, l \in DOMAIN g : g[k] = g[l] => k = l
  <2>1. PICK i \in Items : g = Ordered(Peers(i))
    BY DEF Buckets
  <2>2. Lists(g, Peers(i)) /\ i \in Peers(i) /\ Peers(i) \subseteq Items
    BY <2>1, BucketOrder, PeersFinite
  <2>3. g \in Seq(Items) /\ Len(g) = Cardinality(Peers(i)) /\ Len(g) \in Nat
    BY <2>2 DEF Lists
  <2>4. Len(g) # 0
    BY <2>2, <2>3 DEF Lists
  <2>5. \A k \in DOMAIN g : g[k] \in Peers(i)
    BY <2>2 DEF Lists
  <2>6. \A p \in Peers(i) : Peers(p) = Peers(i)
    BY DEF Peers
  <2>7. \A k \in DOMAIN g : g = Ordered(Peers(g[k]))
    BY <2>1, <2>5, <2>6
  <2> QED
    BY <2>2, <2>3, <2>4, <2>7 DEF Lists
<1>3. ASSUME NEW g \in Buckets, NEW h \in Buckets,
             NEW k \in DOMAIN g, NEW l \in DOMAIN h, g[k] = h[l]
      PROVE  g = h
  <2>1. g = Ordered(Peers(g[k])) /\ h = Ordered(Peers(h[l]))
    BY <1>2
  <2> QED
    BY <1>3, <2>1
<1>4. ASSUME NEW i \in Items
      PROVE  \E g \in Buckets : \E k \in DOMAIN g : g[k] = i
  <2>1. Ordered(Peers(i)) \in Buckets
    BY DEF Buckets
  <2>2. \E k \in DOMAIN Ordered(Peers(i)) : Ordered(Peers(i))[k] = i
    BY BucketOrder, PeersFinite DEF Lists
  <2> QED
    BY <2>1, <2>2
<1> QED
  BY <1>1, <1>2, <1>3, <1>4

(* The groups are the buckets, by their best grade first. *)
LEMMA GroupsOrder ==
    ASSUME Bundle
    PROVE  /\ Lists(OrderedGroups, Buckets)
           /\ \A m, n \in DOMAIN OrderedGroups :
                 m < n => Grade(OrderedGroups[m][1]) <= Grade(OrderedGroups[n][1])
<1> DEFINE key == [g \in Buckets |-> GroupOrder(g)]
<1>1. \A g \in Buckets : Len(g) \in Nat /\ 1 \in DOMAIN g /\ g[1] \in Items /\ g[1] \in Nat /\ Grade(g[1]) \in Int
  BY BucketsTell, ItemsFinite, GradeType
<1>2. \A g \in Buckets : key[g] \in Tuples(3) /\ key[g][1] = Grade(g[1]) /\ key[g][3] = g[1]
  BY <1>1 DEF Tuples, GroupOrder
<1>3. \A g, h \in Buckets : key[g] = key[h] => g = h
  BY <1>1, <1>2, BucketsTell
<1>4. key \in Keys(Buckets, 3)
  BY <1>2, <1>3 DEF Keys
<1>5. OrderedGroups = InOrder(Buckets, key)
  BY DEF OrderedGroups
<1> HIDE DEF key
<1>6. /\ Lists(OrderedGroups, Buckets)
      /\ \A m, n \in DOMAIN OrderedGroups :
            m < n <=> Before(key[OrderedGroups[m]], key[OrderedGroups[n]])
  BY <1>4, <1>5, BucketsTell, SortedByKey DEF Lists
<1>7. ASSUME NEW m \in DOMAIN OrderedGroups, NEW n \in DOMAIN OrderedGroups, m < n
      PROVE  Grade(OrderedGroups[m][1]) <= Grade(OrderedGroups[n][1])
  <2>1. OrderedGroups[m] \in Buckets /\ OrderedGroups[n] \in Buckets
    BY <1>6 DEF Lists
  <2>2. Before(key[OrderedGroups[m]], key[OrderedGroups[n]])
    BY <1>6, <1>7
  <2> QED
    BY <1>2, <2>1, <2>2, FirstPartDecides
<1> QED
  BY <1>6, <1>7

(* A partition of the items, in groups that are not empty. *)
Partition(G) ==
    /\ Len(G) \in Nat /\ DOMAIN G = 1..Len(G)
    /\ \A g \in DOMAIN G : Len(G[g]) \in Nat \ {0} /\ G[g] \in [1..Len(G[g]) -> Items]
    /\ \A g, h \in DOMAIN G : \A k \in DOMAIN G[g], l \in DOMAIN G[h] :
          G[g][k] = G[h][l] => g = h /\ k = l
    /\ \A i \in Items : \E g \in DOMAIN G : \E k \in DOMAIN G[g] : G[g][k] = i

LEMMA GroupsPart ==
    ASSUME Bundle
    PROVE  Partition(OrderedGroups)
<1> DEFINE G == OrderedGroups
<1>1. Lists(G, Buckets)
  BY GroupsOrder
<1> HIDE DEF G
<1>2. Len(G) \in Nat /\ DOMAIN G = 1..Len(G) /\ \A g \in DOMAIN G : G[g] \in Buckets
  BY <1>1 DEF Lists
<1>3. \A g \in DOMAIN G : Len(G[g]) \in Nat \ {0} /\ G[g] \in [1..Len(G[g]) -> Items]
  BY <1>2, BucketsTell
<1>4. ASSUME NEW g \in DOMAIN G, NEW h \in DOMAIN G, NEW k \in DOMAIN G[g], NEW l \in DOMAIN G[h],
             G[g][k] = G[h][l]
      PROVE  g = h /\ k = l
  <2>1. G[g] = G[h]
    BY <1>2, <1>4, BucketsTell
  <2>2. g = h
    BY <1>1, <2>1 DEF Lists
  <2> QED
    BY <1>2, <1>4, <2>2, BucketsTell
<1>5. ASSUME NEW i \in Items
      PROVE  \E g \in DOMAIN G : \E k \in DOMAIN G[g] : G[g][k] = i
  <2>1. PICK b \in Buckets : \E k \in DOMAIN b : b[k] = i
    BY BucketsTell
  <2>2. PICK g \in DOMAIN G : G[g] = b
    BY <1>1 DEF Lists
  <2> QED
    BY <2>1, <2>2
<1> QED
  BY <1>2, <1>3, <1>4, <1>5 DEF Partition, G

-----------------------------------------------------------------------------
(* The inductive invariant. *)

(* How often it was the turn of group g, when r passes went by before the  *)
(* groups from n on have theirs.                                           *)
Turns(g, r, n) == IF g < n THEN r ELSE r - 1

(* Every group took an item at each of its turns, while it had one. *)
Even ==
    \E r \in Nat : \A g \in DOMAIN groups :
        cursors[g] = IF Turns(g, r, gi) <= Len(groups[g]) THEN Turns(g, r, gi) ELSE Len(groups[g])

Fitting ==
    /\ pc \in {"start", "pass", "visit", "sort", "done", "raised"}
    /\ groups \in Seq(Range(groups))
    /\ cursors \in [DOMAIN groups -> Nat]
    /\ gi \in Nat /\ gi \in 1..(Len(groups) + 1)
    /\ advanced \in BOOLEAN

Grouped ==
    /\ pc = "start" => picked = <<>>
    /\ groups = <<>> \/ groups = OrderedGroups
    /\ Looping => Cardinality(Items) > cap /\ groups = OrderedGroups

Capped ==
    /\ Looping => picked \in Seq(Items) /\ Len(picked) <= cap
    /\ pc = "visit" => Len(picked) < cap
    /\ pc = "pass" /\ Len(picked) < cap => gi = Len(groups) + 1

(* What was taken is what the cursors went over. *)
Picking ==
    Looping =>
        /\ \A m, n \in DOMAIN picked : picked[m] = picked[n] => m = n
        /\ \A n \in DOMAIN picked : \E g \in DOMAIN groups : \E k \in DOMAIN groups[g] :
              picked[n] = groups[g][k] /\ k <= cursors[g]
        /\ \A g \in DOMAIN groups : \A k \in DOMAIN groups[g] :
              k <= cursors[g] => \E n \in DOMAIN picked : picked[n] = groups[g][k]

(* The loops end when the cap is reached or nothing is left. *)
Ending ==
    /\ pc = "visit" /\ ~advanced => \A g \in DOMAIN groups : g < gi => ~Rest(g)
    /\ pc = "pass" /\ ~advanced => \A g \in DOMAIN groups : ~Rest(g)
    /\ pc = "sort" => Len(picked) = cap \/ \A g \in DOMAIN groups : ~Rest(g)

(* What the loops may come to: the items of so many turns, as many as the  *)
(* cap allows, in the order of time.                                       *)
Share(r, n) ==
    {i \in Items : \E g \in DOMAIN OrderedGroups : \E k \in DOMAIN OrderedGroups[g] :
                       OrderedGroups[g][k] = i /\ k <= Turns(g, r, n)}

ByTime(S) == InOrder(S, [i \in S |-> <<input.times[i], i>>])

Chosen(p) ==
    IF Cardinality(Items) <= cap THEN p = [i \in Items |-> i]
    ELSE \E r, n \in Nat : Cardinality(Share(r, n)) = cap /\ p = ByTime(Share(r, n))

SelectorInv ==
    /\ Fitting /\ Bundle /\ Grouped /\ Capped /\ Picking /\ Ending /\ Even
    /\ pc = "done" => Chosen(picked)

LEMMA SelectorInit == Init => SelectorInv
<1> SUFFICES ASSUME Init PROVE SelectorInv
    OBVIOUS
<1>1. PICK m \in DOMAIN Entries, n \in Sizes :
        \E S \in Entries[m], ts \in {t \in Times : Len(t) = n} :
           \E items \in [1..n -> S] :
              input = [modality |-> m, items |-> items, times |-> ts]
    BY DEF Init
<1>2. PICK S \in Entries[m], ts \in {t \in Times : Len(t) = n} :
        \E items \in [1..n -> S] :
           input = [modality |-> m, items |-> items, times |-> ts]
    BY <1>1
<1>3. PICK items \in [1..n -> S] : input = [modality |-> m, items |-> items, times |-> ts]
    BY <1>2
<1>4. /\ input.modality = m /\ input.items = items /\ input.times = ts
      /\ Len(ts) = n /\ ts \in Times /\ n \in Nat
    BY <1>3, BundleType
<1>5. items \in [1..n -> UNION Entries[m]]
    <2>1. \A k \in 1..n : items[k] \in UNION Entries[m]
        OBVIOUS
    <2> QED BY <2>1
<1>6. Bundle
    BY <1>4, <1>5 DEF Bundle
<1>7. groups = <<>> /\ cursors = <<>> /\ gi = 1 /\ advanced = FALSE /\ pc = "start" /\ picked = <<>>
    BY DEF Init
<1>8. Fitting
    <2>1. groups \in Seq(Range(groups)) /\ Len(groups) = 0
        BY <1>7
    <2>2. cursors \in [DOMAIN groups -> Nat]
        BY <1>7
    <2>3. gi \in 1..(Len(groups) + 1)
        BY <1>7, <2>1
    <2> QED BY <1>7, <2>1, <2>2, <2>3 DEF Fitting
<1>9. Grouped /\ Capped /\ Picking /\ Ending
    BY <1>7 DEF Grouped, Capped, Picking, Ending, Looping
<1>10. Even
    BY <1>7 DEF Even
<1> QED BY <1>6, <1>7, <1>8, <1>9, <1>10 DEF SelectorInv

-----------------------------------------------------------------------------
(* Everything else is a matter of the bundle, which stays. *)
LEMMA GroupsStay ==
    ASSUME UNCHANGED input
    PROVE  OrderedGroups' = OrderedGroups /\ Items' = Items
<1>1. Items' = Items /\ \A i : Item(i)' = Item(i) /\ Peers(i)' = Peers(i)
  BY DEF Items, Item, Peers
<1>2. \A i : Deviant(i)' <=> Deviant(i)
  BY DEF Deviant, Items, Item, Peers
<1>3. \A i : Grade(i)' = Grade(i)
  BY <1>1, <1>2 DEF Grade, SpanOrder
<1>4. \A S : Ordered(S)' = Ordered(S)
  BY <1>3 DEF Ordered
<1> QED
  BY <1>1, <1>3, <1>4 DEF OrderedGroups, Buckets, GroupOrder

(* The turn of one group. *)

LEMMA TakeKeeps ==
    ASSUME SelectorInv, pc = "visit", gi \in DOMAIN groups, Rest(gi), Take(gi),
           UNCHANGED <<input, groups>>
    PROVE  SelectorInv'
<1> USE CapType
<1> DEFINE new == groups[gi][cursors[gi] + 1]
<1>1. /\ gi \in 1..Len(groups) /\ Len(groups) \in Nat /\ DOMAIN groups = 1..Len(groups)
      /\ cursors \in [DOMAIN groups -> Nat]
      /\ picked \in Seq(Items) /\ Len(picked) \in Nat /\ Len(picked) < cap
      /\ groups = OrderedGroups /\ Cardinality(Items) > cap /\ Bundle
    BY DEF SelectorInv, Fitting, Capped, Grouped, Looping
<1>2. Partition(groups)
    BY <1>1, GroupsPart
<1>3. /\ gi' = gi + 1 /\ groups' = groups /\ pc' \in {"pass", "visit"} /\ advanced' = TRUE
      /\ cursors' = [cursors EXCEPT ![gi] = cursors[gi] + 1]
      /\ picked' = Append(picked, new) /\ Items' = Items
      /\ pc' = IF Len(picked') >= cap THEN "pass" ELSE "visit"
    BY DEF Take, Items
<1>4. new \in Items /\ cursors[gi] + 1 \in DOMAIN groups[gi] /\ Len(groups[gi]) \in Nat
      /\ DOMAIN groups[gi] = 1..Len(groups[gi])
    <2>1. Len(groups[gi]) \in Nat \ {0} /\ groups[gi] \in [1..Len(groups[gi]) -> Items]
        BY <1>1, <1>2 DEF Partition
    <2> QED BY <2>1 DEF Rest
<1>5. /\ picked' \in Seq(Items) /\ Len(picked') = Len(picked) + 1
      /\ DOMAIN picked' = 1..(Len(picked) + 1) /\ DOMAIN picked = 1..Len(picked)
      /\ picked'[Len(picked) + 1] = new /\ \A n \in DOMAIN picked : picked'[n] = picked[n]
    BY <1>1, <1>3, <1>4
<1>6. \A k \in DOMAIN groups : cursors'[k] = IF k = gi THEN cursors[k] + 1 ELSE cursors[k]
    BY <1>1, <1>3
<1>7. Fitting'
    <2>1. cursors' \in [DOMAIN groups' -> Nat]
        BY <1>1, <1>3
    <2>2. groups' \in Seq(Range(groups'))
        BY <1>3 DEF SelectorInv, Fitting
    <2> QED BY <1>1, <1>3, <2>1, <2>2 DEF Fitting
<1>8. Bundle' /\ Grouped' /\ Capped'
    <2>1. Bundle' /\ OrderedGroups' = OrderedGroups
        BY GroupsStay DEF SelectorInv, Bundle
    <2> QED BY <1>1, <1>3, <1>5, <2>1 DEF Grouped, Capped, Looping
<1>9. Picking'
    <2>1. \A n \in DOMAIN picked : picked[n] # new
        <3> SUFFICES ASSUME NEW n \in DOMAIN picked, picked[n] = new PROVE FALSE
            OBVIOUS
        <3>1. PICK g \in DOMAIN groups : \E k \in DOMAIN groups[g] :
                  picked[n] = groups[g][k] /\ k <= cursors[g]
            BY DEF SelectorInv, Picking, Looping
        <3>2. PICK k \in DOMAIN groups[g] : picked[n] = groups[g][k] /\ k <= cursors[g]
            BY <3>1
        <3>3. g = gi /\ k = cursors[gi] + 1
            <4>1. groups[g][k] = groups[gi][cursors[gi] + 1]
                BY <3>2
            <4> DEFINE l == cursors[gi] + 1
            <4>2. l \in DOMAIN groups[gi] /\ groups[g][k] = groups[gi][l]
                BY <1>4, <4>1
            <4> HIDE DEF l
            <4>3. g = gi /\ k = l
                BY <1>2, <4>2 DEF Partition
            <4> QED BY <4>3 DEF l
        <3>4. cursors[gi] \in Nat
            BY <1>1
        <3> QED BY <3>2, <3>3, <3>4
    <2>2. \A m, n \in DOMAIN picked' : picked'[m] = picked'[n] => m = n
        BY <1>1, <1>5, <2>1 DEF SelectorInv, Picking, Looping
    <2>3. ASSUME NEW n \in DOMAIN picked'
          PROVE  \E g \in DOMAIN groups : \E k \in DOMAIN groups[g] :
                    picked'[n] = groups[g][k] /\ k <= cursors'[g]
        <3>1. CASE n = Len(picked) + 1
            <4>1. picked'[n] = groups[gi][cursors[gi] + 1] /\ cursors[gi] + 1 <= cursors'[gi]
                BY <1>1, <1>5, <1>6, <3>1
            <4> QED BY <1>4, <4>1
        <3>2. CASE n \in DOMAIN picked
            <4>1. PICK g \in DOMAIN groups : \E k \in DOMAIN groups[g] :
                      picked[n] = groups[g][k] /\ k <= cursors[g]
                BY <3>2 DEF SelectorInv, Picking, Looping
            <4>2. PICK k \in DOMAIN groups[g] : picked[n] = groups[g][k] /\ k <= cursors[g]
                BY <4>1
            <4>3. k <= cursors'[g]
                <5>1. cursors[g] \in Nat /\ cursors'[g] \in {cursors[g], cursors[g] + 1}
                    BY <1>1, <1>6
                <5>2. k \in Nat
                    BY <1>2 DEF Partition
                <5> QED BY <4>2, <5>1, <5>2
            <4> QED BY <1>5, <3>2, <4>2, <4>3
        <3> QED BY <1>1, <1>5, <3>1, <3>2
    <2>4. ASSUME NEW g \in DOMAIN groups, NEW k \in DOMAIN groups[g], k <= cursors'[g]
          PROVE  \E n \in DOMAIN picked' : picked'[n] = groups[g][k]
        <3>1. k \in Nat /\ cursors[g] \in Nat
            BY <1>1, <1>2 DEF Partition
        <3>2. CASE k <= cursors[g]
            <4>1. PICK n \in DOMAIN picked : picked[n] = groups[g][k]
                BY <3>2 DEF SelectorInv, Picking, Looping
            <4> QED BY <1>1, <1>5, <4>1
        <3>3. CASE ~(k <= cursors[g])
            <4>1. g = gi /\ k = cursors[gi] + 1
                BY <1>6, <2>4, <3>1, <3>3
            <4> QED BY <1>1, <1>5, <4>1
        <3> QED BY <3>2, <3>3
    <2> QED BY <1>3, <2>2, <2>3, <2>4 DEF Picking
<1>10. Ending'
    BY <1>3 DEF Ending
<1>11. Even'
    <2>1. PICK r \in Nat : \A g \in DOMAIN groups :
              cursors[g] = IF Turns(g, r, gi) <= Len(groups[g]) THEN Turns(g, r, gi)
                                                               ELSE Len(groups[g])
        BY DEF SelectorInv, Even
    <2>2. \A g \in DOMAIN groups : g \in Nat /\ Len(groups[g]) \in Nat /\ cursors[g] \in Nat
        BY <1>1, <1>2 DEF Partition
    <2>3. cursors[gi] = r - 1 /\ r <= Len(groups[gi])
        BY <1>1, <1>4, <2>1, <2>2 DEF Turns
    <2>4. ASSUME NEW g \in DOMAIN groups
          PROVE  cursors'[g] = IF Turns(g, r, gi + 1) <= Len(groups[g]) THEN Turns(g, r, gi + 1)
                                                                     ELSE Len(groups[g])
        <3>1. CASE g = gi
            BY <1>1, <1>6, <2>2, <2>3, <3>1 DEF Turns
        <3>2. CASE g # gi
            <4>1. Turns(g, r, gi + 1) = Turns(g, r, gi) /\ cursors'[g] = cursors[g]
                BY <1>1, <1>6, <2>2, <3>2 DEF Turns
            <4> QED BY <2>1, <4>1
        <3> QED BY <3>1, <3>2
    <2> QED BY <1>3, <2>4 DEF Even
<1> QED BY <1>3, <1>7, <1>8, <1>9, <1>10, <1>11 DEF SelectorInv

LEMMA SkipKeeps ==
    ASSUME SelectorInv, pc = "visit", gi \in DOMAIN groups, ~Rest(gi),
           gi' = gi + 1, UNCHANGED <<pc, input, groups, cursors, advanced, picked>>
    PROVE  SelectorInv'
<1>1. /\ gi \in 1..Len(groups) /\ Len(groups) \in Nat /\ DOMAIN groups = 1..Len(groups)
      /\ cursors \in [DOMAIN groups -> Nat]
      /\ groups = OrderedGroups /\ Bundle /\ Items' = Items /\ Bundle' /\ OrderedGroups' = OrderedGroups
    BY GroupsStay DEF SelectorInv, Fitting, Grouped, Looping, Bundle
<1>2. Fitting'
    BY <1>1 DEF SelectorInv, Fitting
<1>3. Grouped' /\ Capped' /\ Picking'
    BY <1>1 DEF SelectorInv, Grouped, Capped, Picking, Looping
<1>4. Partition(groups)
    BY <1>1, GroupsPart
<1>5. \A g \in DOMAIN groups : g \in Nat /\ Len(groups[g]) \in Nat /\ cursors[g] \in Nat
                               /\ DOMAIN groups[g] = 1..Len(groups[g])
    BY <1>1, <1>4 DEF Partition
<1>6. Ending'
    <2>1. ASSUME ~advanced, NEW g \in DOMAIN groups, g < gi + 1
          PROVE  ~Rest(g)
        <3>1. g < gi \/ g = gi
            BY <1>1, <1>5, <2>1
        <3> QED BY <2>1, <3>1 DEF SelectorInv, Ending
    <2> QED BY <2>1 DEF SelectorInv, Ending, Rest
<1>7. Even'
    <2>1. PICK r \in Nat : \A g \in DOMAIN groups :
              cursors[g] = IF Turns(g, r, gi) <= Len(groups[g]) THEN Turns(g, r, gi)
                                                               ELSE Len(groups[g])
        BY DEF SelectorInv, Even
    <2>2. Turns(gi, r, gi) > Len(groups[gi]) - 1
        BY <1>1, <1>5, <2>1 DEF Rest, Turns
    <2>3. ASSUME NEW g \in DOMAIN groups
          PROVE  cursors[g] = IF Turns(g, r, gi + 1) <= Len(groups[g]) THEN Turns(g, r, gi + 1)
                                                                      ELSE Len(groups[g])
        <3>1. CASE g = gi
            BY <1>1, <1>5, <2>1, <2>2, <3>1 DEF Turns
        <3>2. CASE g # gi
            <4>1. Turns(g, r, gi + 1) = Turns(g, r, gi)
                BY <1>1, <1>5, <3>2 DEF Turns
            <4> QED BY <2>1, <4>1
        <3> QED BY <3>1, <3>2
    <2> QED BY <2>3 DEF Even
<1> QED BY <1>1, <1>2, <1>3, <1>6, <1>7 DEF SelectorInv

(* What the loops come to. *)
LEMMA LoopsCollect ==
    ASSUME SelectorInv, pc = "sort"
    PROVE  \E r, n \in Nat : Selected = Share(r, n) /\ Cardinality(Share(r, n)) = cap
<1>1. /\ groups = OrderedGroups /\ Bundle /\ gi \in Nat /\ Cardinality(Items) > cap
      /\ picked \in Seq(Items) /\ Len(picked) \in Nat /\ Len(picked) <= cap
      /\ DOMAIN picked = 1..Len(picked) /\ picked \in [1..Len(picked) -> Items]
    BY DEF SelectorInv, Fitting, Grouped, Capped, Looping
<1>2. Partition(groups)
    BY <1>1, GroupsPart
<1>3. \A g \in DOMAIN groups : g \in Nat /\ Len(groups[g]) \in Nat /\ cursors[g] \in Nat
                               /\ DOMAIN groups[g] = 1..Len(groups[g])
    BY <1>1, <1>2 DEF Partition, SelectorInv, Fitting
<1>4. PICK r \in Nat : \A g \in DOMAIN groups :
          cursors[g] = IF Turns(g, r, gi) <= Len(groups[g]) THEN Turns(g, r, gi)
                                                           ELSE Len(groups[g])
    BY DEF SelectorInv, Even
<1>5. \A g \in DOMAIN groups : \A k \in DOMAIN groups[g] :
          k \in Nat /\ (k <= cursors[g] <=> k <= Turns(g, r, gi))
    <2> SUFFICES ASSUME NEW g \in DOMAIN groups, NEW k \in DOMAIN groups[g]
                 PROVE  k \in Nat /\ (k <= cursors[g] <=> k <= Turns(g, r, gi))
        OBVIOUS
    <2>1. Turns(g, r, gi) \in Int /\ k \in Nat /\ k <= Len(groups[g])
        BY <1>1, <1>3 DEF Turns
    <2> QED BY <1>3, <1>4, <2>1
<1>6. Selected = {picked[m] : m \in DOMAIN picked}
    BY DEF Selected, ToSet
<1>7. Selected = Share(r, gi)
    <2>1. ASSUME NEW m \in DOMAIN picked  PROVE picked[m] \in Share(r, gi)
        <3>1. PICK g \in DOMAIN groups : \E k \in DOMAIN groups[g] :
                  picked[m] = groups[g][k] /\ k <= cursors[g]
            BY DEF SelectorInv, Picking, Looping
        <3>2. PICK k \in DOMAIN groups[g] : picked[m] = groups[g][k] /\ k <= cursors[g]
            BY <3>1
        <3>3. picked[m] \in Items
            BY <1>1
        <3> QED BY <1>1, <1>5, <3>2, <3>3 DEF Share
    <2>2. ASSUME NEW i \in Share(r, gi)  PROVE \E m \in DOMAIN picked : picked[m] = i
        <3>1. PICK g \in DOMAIN groups : \E k \in DOMAIN groups[g] :
                  groups[g][k] = i /\ k <= Turns(g, r, gi)
            BY <1>1 DEF Share
        <3>2. PICK k \in DOMAIN groups[g] : groups[g][k] = i /\ k <= cursors[g]
            BY <1>5, <3>1
        <3> QED BY <3>2 DEF SelectorInv, Picking, Looping
    <2> QED BY <1>6, <2>1, <2>2
<1>8. IsFiniteSet(Selected) /\ Cardinality(Selected) = Len(picked)
    <2>1. picked \in Surjection(1..Len(picked), Selected)
        BY <1>1, <1>6 DEF Surjection
    <2>2. \A k, m \in 1..Len(picked) : picked[k] = picked[m] => k = m
        BY <1>1 DEF SelectorInv, Picking, Looping
    <2>3. picked \in Injection(1..Len(picked), Selected)
        BY <2>1, <2>2 DEF Injection, IsInjective, Surjection
    <2>4. IsFiniteSet(1..Len(picked)) /\ Cardinality(1..Len(picked)) = Len(picked)
        BY <1>1, FS_Interval
    <2>5. ExistsBijection(1..Len(picked), Selected)
        BY <2>1, <2>3 DEF ExistsBijection, Bijection
    <2> QED BY <2>4, <2>5, FS_Bijection
<1>9. Len(picked) = cap
    <2> SUFFICES ASSUME Len(picked) # cap PROVE FALSE
        OBVIOUS
    <2>1. \A g \in DOMAIN groups : ~Rest(g)
        BY DEF SelectorInv, Ending
    <2>2. \A g \in DOMAIN groups : \A k \in DOMAIN groups[g] : k <= cursors[g]
        BY <1>3, <2>1 DEF Rest
    <2>3. ASSUME NEW i \in Items  PROVE i \in Selected
        <3>1. PICK g \in DOMAIN groups : \E k \in DOMAIN groups[g] : groups[g][k] = i
            BY <1>2 DEF Partition
        <3>2. PICK m \in DOMAIN picked : picked[m] = i
            BY <2>2, <3>1 DEF SelectorInv, Picking, Looping
        <3> QED BY <1>6, <3>2
    <2>4. Selected = Items
        BY <1>1, <1>6, <2>3
    <2>5. Cardinality(Items) = Len(picked)
        BY <1>8, <2>4
    <2>6. Len(picked) \in Nat /\ cap \in Nat /\ Len(picked) <= cap /\ Len(picked) > cap
        BY <1>1, <2>5, CapType
    <2> QED BY <2>6
<1> QED BY <1>1, <1>4, <1>7, <1>8, <1>9

LEMMA SortKeeps == SelectorInv /\ Sort => SelectorInv'
<1> SUFFICES ASSUME SelectorInv, Sort PROVE SelectorInv'
    OBVIOUS
<1>1. /\ pc = "sort" /\ pc' = "done" /\ UNCHANGED <<input, groups, cursors, gi, advanced>>
      /\ picked' = ByTime(Selected) /\ Cardinality(Items) > cap /\ Cardinality(Items) \in Nat
    <2>1. pc = "sort" /\ Bundle
        BY DEF Sort, SelectorInv
    <2>2. Cardinality(Items) \in Nat
        BY <2>1, ItemsFinite DEF Bundle
    <2> QED BY <2>1, <2>2 DEF Sort, ByTime, SelectorInv, Grouped, Looping
<1>2. PICK r \in Nat, n \in Nat : Selected = Share(r, n) /\ Cardinality(Share(r, n)) = cap
    BY <1>1, LoopsCollect
<1>3. OrderedGroups' = OrderedGroups /\ Items' = Items
    BY <1>1, GroupsStay
<1>4. Share(r, n)' = Share(r, n) /\ ByTime(Share(r, n))' = ByTime(Share(r, n))
    BY <1>1, <1>3 DEF Share, ByTime, Turns
<1>5. Chosen(picked)'
    <2>1. Cardinality(Items') = Cardinality(Items)
        BY <1>3
    <2>2. ~(Cardinality(Items) <= cap)
        BY <1>1, CapType
    <2>3. Cardinality(Share(r, n)') = cap /\ picked' = ByTime(Share(r, n))'
        BY <1>1, <1>2, <1>4
    <2> QED BY <2>1, <2>2, <2>3 DEF Chosen
<1>6. Fitting' /\ Bundle' /\ Even'
    BY <1>1 DEF SelectorInv, Fitting, Bundle, Even
<1>7. Grouped' /\ Capped' /\ Picking' /\ Ending'
    <2>1. Grouped'
        BY <1>1, <1>3 DEF SelectorInv, Grouped, Looping
    <2>2. Capped' /\ Picking' /\ Ending'
        BY <1>1 DEF Capped, Picking, Ending, Looping
    <2> QED BY <2>1, <2>2
<1> QED BY <1>5, <1>6, <1>7 DEF SelectorInv

LEMMA SelectorStep == SelectorInv /\ [Next]_vars => SelectorInv'
<1> USE CapType
<1> SUFFICES ASSUME SelectorInv, [Next]_vars
             PROVE  SelectorInv'
    OBVIOUS
<1>0. /\ Len(groups) \in Nat /\ DOMAIN groups = 1..Len(groups)
      /\ groups \in Seq(Range(groups)) /\ cursors \in [DOMAIN groups -> Nat]
      /\ Bundle
    BY DEF SelectorInv, Fitting
<1>1. CASE PassThrough
    <2>1. /\ pc' = "done" /\ UNCHANGED <<input, groups, cursors, gi, advanced>>
          /\ picked' = [i \in Items |-> i] /\ Cardinality(Items) <= cap
        BY <1>1 DEF PassThrough
    <2>2. Items' = Items
        BY <2>1 DEF Items
    <2>3. Chosen(picked)'
        BY <2>1, <2>2 DEF Chosen
    <2>4. Fitting' /\ Bundle' /\ Even'
        BY <2>1 DEF SelectorInv, Fitting, Bundle, Even
    <2>5. Grouped' /\ Capped' /\ Picking' /\ Ending'
        <3>1. Grouped'
            BY <2>1, GroupsStay DEF SelectorInv, Grouped, Looping
        <3>2. Capped' /\ Picking' /\ Ending'
            BY <2>1 DEF Capped, Picking, Ending, Looping
        <3> QED BY <3>1, <3>2
    <2> QED BY <2>3, <2>4, <2>5 DEF SelectorInv
<1>2. CASE Raise
    <2>1. /\ pc' = "raised" /\ UNCHANGED <<input, groups, cursors, gi, advanced, picked>>
        BY <1>2 DEF Raise
    <2>2. Fitting' /\ Bundle' /\ Even'
        BY <2>1 DEF SelectorInv, Fitting, Bundle, Even
    <2>3. Grouped' /\ Capped' /\ Picking' /\ Ending'
        <3>1. Grouped'
            BY <2>1, GroupsStay DEF SelectorInv, Grouped, Looping
        <3>2. Capped' /\ Picking' /\ Ending'
            BY <2>1 DEF Capped, Picking, Ending, Looping
        <3> QED BY <3>1, <3>2
    <2> QED BY <2>1, <2>2, <2>3 DEF SelectorInv
<1>3. CASE Group
    <2>1. Partition(OrderedGroups) /\ groups' = OrderedGroups /\ OrderedGroups' = OrderedGroups
        BY <1>0, <1>3, GroupsPart, GroupsStay DEF Group
    <2>2. /\ cursors' = [g \in DOMAIN groups' |-> 0] /\ gi' = Len(groups') + 1
          /\ pc' = "pass" /\ advanced' = TRUE /\ picked' = <<>> /\ input' = input
          /\ Cardinality(Items) > cap /\ Items' = Items
        BY <1>3 DEF Group, SelectorInv, Grouped, Items
    <2>3. /\ DOMAIN groups' = 1..Len(groups') /\ Len(groups') \in Nat
          /\ \A g \in DOMAIN groups' : Len(groups'[g]) \in Nat /\ DOMAIN groups'[g] = 1..Len(groups'[g])
        BY <2>1 DEF Partition
    <2>4. Fitting'
        <3>1. groups' \in Seq(Range(groups'))
            <4>1. groups' = [n \in 1..Len(groups') |-> groups'[n]]
                BY <2>1, <2>3, GroupsOrder, <1>0 DEF Lists
            <4>2. \A n \in 1..Len(groups') : groups'[n] \in Range(groups')
                BY <2>3 DEF Range
            <4>3. groups' \in [1..Len(groups') -> Range(groups')]
                BY <4>1, <4>2
            <4> QED BY <2>3, <4>3
        <3>2. cursors' \in [DOMAIN groups' -> Nat]
            BY <2>2
        <3> QED BY <2>2, <2>3, <3>1, <3>2 DEF Fitting
    <2>5. Grouped' /\ Ending' /\ Bundle'
        BY <1>0, <2>1, <2>2 DEF Grouped, Ending, Bundle, Looping
    <2>6. Capped'
        BY <2>2 DEF Capped, Looping
    <2>7. Picking'
        BY <2>2, <2>3 DEF Picking, Looping
    <2>8. Even'
        <3>1. \A g \in DOMAIN groups' : Turns(g, 0, gi') = 0 /\ cursors'[g] = 0
            BY <2>2, <2>3 DEF Turns
        <3>2. \A g \in DOMAIN groups' :
                cursors'[g] = IF Turns(g, 0, gi') <= Len(groups'[g]) THEN Turns(g, 0, gi')
                                                                   ELSE Len(groups'[g])
            BY <2>3, <3>1
        <3> QED BY <3>2 DEF Even
    <2> QED BY <2>2, <2>4, <2>5, <2>6, <2>7, <2>8 DEF SelectorInv
<1>4. CASE Pass
    <2>1. CASE advanced /\ Len(picked) < cap
        <3>1. /\ pc = "pass" /\ pc' = "visit" /\ gi' = 1 /\ gi = Len(groups) + 1 /\ advanced' = FALSE
              /\ UNCHANGED <<input, groups, cursors, picked>>
            BY <1>4, <2>1 DEF Pass, SelectorInv, Capped
        <3>2. Fitting' /\ Bundle'
            <4>1. gi' \in Nat /\ gi' \in 1..(Len(groups') + 1)
                BY <1>0, <3>1
            <4>2. Range(groups)' = Range(groups)
                BY <3>1 DEF Range
            <4> QED BY <1>0, <3>1, <4>1, <4>2 DEF Fitting, Bundle
        <3>3. OrderedGroups' = OrderedGroups /\ Items' = Items
            BY <3>1, GroupsStay
        <3>4. Grouped' /\ Capped' /\ Picking'
            BY <2>1, <3>1, <3>3 DEF SelectorInv, Grouped, Capped, Picking, Looping
        <3>5. Ending'
            BY <1>0, <3>1 DEF Ending
        <3>6. Even'
            <4>1. PICK r \in Nat : \A g \in DOMAIN groups :
                      cursors[g] = IF Turns(g, r, gi) <= Len(groups[g]) THEN Turns(g, r, gi)
                                                                       ELSE Len(groups[g])
                BY DEF SelectorInv, Even
            <4>2. r + 1 \in Nat /\ \A g \in DOMAIN groups : Turns(g, r + 1, 1) = Turns(g, r, gi)
                BY <1>0, <3>1 DEF Turns
            <4>3. \A g \in DOMAIN groups :
                      cursors[g] = IF Turns(g, r + 1, 1) <= Len(groups[g]) THEN Turns(g, r + 1, 1)
                                                                          ELSE Len(groups[g])
                BY <4>1, <4>2
            <4> QED BY <3>1, <4>2, <4>3 DEF Even
        <3> QED BY <3>1, <3>2, <3>4, <3>5, <3>6 DEF SelectorInv
    <2>2. CASE ~(advanced /\ Len(picked) < cap)
        <3>1. pc = "pass" /\ pc' = "sort" /\ UNCHANGED <<input, groups, cursors, gi, advanced, picked>>
            BY <1>4, <2>2 DEF Pass
        <3>2. OrderedGroups' = OrderedGroups /\ Items' = Items
            BY <3>1, GroupsStay
        <3>3. Fitting' /\ Bundle' /\ Even'
            BY <3>1 DEF SelectorInv, Fitting, Bundle, Even
        <3>7. Capped' /\ Picking'
            BY <3>1, <3>2 DEF SelectorInv, Capped, Picking, Looping
        <3>6. Grouped'
            BY <3>1, <3>2 DEF SelectorInv, Grouped, Looping
        <3>4. Len(picked) = cap \/ \A g \in DOMAIN groups : ~Rest(g)
            <4>1. Len(picked) \in Nat /\ Len(picked) <= cap
                BY <3>1 DEF SelectorInv, Capped, Looping
            <4> QED BY <2>2, <3>1, <4>1 DEF SelectorInv, Ending
        <3>5. Ending'
            BY <3>1, <3>4 DEF Ending, Rest
        <3> QED BY <3>1, <3>3, <3>5, <3>6, <3>7 DEF SelectorInv
    <2> QED BY <2>1, <2>2
<1>5. CASE Visit
    <2>1. CASE gi \in DOMAIN groups /\ Rest(gi) /\ Take(gi)
        BY <1>5, <2>1, TakeKeeps DEF Visit
    <2>2. CASE /\ gi \in DOMAIN groups /\ ~Rest(gi)
               /\ gi' = gi + 1
               /\ UNCHANGED <<pc, cursors, advanced, picked>>
        BY <1>5, <2>2, SkipKeeps DEF Visit
    <2>3. CASE /\ gi \notin DOMAIN groups
               /\ pc' = "pass"
               /\ UNCHANGED <<gi, cursors, advanced, picked>>
        <3>1. gi = Len(groups) + 1
            <4>1. gi \in 1..(Len(groups) + 1) /\ gi \in Nat
                BY DEF SelectorInv, Fitting
            <4> QED BY <1>0, <2>3, <4>1
        <3>2. pc = "visit" /\ UNCHANGED <<input, groups>>
            BY <1>5 DEF Visit
        <3>3. OrderedGroups' = OrderedGroups /\ Items' = Items
            BY <3>2, GroupsStay
        <3>4. Fitting' /\ Bundle' /\ Grouped' /\ Capped' /\ Picking' /\ Even'
            BY <2>3, <3>1, <3>2, <3>3
                DEF SelectorInv, Fitting, Bundle, Grouped, Capped, Picking, Even, Looping
        <3>5. ~advanced => \A g \in DOMAIN groups : ~Rest(g)
            <4>1. \A g \in DOMAIN groups : g < gi
                BY <1>0, <3>1
            <4> QED BY <3>2, <4>1 DEF SelectorInv, Ending
        <3>6. Ending'
            BY <2>3, <3>2, <3>5 DEF Ending, Rest
        <3> QED BY <2>3, <3>4, <3>6 DEF SelectorInv
    <2> QED BY <1>5, <2>1, <2>2, <2>3 DEF Visit
<1>6. CASE Sort
    BY <1>6, SortKeeps
<1>7. CASE UNCHANGED vars
    <2>1. OrderedGroups' = OrderedGroups /\ Items' = Items
        BY <1>7, GroupsStay DEF vars
    <2>2. \A r, n : Share(r, n)' = Share(r, n) /\ ByTime(Share(r, n))' = ByTime(Share(r, n))
        BY <1>7, <2>1 DEF vars, Share, ByTime, Turns
    <2>3. Chosen(picked)' <=> Chosen(picked)
        BY <1>7, <2>1, <2>2 DEF vars, Chosen
    <2>4. Fitting' /\ Bundle' /\ Even'
        BY <1>7 DEF vars, SelectorInv, Fitting, Bundle, Even
    <2>5. Grouped' /\ Capped' /\ Picking'
        BY <1>7, <2>1 DEF vars, SelectorInv, Grouped, Capped, Picking, Looping
    <2>6. Ending'
        BY <1>7 DEF vars, SelectorInv, Ending, Rest
    <2> QED BY <1>7, <2>3, <2>4, <2>5, <2>6 DEF vars, SelectorInv
<1> QED BY <1>1, <1>2, <1>3, <1>4, <1>5, <1>6, <1>7 DEF Next

-----------------------------------------------------------------------------
LEMMA InvType == SelectorInv => TypeOK
BY DEF SelectorInv, Fitting, Capped, Bundle, TypeOK

(* Type correctness, and in particular that the loops of _round_robin      *)
(* never hold more items than the cap.                                     *)
THEOREM SelectorTypeCorrect == Spec => []TypeOK
BY SelectorInit, SelectorStep, InvType, PTL DEF Spec

LEMMA EvenIsFair == SelectorInv => NoFavourites
<1> SUFFICES ASSUME SelectorInv, NEW g \in DOMAIN cursors, NEW h \in DOMAIN cursors, Rest(g)
             PROVE  cursors[h] <= cursors[g] + 1
    BY DEF NoFavourites
<1>1. DOMAIN cursors = DOMAIN groups /\ cursors[g] \in Nat /\ cursors[h] \in Nat /\ gi \in Nat
    BY DEF SelectorInv, Fitting
<1>2. groups = OrderedGroups
    BY <1>1 DEF SelectorInv, Grouped
<1>3. Partition(groups)
    BY <1>2, GroupsPart DEF SelectorInv
<1>4. \A k \in DOMAIN groups : k \in Nat /\ Len(groups[k]) \in Nat /\ DOMAIN groups[k] = 1..Len(groups[k])
    BY <1>3 DEF Partition
<1>5. PICK r \in Nat : \A k \in DOMAIN groups :
          cursors[k] = IF Turns(k, r, gi) <= Len(groups[k]) THEN Turns(k, r, gi)
                                                           ELSE Len(groups[k])
    BY DEF SelectorInv, Even
<1>6. cursors[g] < Len(groups[g])
    BY <1>1, <1>4 DEF Rest
<1> QED BY <1>1, <1>4, <1>5, <1>6 DEF Turns

(* No group that still has items is more than one item behind another,     *)
(* for every bundle: what the round robin of select_signals is for.        *)
THEOREM RoundRobinFair == Spec => []NoFavourites
BY SelectorInit, SelectorStep, EvenIsFair, PTL DEF Spec

(* The items of S, by time. *)
LEMMA SharesByTime ==
    ASSUME Bundle, NEW S \in SUBSET Items
    PROVE  /\ Lists(ByTime(S), S)
           /\ \A m, n \in DOMAIN ByTime(S) :
                 m < n => input.times[ByTime(S)[m]] <= input.times[ByTime(S)[n]]
<1> DEFINE key == [i \in S |-> <<input.times[i], i>>]
<1>1. IsFiniteSet(S) /\ \A i \in S : i \in Nat /\ input.times[i] \in Nat
    BY ItemsFinite, FS_Subset
<1>2. \A i \in S : key[i] \in Tuples(2) /\ key[i][1] = input.times[i] /\ key[i][2] = i
    BY <1>1 DEF Tuples
<1>3. key \in Keys(S, 2)
    BY <1>2 DEF Keys
<1>4. ByTime(S) = InOrder(S, key)
    BY DEF ByTime
<1> HIDE DEF key
<1>5. /\ Lists(ByTime(S), S)
      /\ \A m, n \in DOMAIN ByTime(S) : m < n <=> Before(key[ByTime(S)[m]], key[ByTime(S)[n]])
    BY <1>1, <1>3, <1>4, SortedByKey DEF Lists
<1>6. ASSUME NEW m \in DOMAIN ByTime(S), NEW n \in DOMAIN ByTime(S), m < n
      PROVE  input.times[ByTime(S)[m]] <= input.times[ByTime(S)[n]]
    <2>1. ByTime(S)[m] \in S /\ ByTime(S)[n] \in S
        BY <1>5 DEF Lists
    <2>2. Before(key[ByTime(S)[m]], key[ByTime(S)[n]])
        BY <1>5, <1>6
    <2> QED BY <1>2, <2>1, <2>2, FirstPartDecides
<1> QED BY <1>5, <1>6

(* What the selection is, as a set. *)
LEMMA ChosenSet ==
    ASSUME Bundle, Chosen(picked)
    PROVE  /\ Selected \in SUBSET Items /\ Lists(picked, Selected)
           /\ IF Cardinality(Items) <= cap THEN Selected = Items
              ELSE /\ Cardinality(Selected) = cap
                   /\ \E r, n \in Nat : Selected = Share(r, n)
<1>1. Items = 1..Len(input.times) /\ Cardinality(Items) \in Nat /\ Cardinality(Items) = Len(input.times)
    BY ItemsFinite DEF Bundle
<1>2. Selected = {picked[m] : m \in DOMAIN picked}
    BY DEF Selected, ToSet
<1>3. CASE Cardinality(Items) <= cap
    <2>1. picked = [i \in Items |-> i]
        BY <1>3 DEF Chosen
    <2>2. Selected = Items
        BY <1>2, <2>1
    <2>3. Lists(picked, Items)
        BY <1>1, <2>1 DEF Lists
    <2> QED BY <1>3, <2>2, <2>3
<1>4. CASE ~(Cardinality(Items) <= cap)
    <2>1. PICK r \in Nat, n \in Nat : Cardinality(Share(r, n)) = cap /\ picked = ByTime(Share(r, n))
        BY <1>4 DEF Chosen
    <2>2. Share(r, n) \in SUBSET Items
        BY DEF Share
    <2>3. Lists(picked, Share(r, n))
        BY <2>1, <2>2, SharesByTime
    <2>4. Selected = Share(r, n)
        BY <1>2, <2>3 DEF Lists
    <2> QED BY <1>4, <2>1, <2>2, <2>3, <2>4
<1> QED BY <1>3, <1>4

LEMMA InvFills == SelectorInv => CapFilled
<1> SUFFICES ASSUME SelectorInv, pc = "done"
             PROVE  /\ Len(picked) = IF Cardinality(Items) <= cap THEN Cardinality(Items) ELSE cap
                    /\ IsInjective(picked)
                    /\ ToSet(picked) \subseteq Items
    BY DEF CapFilled
<1>1. Bundle /\ Chosen(picked)
    BY DEF SelectorInv
<1>2. /\ Selected \in SUBSET Items /\ Lists(picked, Selected)
      /\ IF Cardinality(Items) <= cap THEN Selected = Items ELSE Cardinality(Selected) = cap
    BY <1>1, ChosenSet
<1>3. Len(picked) = Cardinality(Selected)
    BY <1>2 DEF Lists
<1>4. IsInjective(picked)
    BY <1>2 DEF Lists, IsInjective
<1> QED BY <1>2, <1>3, <1>4 DEF Selected

(* A selection is as large as the cap lets it be, and has every item once. *)
THEOREM SelectionFull == Spec => []CapFilled
BY SelectorInit, SelectorStep, InvFills, PTL DEF Spec

-----------------------------------------------------------------------------
(* Grades and severities. *)
LEMMA GradeIsSeverity ==
    ASSUME Bundle, input.modality # "trace", NEW i \in Items
    PROVE  Severity(i) = Grade(i)
<1>1. input.modality \in {"log", "metric"}
    BY BundleType DEF Bundle
<1> QED BY <1>1 DEF Severity, Grade

LEMMA GradeTellsSeverity ==
    ASSUME Bundle, NEW i \in Items, NEW k \in Peers(i), Grade(i) <= Grade(k)
    PROVE  Severity(i) <= Severity(k)
<1>1. k \in Items /\ i \in Peers(i) /\ Peers(k) = Peers(i) /\ IsFiniteSet(Peers(i)) /\ Peers(i) \subseteq Items
    BY PeersFinite DEF Peers
<1>2. CASE input.modality # "trace"
    BY <1>1, <1>2, GradeIsSeverity
<1>3. CASE input.modality = "trace"
    <2> DEFINE S == Peers(i)
               key == [x \in S |-> SpanOrder(x)]
    <2>1. \A x \in S : Item(x).err \in BOOLEAN /\ Item(x).duration \in Int /\ x \in Nat
        <3>1. \A x \in S : Item(x) \in UNION Entries["trace"] /\ x \in Nat
            BY <1>1, <1>3, ItemsFinite DEF Bundle, Item
        <3> QED BY <1>3, <3>1, SpanType DEF Bundle
    <2>2. \A x \in S : /\ key[x] \in Tuples(3) /\ key[x] = SpanOrder(x) /\ key[x][3] = x
                       /\ key[x][1] = IF Item(x).err THEN 0 ELSE 1
        BY <2>1 DEF Tuples, SpanOrder
    <2>3. key \in Keys(S, 3)
        BY <2>2 DEF Keys
    <2>4. \A x \in S : Grade(x) = KeysBefore(S, key, x)
        <3> SUFFICES ASSUME NEW x \in S PROVE Grade(x) = KeysBefore(S, key, x)
            OBVIOUS
        <3>1. Peers(x) = S
            BY DEF Peers
        <3>2. Grade(x) = Cardinality({y \in S : Before(SpanOrder(y), SpanOrder(x))})
            BY <1>3, <3>1 DEF Grade
        <3>3. {y \in S : Before(SpanOrder(y), SpanOrder(x))} = {y \in S : Before(key[y], key[x])}
            BY <2>2
        <3> QED BY <3>2, <3>3 DEF KeysBefore
    <2> HIDE DEF key
    <2>5. Before(key[k], key[i]) <=> KeysBefore(S, key, k) < KeysBefore(S, key, i)
        BY <1>1, <2>3, RankOrder
    <2>6. ~(KeysBefore(S, key, k) < KeysBefore(S, key, i))
        BY <1>1, <2>4, GradeType
    <2>7. ~(key[k][1] < key[i][1])
        BY <1>1, <2>2, <2>5, <2>6, FirstPartDecides
    <2>8. (IF Item(i).err THEN 0 ELSE 1) <= (IF Item(k).err THEN 0 ELSE 1)
        BY <1>1, <2>2, <2>7
    <2> QED BY <1>3, <2>8 DEF Severity
<1> QED BY <1>2, <1>3

(* A group is the bucket of each of its items. *)
LEMMA GroupIsBucket ==
    ASSUME Bundle, NEW g \in DOMAIN OrderedGroups, NEW k \in DOMAIN OrderedGroups[g]
    PROVE  /\ OrderedGroups[g][k] \in Items /\ k \in Nat /\ k >= 1 /\ 1 \in DOMAIN OrderedGroups[g]
           /\ OrderedGroups[g] = Ordered(Peers(OrderedGroups[g][k]))
<1>1. OrderedGroups[g] \in Buckets
    BY GroupsOrder DEF Lists
<1> HIDE DEF OrderedGroups
<1> QED BY <1>1, BucketsTell

LEMMA WorstIsFirst ==
    ASSUME Bundle, input.modality # "trace", NEW i \in Items
    PROVE  Worst(i) = Grade(Ordered(Peers(i))[1])
<1> DEFINE s == Ordered(Peers(i))
<1>1. /\ Lists(s, Peers(i)) /\ i \in Peers(i) /\ Peers(i) \subseteq Items
      /\ \A m, n \in DOMAIN s : m < n => Grade(s[m]) <= Grade(s[n])
    BY BucketOrder, PeersFinite
<1> HIDE DEF s
<1>2. 1 \in DOMAIN s /\ s[1] \in Peers(i) /\ s[1] \in Items
    BY <1>1 DEF Lists
<1>3. \A k \in Peers(i) : Severity(k) = Grade(k) /\ Grade(k) \in Int
    BY <1>1, GradeIsSeverity, GradeType
<1>4. ASSUME NEW k \in Peers(i) PROVE Grade(s[1]) <= Grade(k)
    <2>1. PICK n \in DOMAIN s : s[n] = k
        BY <1>1 DEF Lists
    <2>2. n = 1 \/ 1 < n
        BY <1>1 DEF Lists
    <2> QED BY <1>1, <1>2, <1>3, <2>1, <2>2
<1> DEFINE T == {Severity(k) : k \in Peers(i)}
<1>5. Grade(s[1]) \in T /\ \A v \in T : v \in Int /\ Grade(s[1]) <= v
    BY <1>2, <1>3, <1>4
<1>6. Worst(i) = CHOOSE x \in T : \A y \in T : x <= y
    BY DEF Worst, Min
<1> HIDE DEF T
<1>7. Worst(i) \in T /\ \A y \in T : Worst(i) <= y
    BY <1>5, <1>6
<1> QED BY <1>5, <1>7 DEF s

LEMMA OutOfBucket ==
    ASSUME Bundle, Chosen(picked), NEW i \in Selected, NEW k \in Items \ Selected, k \in Peers(i)
    PROVE  Severity(i) <= Severity(k)
<1>1. PICK r \in Nat, n \in Nat : Selected = Share(r, n)
    BY ChosenSet
<1>a. PICK g \in DOMAIN OrderedGroups : \E p \in DOMAIN OrderedGroups[g] :
          OrderedGroups[g][p] = i /\ p <= Turns(g, r, n)
    BY <1>1 DEF Share
<1>2. PICK p \in DOMAIN OrderedGroups[g] : OrderedGroups[g][p] = i /\ p <= Turns(g, r, n)
    BY <1>a
<1>3. i \in Items /\ OrderedGroups[g] = Ordered(Peers(i))
    BY <1>2, GroupIsBucket
<1>4. PICK q \in DOMAIN OrderedGroups[g] : OrderedGroups[g][q] = k
    BY <1>3, BucketOrder DEF Lists
<1>5. ~(q <= Turns(g, r, n))
    BY <1>1, <1>4 DEF Share
<1>6. p < q
    <2>1. p \in Nat /\ q \in Nat
        BY GroupIsBucket
    <2>2. g \in Nat
        BY GroupsPart DEF Partition
    <2>3. Turns(g, r, n) \in Int
        BY <2>2 DEF Turns
    <2> QED BY <1>2, <1>5, <2>1, <2>3
<1>7. Grade(i) <= Grade(k)
    BY <1>2, <1>3, <1>4, <1>6, BucketOrder
<1> QED BY <1>3, <1>7, GradeTellsSeverity

LEMMA OutOfGroups ==
    ASSUME Bundle, Chosen(picked), input.modality # "trace",
           NEW i \in Selected, NEW k \in Items, Peers(k) \cap Selected = {}
    PROVE  Worst(i) <= Worst(k)
<1>0. k \in Peers(k)
    BY DEF Peers
<1>1. PICK r \in Nat, n \in Nat : Selected = Share(r, n)
    BY <1>0, ChosenSet
<1>a. PICK g \in DOMAIN OrderedGroups : \E p \in DOMAIN OrderedGroups[g] :
          OrderedGroups[g][p] = i /\ p <= Turns(g, r, n)
    BY <1>1 DEF Share
<1>2. PICK p \in DOMAIN OrderedGroups[g] : OrderedGroups[g][p] = i /\ p <= Turns(g, r, n)
    BY <1>a
<1>b. PICK h \in DOMAIN OrderedGroups : \E q \in DOMAIN OrderedGroups[h] : OrderedGroups[h][q] = k
    BY GroupsPart DEF Partition
<1>3. PICK q \in DOMAIN OrderedGroups[h] : OrderedGroups[h][q] = k
    BY <1>b
<1>4. /\ i \in Items /\ OrderedGroups[g] = Ordered(Peers(i)) /\ p \in Nat /\ p >= 1
      /\ OrderedGroups[h] = Ordered(Peers(k)) /\ 1 \in DOMAIN OrderedGroups[h]
    BY <1>2, <1>3, GroupIsBucket
<1>5. OrderedGroups[h][1] \in Peers(k) /\ OrderedGroups[h][1] \in Items
    BY <1>4, BucketOrder, PeersFinite DEF Lists
<1>6. ~(1 <= Turns(h, r, n))
    BY <1>1, <1>4, <1>5 DEF Share
<1>7. g < h /\ g \in Nat /\ h \in Nat
    <2>1. g \in Nat /\ h \in Nat
        BY GroupsPart DEF Partition
    <2> QED BY <1>2, <1>4, <1>6, <2>1 DEF Turns
<1>8. Grade(OrderedGroups[g][1]) <= Grade(OrderedGroups[h][1])
    BY <1>7, GroupsOrder
<1>9. Worst(i) = Grade(OrderedGroups[g][1]) /\ Worst(k) = Grade(OrderedGroups[h][1])
    BY <1>4, WorstIsFirst
<1> QED BY <1>8, <1>9

LEMMA InvKeepsTheWorst == SelectorInv => WorstKept
<1> SUFFICES ASSUME SelectorInv PROVE WorstItemsKept /\ (input.modality # "trace" => WorstGroupsKept)
    BY DEF WorstKept
<1>1. Bundle /\ (pc = "done" => Chosen(picked))
    BY DEF SelectorInv
<1>2. WorstItemsKept
    BY <1>1, OutOfBucket DEF WorstItemsKept
<1>3. input.modality # "trace" => WorstGroupsKept
    BY <1>1, OutOfGroups DEF WorstGroupsKept
<1> QED BY <1>2, <1>3

(* What is left out is not worse than what is taken: neither in a bucket   *)
(* nor, except for spans, between the buckets.                             *)
THEOREM SelectionKeepsTheWorst == Spec => []WorstKept
BY SelectorInit, SelectorStep, InvKeepsTheWorst, PTL DEF Spec

-----------------------------------------------------------------------------
(* The choice is a matter of the bundle alone. *)
LEMMA SharesNest ==
    ASSUME Bundle, NEW r \in Nat, NEW n \in Nat, NEW s \in Nat, NEW m \in Nat,
           r < s \/ (r = s /\ n <= m), Cardinality(Share(r, n)) = Cardinality(Share(s, m))
    PROVE  Share(r, n) = Share(s, m)
<1>1. \A g \in DOMAIN OrderedGroups : Turns(g, r, n) \in Int /\ Turns(g, r, n) <= Turns(g, s, m)
    <2>1. \A g \in DOMAIN OrderedGroups : g \in Nat
        BY GroupsPart DEF Partition
    <2> QED BY <2>1 DEF Turns
<1>2. Share(r, n) \subseteq Share(s, m)
    <2> SUFFICES ASSUME NEW i \in Share(r, n) PROVE i \in Share(s, m)
        OBVIOUS
    <2>1. PICK g \in DOMAIN OrderedGroups : \E k \in DOMAIN OrderedGroups[g] :
              OrderedGroups[g][k] = i /\ k <= Turns(g, r, n)
        BY DEF Share
    <2>2. PICK k \in DOMAIN OrderedGroups[g] : OrderedGroups[g][k] = i /\ k <= Turns(g, r, n)
        BY <2>1
    <2>3. k <= Turns(g, s, m)
        <3>1. k \in Nat /\ Turns(g, s, m) \in Int
            <4>1. g \in Nat /\ k \in Nat
                BY GroupIsBucket, GroupsPart DEF Partition
            <4> QED BY <4>1 DEF Turns
        <3> QED BY <1>1, <2>2, <3>1
    <2>4. i \in Items
        BY DEF Share
    <2> QED BY <2>2, <2>3, <2>4 DEF Share
<1>3. IsFiniteSet(Share(s, m))
    <2>1. Share(s, m) \in SUBSET Items
        BY DEF Share
    <2> QED BY <2>1, ItemsFinite, FS_Subset
<1> QED BY <1>2, <1>3, FS_Subset

LEMMA ChosenOne ==
    ASSUME Bundle, NEW p, NEW q, Chosen(p), Chosen(q)
    PROVE  p = q
<1>1. CASE Cardinality(Items) <= cap
    BY <1>1 DEF Chosen
<1>2. CASE ~(Cardinality(Items) <= cap)
    <2>1. PICK r \in Nat, n \in Nat : Cardinality(Share(r, n)) = cap /\ p = ByTime(Share(r, n))
        BY <1>2 DEF Chosen
    <2>2. PICK s \in Nat, m \in Nat : Cardinality(Share(s, m)) = cap /\ q = ByTime(Share(s, m))
        BY <1>2 DEF Chosen
    <2>3. \/ r < s \/ (r = s /\ n <= m)
          \/ s < r \/ (s = r /\ m <= n)
        OBVIOUS
    <2>4. Share(r, n) = Share(s, m)
        BY <2>1, <2>2, <2>3, SharesNest
    <2> QED BY <2>1, <2>2, <2>4
<1> QED BY <1>1, <1>2

(* A selection that had to leave something out is in the order of time. *)
LEMMA ChosenByTime ==
    ASSUME Bundle, NEW p, Chosen(p)
    PROVE  /\ Len(p) \in Nat /\ DOMAIN p = 1..Len(p) /\ \A n \in DOMAIN p : p[n] \in Items
           /\ Len(p) < Cardinality(Items) =>
                 \A m, n \in DOMAIN p : m < n => input.times[p[m]] <= input.times[p[n]]
<1>1. Items = 1..Len(input.times) /\ Cardinality(Items) = Len(input.times) /\ Len(input.times) \in Nat
    BY ItemsFinite DEF Bundle
<1>2. CASE Cardinality(Items) <= cap
    <2>1. p = [i \in 1..Len(input.times) |-> i]
        BY <1>1, <1>2 DEF Chosen
    <2>2. p \in Seq(Items) /\ Len(p) = Len(input.times)
        BY <1>1, <2>1
    <2> QED BY <1>1, <2>1, <2>2
<1>3. CASE ~(Cardinality(Items) <= cap)
    <2>1. PICK r \in Nat, n \in Nat : Cardinality(Share(r, n)) = cap /\ p = ByTime(Share(r, n))
        BY <1>3 DEF Chosen
    <2>2. Share(r, n) \in SUBSET Items
        BY DEF Share
    <2>3. /\ Lists(p, Share(r, n))
          /\ \A k, m \in DOMAIN p : k < m => input.times[p[k]] <= input.times[p[m]]
        BY <2>1, <2>2, SharesByTime
    <2>4. p \in [1..cap -> Items] /\ cap \in Nat
        BY <2>1, <2>2, <2>3 DEF Lists
    <2> QED BY <2>3, <2>4
<1> QED BY <1>2, <1>3

=============================================================================
