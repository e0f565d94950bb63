-------------------------- MODULE AgentInputProofs --------------------------
(***************************************************************************)
(* What holds of the text that an agent is given, for every bundle and any *)
(* limit: its size, that the row of the trigger is in it, what its rows    *)
(* tell and in which order, and that the readers of one bundle agree.      *)
(***************************************************************************)
EXTENDS AgentInput, CollectionProofs, SequenceTheorems

-----------------------------------------------------------------------------
(* truncate_input. *)

LEMMA BudgetFits ==
    /\ Budget \in Nat /\ Budget >= 1
    /\ Budget + 2 * (Notice + 2) = limit
BY LimitType DEF Budget, Greater

(* A part of a text that is too long has the size of the budget, lies in   *)
(* the text, and has the focus in it.                                      *)
LEMMA PartHasFocus ==
    ASSUME NEW length \in Nat, NEW focus \in Nat, length > limit
    PROVE  LET part == Part(length, focus)
           IN /\ part.start \in Nat /\ part.end \in Nat
              /\ part.end - part.start = Budget /\ part.end <= length
              /\ focus < length => part.start <= focus /\ focus < part.end
<1> DEFINE half == Budget \div 2
           from == Greater(0, focus - half)
           end  == Less(length, from + Budget)
<1>1. Budget \in Nat /\ Budget >= 1 /\ length > Budget
    BY BudgetFits, LimitType
<1>2. half \in Nat /\ half < Budget
    BY <1>1
<1>3. from \in Nat /\ from >= focus - half /\ (from = 0 \/ from = focus - half)
    <2> HIDE DEF half
    <2> QED BY <1>2 DEF Greater
<1>4. end \in Nat /\ (end = from + Budget \/ end = length) /\ end <= length /\ end <= from + Budget
    <2> HIDE DEF from
    <2> QED BY <1>1, <1>3 DEF Less
<1>5. /\ Part(length, focus).start = Greater(0, end - Budget)
      /\ Part(length, focus).end = end
    BY DEF Part
<1>6. Greater(0, end - Budget) = end - Budget
    <2> HIDE DEF from, end
    <2> QED BY <1>1, <1>3, <1>4 DEF Greater
<1> HIDE DEF half, from, end
<1> QED BY <1>1, <1>2, <1>3, <1>4, <1>5, <1>6

(* With its notices, a part is within the limit. *)
LEMMA TruncatedFits ==
    ASSUME NEW length \in Nat, NEW focus \in Nat
    PROVE  TextSize(Truncated(length, focus), length) <= limit
<1> DEFINE part == Truncated(length, focus)
<1> SUFFICES TextSize(part, length) <= limit
    OBVIOUS
<1>1. CASE length <= limit
    <2>1. part.start = 0 /\ part.end = length
        BY <1>1 DEF Truncated, Whole
    <2> QED BY <1>1, <2>1, LimitType DEF TextSize, NoticesOf
<1>2. CASE length > limit
    <2>1. part = Part(length, focus)
        BY <1>2, LimitType DEF Truncated
    <2>2. part.start \in Nat /\ part.end \in Nat /\ part.end - part.start = Budget
        BY <1>2, <2>1, PartHasFocus
    <2>3. NoticesOf(part, length) \in 0..2
        BY DEF NoticesOf
    <2>4. NoticesOf(part, length) * (Notice + 1) <= 2 * (Notice + 1)
        BY <2>3, LimitType
    <2> HIDE DEF part
    <2>5. NoticesOf(part, length) * (Notice + 1) \in Nat
        BY <2>3, LimitType
    <2>6. TextSize(part, length) = Budget + NoticesOf(part, length) * (Notice + 1)
        BY <2>2 DEF TextSize
    <2> QED BY <2>4, <2>5, <2>6, BudgetFits, LimitType
<1> QED BY <1>1, <1>2, LimitType

-----------------------------------------------------------------------------
(* The invariant: a text is a finite sequence of rows; and what was cut    *)
(* was cut as truncate_input says, around the trigger.                     *)

TextIsCut == window = Truncated(Length, Focus)

DigestInv ==
    /\ pc \in {"read", "cut", "done", "raised"}
    /\ IsFiniteSet(Items) /\ IsFiniteSet(DOMAIN groups)
    /\ rows \in Seq(Range(rows)) /\ (pc = "read" => rows = <<>>)
    /\ input.items \in [Items -> UNION Entries[input.reader]]
    /\ input.reader \in DOMAIN Entries
    /\ pc = "done" => \/ TextIsCut
                      \/ input.reader = "report" /\ rows = <<>>

(* A list has as many elements as the set it is made of. *)
LEMMA RowsOf ==
    ASSUME NEW f, NEW S, IsFiniteSet(S), DOMAIN f = 1..Cardinality(S),
           f = [n \in DOMAIN f |-> f[n]]
    PROVE  f \in Seq(Range(f)) /\ Len(f) = Cardinality(S) /\ Len(f) \in Nat
<1>1. Cardinality(S) \in Nat
    BY FS_CardinalityType
<1>2. f \in [1..Cardinality(S) -> Range(f)]
    BY DEF Range
<1> QED BY <1>1, <1>2

LEMMA TextsAreSequences ==
    ASSUME DigestInv
    PROVE  /\ BodyRows \in Seq(Range(BodyRows))
           /\ SeriesRows \in Seq(Range(SeriesRows))
           /\ UnparsedRows \in Seq(Range(UnparsedRows))
           /\ OperationRows \in Seq(Range(OperationRows))
           /\ VolumeRows \in Seq(Range(VolumeRows))
<1>1. IsFiniteSet(DOMAIN groups)
    BY DEF DigestInv
<1>2. BodyRows \in Seq(Range(BodyRows))
    <2>1. DOMAIN BodyRows = 1..Cardinality(DOMAIN groups) /\ BodyRows = [n \in DOMAIN BodyRows |-> BodyRows[n]]
        BY SortedSize DEF BodyRows, Listed
    <2> QED BY <1>1, <2>1, RowsOf
<1>3. SeriesRows \in Seq(Range(SeriesRows))
    <2>1. DOMAIN SeriesRows = 1..Cardinality(DOMAIN groups) /\ SeriesRows = [n \in DOMAIN SeriesRows |-> SeriesRows[n]]
        BY SortedSize DEF SeriesRows, Listed
    <2> QED BY <1>1, <2>1, RowsOf
<1>4. UnparsedRows \in Seq(Range(UnparsedRows))
    <2>1. DOMAIN UnparsedRows = 1..Cardinality(Unparsed) /\ UnparsedRows = [n \in DOMAIN UnparsedRows |-> UnparsedRows[n]]
        BY SortedSize DEF UnparsedRows, Listed
    <2>2. IsFiniteSet(Unparsed)
        BY FS_Subset DEF Unparsed, DigestInv
    <2> QED BY <2>1, <2>2, RowsOf
<1>5. OperationRows \in Seq(Range(OperationRows))
    <2>1. DOMAIN OperationRows = 1..Cardinality(DOMAIN groups) /\ OperationRows = [n \in DOMAIN OperationRows |-> OperationRows[n]]
        BY SortedSize DEF OperationRows, Listed
    <2> QED BY <1>1, <2>1, RowsOf
<1>6. VolumeRows \in Seq(Range(VolumeRows))
    <2> DEFINE S == {Item(i).service : i \in Items}
               f == [i \in Items |-> Item(i).service]
    <2>1. DOMAIN VolumeRows = 1..Cardinality(S) /\ VolumeRows = [n \in DOMAIN VolumeRows |-> VolumeRows[n]]
        BY SortedSize DEF VolumeRows, Listed
    <2>2. f \in Surjection(Items, S)
        BY DEF Surjection
    <2>3. IsFiniteSet(S)
        <3> HIDE DEF f, S
        <3> QED BY <2>2, FS_Surjection DEF DigestInv
    <2> HIDE DEF S
    <2> QED BY <2>1, <2>3, RowsOf
<1> QED BY <1>2, <1>3, <1>4, <1>5, <1>6

LEMMA FirstOfIsASequence ==
    ASSUME NEW T, NEW s \in Seq(T), NEW n \in Nat
    PROVE  FirstOf(s, n) \in Seq(T)
<1>1. Less(n, Len(s)) \in 0..Len(s) /\ Len(s) \in Nat
    BY DEF Less
<1> QED BY <1>1, SubSeqProperties DEF FirstOf

(* A row for each element of a sequence. *)
LEMMA RowsOfSequence ==
    ASSUME NEW T, NEW s \in Seq(T), NEW f, DOMAIN f = DOMAIN s,
           f = [n \in DOMAIN f |-> f[n]]
    PROVE  f \in Seq(Range(f))
<1>1. Len(s) \in Nat /\ DOMAIN f = 1..Len(s)
    OBVIOUS
<1>2. f \in [1..Len(s) -> Range(f)]
    BY <1>1 DEF Range
<1> QED BY <1>1, <1>2

LEMMA HighlightIsASequence ==
    ASSUME DigestInv
    PROVE  /\ LifeRows \in Seq(Range(LifeRows))
           /\ NearRows \in Seq(Range(NearRows))
<1>1. LifeRows \in Seq(Range(LifeRows))
    <2> DEFINE life == {k \in DOMAIN groups : Item(groups[k].first).life}
               ByIncid(k) == <<-groups[k].incid, -groups[k].count, groups[k].first>>
               list == Listed(life, ByIncid)
               order == FirstOf(list, HighlightCap)
    <2>1. IsFiniteSet(life)
        BY FS_Subset DEF DigestInv
    <2>2. DOMAIN list = 1..Cardinality(life) /\ list = [n \in DOMAIN list |-> list[n]]
        BY SortedSize DEF Listed
    <2>3. DOMAIN LifeRows = DOMAIN order /\ LifeRows = [n \in DOMAIN LifeRows |-> LifeRows[n]]
        BY DEF LifeRows
    <2> HIDE DEF list, life
    <2>4. order \in Seq(Range(list))
        BY <2>1, <2>2, RowsOf, FirstOfIsASequence, HighlightType
    <2> HIDE DEF order
    <2> QED BY <2>3, <2>4, RowsOfSequence
<1>2. NearRows \in Seq(Range(NearRows))
    <2> DEFINE near == IF input.context.byLog THEN Dedup(Near) ELSE {}
               ByLevel(i) == <<LEVEL_ORDER(Item(i).level), At(i), i>>
               list == Listed(near, ByLevel)
               order == FirstOf(list, HighlightCap)
    <2>1. IsFiniteSet(near)
        BY FS_Subset, FS_EmptySet DEF DigestInv, Dedup, Near
    <2>2. DOMAIN list = 1..Cardinality(near) /\ list = [n \in DOMAIN list |-> list[n]]
        BY SortedSize DEF Listed
    <2>3. DOMAIN NearRows = DOMAIN order /\ NearRows = [n \in DOMAIN NearRows |-> NearRows[n]]
        BY DEF NearRows
    <2> HIDE DEF list, near
    <2>4. order \in Seq(Range(list))
        BY <2>1, <2>2, RowsOf, FirstOfIsASequence, HighlightType
    <2> HIDE DEF order
    <2> QED BY <2>3, <2>4, RowsOfSequence
<1> QED BY <1>1, <1>2

ExemplarRows ==
    [n \in DOMAIN Exemplars |-> Row("exemplar", Operation(Exemplars[n]), {Exemplars[n]})]

LEMMA ExemplarsAreASequence ==
    ASSUME DigestInv
    PROVE  ExemplarRows \in Seq(Range(ExemplarRows))
<1>1. \E T : Errors \in Seq(T)
    <2> DEFINE S == {i \in Items : Item(i).err}
               Came(i) == <<i>>
               list == Listed(S, Came)
    <2>1. IsFiniteSet(S)
        BY FS_Subset DEF DigestInv
    <2>2. DOMAIN list = 1..Cardinality(S) /\ list = [n \in DOMAIN list |-> list[n]]
        BY SortedSize DEF Listed
    <2>3. Errors = FirstOf(list, ExemplarLimit)
        BY DEF Errors
    <2> HIDE DEF list, S
    <2> QED BY <2>1, <2>2, <2>3, RowsOf, FirstOfIsASequence, ExemplarType
<1>2. \E T : Slowest \in Seq(T)
    <2> DEFINE S == {i \in Items : Timed(i)}
               Slow(i) == <<-Item(i).duration, i>>
               list == Listed(S, Slow)
    <2>1. IsFiniteSet(S)
        BY FS_Subset DEF DigestInv
    <2>2. DOMAIN list = 1..Cardinality(S) /\ list = [n \in DOMAIN list |-> list[n]]
        BY SortedSize DEF Listed
    <2>3. Slowest = FirstOf(list, ExemplarLimit)
        BY DEF Slowest
    <2> HIDE DEF list, S
    <2> QED BY <2>1, <2>2, <2>3, RowsOf, FirstOfIsASequence, ExemplarType
<1> DEFINE all == Errors \o Slowest
           New(n) == \A m \in 1..(n - 1) : ~Same(all[m], all[n])
           S == {n \in DOMAIN all : New(n)}
<1>3. IsFiniteSet(DOMAIN all)
    <2>1. PICK T : Errors \in Seq(T)
        BY <1>1
    <2>2. PICK U : Slowest \in Seq(U)
        BY <1>2
    <2>3. Errors \in Seq(T \cup U) /\ Slowest \in Seq(T \cup U)
        BY <2>1, <2>2, SeqMonotonic
    <2>4. all \in Seq(T \cup U)
        BY <2>3, ConcatProperties
    <2>5. Len(all) \in Nat /\ DOMAIN all = 1..Len(all)
        BY <2>4
    <2> HIDE DEF all
    <2> QED BY <2>5, FS_Interval
<1>4. IsFiniteSet(S)
    <2> HIDE DEF all, New
    <2> QED BY <1>3, FS_Subset
<1>5. DOMAIN Exemplars = 1..Cardinality(S)
    BY SortedSize DEF Exemplars, Listed
<1>6. DOMAIN ExemplarRows = 1..Cardinality(S) /\ ExemplarRows = [n \in DOMAIN ExemplarRows |-> ExemplarRows[n]]
    BY <1>5 DEF ExemplarRows
<1> HIDE DEF S
<1> QED BY <1>4, <1>6, RowsOf

-----------------------------------------------------------------------------
LEMMA DigestInit == InitAll => DigestInv
<1> SUFFICES ASSUME InitAll PROVE DigestInv
    OBVIOUS
<1>1. PICK r \in DOMAIN Entries, n \in Sizes :
        \E S \in Entries[r], ts \in {t \in Times : Len(t) = n}, c \in Contexts[r] :
           \E items \in [1..n -> S] :
              input = [reader |-> r, items |-> items, times |-> ts, context |-> c]
    BY DEF InitAll, Init
<1>2. PICK S \in Entries[r] :
        \E ts \in {t \in Times : Len(t) = n}, c \in Contexts[r] :
           \E items \in [1..n -> S] :
              input = [reader |-> r, items |-> items, times |-> ts, context |-> c]
    BY <1>1
<1>3. PICK ts \in {t \in Times : Len(t) = n}, c \in Contexts[r], items \in [1..n -> S] :
        input = [reader |-> r, items |-> items, times |-> ts, context |-> c]
    BY <1>2
<1>4. n \in Nat /\ Items = 1..n /\ input.reader = r /\ input.items = items
    BY <1>3, BundleType DEF Items
<1>5. IsFiniteSet(Items)
    BY <1>4, FS_Interval
<1>6. items \in [1..n -> UNION Entries[r]]
    <2>1. \A k \in 1..n : items[k] \in UNION Entries[r]
        OBVIOUS
    <2> QED BY <2>1
<1>7. pc = "read" /\ groups = <<>> /\ rows = <<>>
    BY DEF InitAll, Init
<1>8. IsFiniteSet(DOMAIN groups)
    <2>1. DOMAIN groups = {}
        BY <1>7
    <2> QED BY <2>1, FS_EmptySet
<1> QED BY <1>4, <1>5, <1>6, <1>7, <1>8 DEF DigestInv

(* A bundle is not changed, and the table gets finitely many keys. *)
LEMMA ReadKeeps ==
    ASSUME DigestInv, pc = "read", UNCHANGED <<pc, input, rows, window>>,
           NEW K, IsFiniteSet(K), DOMAIN groups' \subseteq DOMAIN groups \cup K
    PROVE  DigestInv'
<1>1. IsFiniteSet(DOMAIN groups \cup K)
    BY FS_Union DEF DigestInv
<1>2. IsFiniteSet(DOMAIN groups')
    BY <1>1, FS_Subset
<1>3. IsFiniteSet(Items)'
    BY DEF DigestInv, Items
<1> QED BY <1>2, <1>3 DEF DigestInv, Items

(* Rows that are a sequence are the text that is cut later. *)
LEMMA RankKeeps ==
    ASSUME DigestInv, UNCHANGED <<input, next, groups, window>>, pc' = "cut",
           rows' \in Seq(Range(rows'))
    PROVE  DigestInv'
BY DEF DigestInv, Items

LEMMA RaiseKeeps ==
    ASSUME DigestInv, NEW i, Raise(i)
    PROVE  DigestInv'
<1>1. (pc = "read" => rows = <<>>) /\ pc' = "raised" /\ UNCHANGED <<input, next, groups, rows, window>>
    BY DEF Raise, DigestInv
<1> QED BY <1>1 DEF DigestInv, Items

LEMMA Joined ==
    ASSUME NEW s, NEW t, s \in Seq(Range(s)), t \in Seq(Range(t))
    PROVE  s \o t \in Seq(Range(s \o t))
<1>1. s \in Seq(Range(s) \cup Range(t)) /\ t \in Seq(Range(s) \cup Range(t))
    BY SeqMonotonic
<1>2. s \o t \in Seq(Range(s) \cup Range(t))
    BY <1>1, ConcatProperties
<1> QED BY <1>2, SeqOfRange

LEMMA DigestStep == DigestInv /\ [Next]_allVars => DigestInv'
<1> SUFFICES ASSUME DigestInv, [Next]_allVars
             PROVE  DigestInv'
    OBVIOUS
<1>1. CASE ReadLine
    <2>1. CASE Raise(next)
        BY <2>1, RaiseKeeps
    <2>2. CASE ~Raise(next)
        <3>1. pc = "read" /\ UNCHANGED <<pc, input, rows, window>>
            BY <1>1, <2>2 DEF ReadLine
        <3>2. DOMAIN groups' \subseteq DOMAIN groups \cup {Key(next)}
            BY <1>1, <2>2 DEF ReadLine, Put
        <3> QED BY <3>1, <3>2, FS_Singleton, ReadKeeps
    <2> QED BY <2>1, <2>2
<1>2. CASE RankLines
    <2>1. /\ UNCHANGED <<input, next, groups, window>> /\ pc' = "cut"
          /\ rows' = LifeRows \o NearRows \o BodyRows
        BY <1>2 DEF RankLines
    <2>2. rows' \in Seq(Range(rows'))
        BY <2>1, HighlightIsASequence, TextsAreSequences, Joined
    <2> QED BY <2>1, <2>2, RankKeeps
<1>3. CASE ReadPoint
    <2>1. /\ pc = "read" /\ input.reader = "metric" /\ next \in Items
          /\ UNCHANGED <<pc, input, rows, window>>
        BY <1>3 DEF ReadPoint
    <2>2. DOMAIN groups' = DOMAIN groups \cup Series(next)
        BY <1>3 DEF ReadPoint
    <2>3. Item(next) \in UNION Entries["metric"] /\ "metric" \in DOMAIN Entries
        BY <2>1 DEF DigestInv, Item
    <2>4. IsFiniteSet(DOMAIN Item(next).pairs)
        BY <2>3, PairsType
    <2> DEFINE L == DOMAIN Item(next).pairs
               f == [l \in L |-> <<Item(next).service, l>>]
    <2>5. f \in Surjection(L, Series(next))
        BY DEF Surjection, Series
    <2>6. IsFiniteSet(Series(next))
        <3> HIDE DEF f
        <3> QED BY <2>4, <2>5, FS_Surjection
    <2> QED BY <2>1, <2>2, <2>6, ReadKeeps
<1>4. CASE RankSeries
    <2>1. CASE \E i \in Items \ Unparsed : Raise(i)
        BY <2>1, RaiseKeeps
    <2>2. CASE ~(\E i \in Items \ Unparsed : Raise(i))
        <3>1. /\ UNCHANGED <<input, next, groups, window>> /\ pc' = "cut"
              /\ rows' = SeriesRows \o UnparsedRows
            BY <1>4, <2>2 DEF RankSeries
        <3>2. rows' \in Seq(Range(rows'))
            BY <3>1, TextsAreSequences, Joined
        <3> QED BY <3>1, <3>2, RankKeeps
    <2> QED BY <2>1, <2>2
<1>5. CASE ReadSpan
    <2>1. CASE Raise(next)
        BY <2>1, RaiseKeeps
    <2>2. CASE ~Raise(next)
        <3>1. pc = "read" /\ UNCHANGED <<pc, input, rows, window>>
            BY <1>5, <2>2 DEF ReadSpan
        <3>2. DOMAIN groups' \subseteq DOMAIN groups \cup {Operation(next)}
            BY <1>5, <2>2 DEF ReadSpan, Put
        <3> QED BY <3>1, <3>2, FS_Singleton, ReadKeeps
    <2> QED BY <2>1, <2>2
<1>6. CASE RankSpans
    <2>1. /\ UNCHANGED <<input, next, groups, window>> /\ pc' = "cut"
          /\ rows' = OperationRows \o VolumeRows \o ExemplarRows
        BY <1>6 DEF RankSpans, ExemplarRows
    <2>2. rows' \in Seq(Range(rows'))
        BY <2>1, TextsAreSequences, ExemplarsAreASequence, Joined
    <2> QED BY <2>1, <2>2, RankKeeps
<1>7. CASE Cut
    <2>1. /\ pc = "cut" /\ window' = Truncated(Length, Focus) /\ pc' = "done"
          /\ UNCHANGED <<input, next, groups, rows>>
        BY <1>7 DEF Cut
    <2>2. Length' = Length /\ Focus' = Focus
        BY <2>1 DEF Length, Focus, TriggerRows, At
    <2>3. TextIsCut'
        BY <2>1, <2>2 DEF TextIsCut
    <2> QED BY <2>1, <2>3 DEF DigestInv, Items
<1>8. CASE Observe
    <2>1. pc = "read" /\ UNCHANGED <<pc, input, groups, rows, window>>
        BY <1>8 DEF Observe
    <2> QED BY <2>1, FS_EmptySet, ReadKeeps
<1>9. CASE Assemble
    <2>1. /\ pc = "read" /\ input.reader = "report" /\ pc' = "done"
          /\ UNCHANGED <<input, groups, rows, window>>
        BY <1>9 DEF Assemble
    <2> QED BY <2>1 DEF DigestInv, Items
<1>10. CASE UNCHANGED allVars
    <2>1. UNCHANGED vars
        BY <1>10 DEF allVars
    <2>2. UNCHANGED <<Length, Focus, Items>>
        BY <2>1 DEF vars, Length, Focus, TriggerRows, At, Items
    <2> QED BY <2>1, <2>2 DEF DigestInv, TextIsCut, vars
<1> QED BY <1>1, <1>2, <1>3, <1>4, <1>5, <1>6, <1>7, <1>8, <1>9, <1>10 DEF Next, Agents

-----------------------------------------------------------------------------
(* A set of numbers has a least one. *)
LEMMA HasLeast ==
    ASSUME NEW S, S \subseteq Nat, S # {}
    PROVE  \E x \in S : \A y \in S : x <= y
<1> DEFINE R == {p \in Nat \X Nat : p[1] < p[2]}
<1>1. IsWellFoundedOn(R, Nat)
    BY NatLessThanWellFounded DEF OpToRel
<1>2. PICK x \in S : \A y \in S : ~ (<<y, x>> \in R)
    <2> HIDE DEF R
    <2> QED BY <1>1, WFMin
<1>3. ASSUME NEW y \in S PROVE x <= y
    <2>1. <<y, x>> \in Nat \X Nat /\ ~ (<<y, x>> \in R)
        BY <1>2
    <2>2. ~ (y < x)
        BY <2>1
    <2> QED BY <2>2
<1> QED BY <1>3

LEMMA LeastOf ==
    ASSUME NEW S, S \subseteq Nat, S # {}
    PROVE  Min(S) \in S /\ \A y \in S : Min(S) <= y
BY HasLeast DEF Min

LEMMA FirstTriggerRow ==
    ASSUME DigestInv, TriggerRows # {}
    PROVE  Min(TriggerRows) \in 1..Len(rows) /\ Len(rows) \in Nat
<1>1. Len(rows) \in Nat /\ TriggerRows \subseteq 1..Len(rows)
    BY DEF DigestInv, TriggerRows
<1>2. TriggerRows \subseteq Nat
    BY <1>1
<1> QED BY <1>1, <1>2, LeastOf

LEMMA RowsFit ==
    ASSUME NEW w \in Nat, NEW m \in Nat, NEW n \in Nat, m < n
    PROVE  w * m + w <= w * n
<1>1. PICK d \in Nat : n = m + 1 + d
    <2>1. n - m - 1 \in Nat /\ n = m + 1 + (n - m - 1)
        OBVIOUS
    <2> QED BY <2>1
<1>2. w * n = w * m + w + w * d /\ w * d \in Nat /\ w * m \in Nat
    BY <1>1
<1> QED BY <1>2

(* The focus is the place of a row, or the middle of the text. *)
LEMMA FocusIsInText ==
    ASSUME DigestInv
    PROVE  Focus \in Nat
<1>1. CASE TriggerRows # {}
    <2>1. Min(TriggerRows) - 1 \in Nat
        BY <1>1, FirstTriggerRow
    <2> QED BY <1>1, <2>1, BundleType DEF Focus
<1>2. CASE TriggerRows = {}
    <2>1. Length \in Nat
        BY BundleType DEF DigestInv, Length
    <2> QED BY <1>2, <2>1 DEF Focus
<1> QED BY <1>1, <1>2

(* The text that an agent is given fits into the limit of the LLM, with    *)
(* the notices of what was cut, for any bundle, row size and limit.        *)
THEOREM PromptFits == Spec => []WithinLimit
<1>1. DigestInv => WithinLimit
    <2> SUFFICES ASSUME DigestInv, Done("log") \/ Done("metric") \/ Done("trace")
                 PROVE  TextSize(window, Length) <= limit
        BY DEF WithinLimit
    <2>1. TextIsCut
        BY DEF DigestInv, Done
    <2>2. Length \in Nat
        BY BundleType DEF DigestInv, Length
    <2>3. Focus \in Nat
        BY FocusIsInText
    <2> QED BY <2>1, <2>2, <2>3, TruncatedFits DEF TextIsCut
<1> QED BY DigestInit, DigestStep, <1>1, PTL DEF Spec

(* The row in which the second of the trigger is first written is in the   *)
(* text that an agent is given, whatever order the digest has put it in.   *)
THEOREM TriggerSurvives == Spec => []TriggerKept
<1>1. DigestInv => TriggerKept
    <2> SUFFICES ASSUME DigestInv, pc = "done", TriggerRows # {}
                 PROVE  Min(TriggerRows) \in Kept
        BY DEF TriggerKept
    <2> DEFINE n == Min(TriggerRows)
    <2>1. n \in 1..Len(rows) /\ Len(rows) \in Nat /\ DOMAIN rows = 1..Len(rows)
        BY FirstTriggerRow DEF DigestInv
    <2>2. TextIsCut
        <3>1. rows # <<>>
            BY <2>1
        <3> QED BY <3>1 DEF DigestInv
    <2>3. /\ Focus = Width * (n - 1) /\ Length = Width * Len(rows)
          /\ Focus \in Nat /\ Length \in Nat
        BY <2>1, FocusIsInText, BundleType DEF Focus, Length
    <2> HIDE DEF n
    <2>4. Focus < Length /\ Width * n = Focus + Width /\ Width \in Nat \ {0}
        <3>1. Width \in Nat \ {0} /\ n - 1 \in Nat /\ n - 1 < Len(rows) /\ n \in Nat
            BY <2>1, BundleType
        <3>2. Width * (n - 1) + Width <= Width * Len(rows)
            BY <2>1, <3>1, RowsFit
        <3>3. Width * n = Width * (n - 1) + Width
            BY <3>1
        <3> QED BY <2>3, <3>1, <3>2, <3>3
    <2>5. window.start \in Nat /\ window.start <= Focus /\ Focus < window.end
        <3>1. CASE Length <= limit
            BY <2>2, <2>3, <2>4, <3>1 DEF TextIsCut, Truncated, Whole
        <3>2. CASE Length > limit
            <4>1. window = Part(Length, Focus)
                BY <2>2, <2>3, <3>2, LimitType DEF TextIsCut, Truncated
            <4> QED BY <2>3, <2>4, <3>2, <4>1, PartHasFocus
        <3> QED BY <2>3, <3>1, <3>2, LimitType
    <2> SUFFICES n \in DOMAIN rows /\ Width * (n - 1) < window.end /\ window.start < Width * n
        BY DEF Kept, n
    <2> QED BY <2>1, <2>3, <2>4, <2>5
<1> QED BY DigestInit, DigestStep, <1>1, PTL DEF Spec

-----------------------------------------------------------------------------
(* service_liveness: what holds after some of the intervals. *)

Intervals == input.context.intervals

ReportInv ==
    input.reader = "report" =>
        /\ pc \in {"read", "done"}
        /\ Len(Intervals) \in Nat /\ DOMAIN Intervals = 1..Len(Intervals)
        /\ next \in Nat /\ next >= 1 /\ (pc = "done" => next > Len(Intervals))
        /\ \A n \in DOMAIN Intervals :
              n < next /\ LIVENESS_RANK(Intervals[n].status) > 0
                => Shown(Intervals[n].service, Intervals[n].modality, LIVENESS_RANK(Intervals[n].status))
        /\ ShownObserved

LEMMA RankType == \A status : LIVENESS_RANK(status) \in 0..3
BY DEF LIVENESS_RANK

LEMMA ReportInit == InitAll => ReportInv
<1> SUFFICES ASSUME InitAll, input.reader = "report" PROVE ReportInv
    BY DEF ReportInv
<1>1. input.reader \in DOMAIN Entries /\ input.context \in Contexts[input.reader]
    BY DEF InitAll, Init
<1>2. Len(Intervals) \in Nat /\ DOMAIN Intervals = 1..Len(Intervals)
    BY <1>1, BundleType, IntervalsType DEF Intervals
<1>3. pc = "read" /\ next = 1 /\ liveness = <<>>
    BY DEF InitAll, Init, InitReport
<1>4. ShownObserved
    BY <1>3 DEF ShownObserved
<1> QED BY <1>2, <1>3, <1>4 DEF ReportInv

(* One interval more: nothing gets weaker, and its status is counted.      *)
LEMMA ObserveKeeps ==
    ASSUME ReportInv, Observe
    PROVE  ReportInv'
<1> DEFINE iv   == Intervals[next]
           seen == IF iv.service \in DOMAIN liveness THEN liveness[iv.service] ELSE <<>>
           now  == Observed(seen, iv)
<1>1. /\ pc = "read" /\ input.reader = "report" /\ next \in DOMAIN Intervals
      /\ next' = next + 1 /\ pc' = pc /\ input' = input
      /\ liveness' = Put(liveness, iv.service, now)
    BY DEF Observe, Intervals
<1>2. /\ Len(Intervals) \in Nat /\ DOMAIN Intervals = 1..Len(Intervals)
      /\ next \in Nat /\ ShownObserved /\ Intervals' = Intervals
    BY <1>1 DEF ReportInv, Intervals
<1>3. /\ DOMAIN liveness' = DOMAIN liveness \cup {iv.service}
      /\ \A s \in DOMAIN liveness' : liveness'[s] = IF s = iv.service THEN now ELSE liveness[s]
    <2> HIDE DEF now, iv
    <2> QED BY <1>1 DEF Put
<1>4. /\ \A m \in DOMAIN seen : m \in DOMAIN now /\ LIVENESS_RANK(now[m]) >= LIVENESS_RANK(seen[m])
      /\ LIVENESS_RANK(iv.status) > 0 =>
            iv.modality \in DOMAIN now /\ LIVENESS_RANK(now[iv.modality]) >= LIVENESS_RANK(iv.status)
      /\ \A m \in DOMAIN now :
            (m \in DOMAIN seen /\ now[m] = seen[m]) \/ (m = iv.modality /\ now[m] = iv.status)
    <2> DEFINE old == IF iv.modality \in DOMAIN seen THEN LIVENESS_RANK(seen[iv.modality]) ELSE 0
    <2>1. old \in 0..3 /\ LIVENESS_RANK(iv.status) \in 0..3
        BY RankType
    <2>2. CASE LIVENESS_RANK(iv.status) > old
        <3>1. now = Put(seen, iv.modality, iv.status)
            BY <2>2 DEF Observed
        <3>2. /\ DOMAIN now = DOMAIN seen \cup {iv.modality}
              /\ \A m \in DOMAIN now : now[m] = IF m = iv.modality THEN iv.status ELSE seen[m]
            <4> HIDE DEF seen, iv, now
            <4> QED BY <3>1 DEF Put
        <3> HIDE DEF seen, iv, now
        <3> QED BY <2>1, <2>2, <3>2, RankType
    <2>3. CASE ~(LIVENESS_RANK(iv.status) > old)
        <3>1. now = seen
            BY <2>3 DEF Observed
        <3> HIDE DEF seen, iv, now
        <3> QED BY <2>1, <2>3, <3>1, RankType
    <2> QED BY <2>2, <2>3
<1>5. \A s, m, rank : rank \in 0..3 /\ Shown(s, m, rank) => Shown(s, m, rank)'
    <2> SUFFICES ASSUME NEW s, NEW m, NEW rank \in 0..3, Shown(s, m, rank)
                 PROVE  Shown(s, m, rank)'
        OBVIOUS
    <2>1. s \in DOMAIN liveness /\ m \in DOMAIN liveness[s] /\ LIVENESS_RANK(liveness[s][m]) >= rank
        BY DEF Shown
    <2>2. CASE s = iv.service
        <3>1. seen = liveness[s]
            BY <2>1, <2>2
        <3>2. m \in DOMAIN now /\ LIVENESS_RANK(now[m]) >= rank
            <4> HIDE DEF seen, now
            <4> QED BY <1>4, <2>1, <3>1, RankType
        <3> HIDE DEF now
        <3> QED BY <1>3, <2>2, <3>2 DEF Shown, LIVENESS_RANK
    <2>3. CASE s # iv.service
        <3> HIDE DEF now
        <3> QED BY <1>3, <2>1, <2>3 DEF Shown, LIVENESS_RANK
    <2> QED BY <2>2, <2>3
<1>6. ASSUME NEW n \in DOMAIN Intervals, n < next + 1, LIVENESS_RANK(Intervals[n].status) > 0
      PROVE  Shown(Intervals[n].service, Intervals[n].modality, LIVENESS_RANK(Intervals[n].status))'
    <2>1. CASE n < next
        BY <1>1, <1>2, <1>5, <1>6, <2>1, RankType DEF ReportInv
    <2>2. CASE n = next
        <3>1. iv.modality \in DOMAIN now /\ LIVENESS_RANK(now[iv.modality]) >= LIVENESS_RANK(iv.status)
            BY <1>4, <1>6, <2>2
        <3> HIDE DEF now
        <3> QED BY <1>2, <1>3, <2>2, <3>1 DEF Shown, LIVENESS_RANK
    <2> QED BY <1>2, <1>6, <2>1, <2>2
<1>7. ShownObserved'
    <2> SUFFICES ASSUME NEW s \in DOMAIN liveness', NEW m \in DOMAIN liveness'[s]
                 PROVE  \E n \in DOMAIN Intervals :
                           /\ Intervals[n].service = s /\ Intervals[n].modality = m
                           /\ Intervals[n].status = liveness'[s][m]
        BY <1>2 DEF ShownObserved, Intervals
    <2>1. CASE s \in DOMAIN liveness /\ m \in DOMAIN liveness[s] /\ liveness'[s][m] = liveness[s][m]
        BY <1>2, <2>1 DEF ShownObserved, Intervals
    <2>2. CASE s = iv.service /\ m = iv.modality /\ liveness'[s][m] = iv.status
        BY <1>1, <1>2, <2>2
    <2>3. CASE s # iv.service
        <3> HIDE DEF now
        <3> QED BY <1>3, <2>1, <2>3
    <2>4. CASE s = iv.service
        <3>1. liveness'[s] = now
            <4> HIDE DEF now
            <4> QED BY <1>3, <2>4
        <3>2. CASE m \in DOMAIN seen /\ now[m] = seen[m]
            <4>1. s \in DOMAIN liveness /\ seen = liveness[s]
                BY <2>4, <3>2
            <4>2. m \in DOMAIN liveness[s] /\ liveness'[s][m] = liveness[s][m]
                <5> HIDE DEF now, seen
                <5> QED BY <3>1, <3>2, <4>1
            <4> QED BY <2>1, <4>1, <4>2
        <3>3. CASE m = iv.modality /\ now[m] = iv.status
            <4>1. liveness'[s][m] = iv.status
                <5> HIDE DEF now, seen
                <5> QED BY <3>1, <3>3
            <4> QED BY <2>2, <2>4, <3>3, <4>1
        <3> QED BY <1>4, <3>1, <3>2, <3>3
    <2> QED BY <2>3, <2>4
<1>8. /\ pc' \in {"read", "done"} /\ Len(Intervals') \in Nat /\ DOMAIN Intervals' = 1..Len(Intervals')
      /\ next' \in Nat /\ next' >= 1 /\ pc' # "done"
    BY <1>1, <1>2
<1>9. \A n \in DOMAIN Intervals' :
         n < next' /\ LIVENESS_RANK(Intervals'[n].status) > 0
           => Shown(Intervals[n].service, Intervals[n].modality, LIVENESS_RANK(Intervals[n].status))'
    BY <1>1, <1>2, <1>6
<1> QED BY <1>7, <1>8, <1>9 DEF ReportInv, Intervals

(* assemble reads the liveness no more, and all intervals have been read.  *)
LEMMA AssembleKeeps ==
    ASSUME ReportInv, Assemble
    PROVE  ReportInv'
<1>1. /\ input' = input /\ next' = next /\ liveness' = liveness /\ pc' = "done"
      /\ input.reader = "report" /\ next \notin DOMAIN Intervals
    BY DEF Assemble, Intervals
<1>2. Intervals' = Intervals
    BY <1>1 DEF Intervals
<1>3. next > Len(Intervals)
    BY <1>1 DEF ReportInv
<1>4. \A s, m, rank : Shown(s, m, rank)' <=> Shown(s, m, rank)
    BY <1>1 DEF Shown, LIVENESS_RANK
<1>5. ShownObserved'
    BY <1>1 DEF ReportInv, ShownObserved
<1> QED BY <1>1, <1>2, <1>3, <1>4, <1>5 DEF ReportInv

(* The agents do nothing to what is read for the report.                   *)
LEMMA ReportStep == ReportInv /\ [Next]_allVars => ReportInv'
<1> SUFFICES ASSUME ReportInv, [Next]_allVars PROVE ReportInv'
    OBVIOUS
<1>1. CASE Agents /\ UNCHANGED reportVars
    <2>1. input' = input /\ (input.reader = "report" => pc \in {"read", "done"})
        BY <1>1 DEF ReportInv, Agents, ReadLine, RankLines, ReadPoint, RankSeries, ReadSpan, RankSpans, Cut, Raise
    <2>2. input.reader # "report"
        BY <1>1, <2>1 DEF Agents, ReadLine, RankLines, ReadPoint, RankSeries, ReadSpan, RankSpans, Cut, Raise
    <2>3. input'.reader # "report"
        BY <2>1, <2>2
    <2> HIDE <1>1, <2>1
    <2> QED BY <2>3 DEF ReportInv
<1>2. CASE Observe
    BY <1>2, ObserveKeeps
<1>3. CASE Assemble
    BY <1>3, AssembleKeeps
<1>4. CASE UNCHANGED allVars
    <2>1. input' = input /\ next' = next /\ liveness' = liveness /\ pc' = pc
        BY <1>4 DEF allVars, vars, reportVars
    <2>2. Intervals' = Intervals
        BY <2>1 DEF Intervals
    <2>3. \A s, m, rank : Shown(s, m, rank)' <=> Shown(s, m, rank)
        BY <2>1 DEF Shown, LIVENESS_RANK
    <2>4. ShownObserved' <=> ShownObserved
        BY <2>1, <2>2 DEF ShownObserved, Intervals
    <2> HIDE <1>4
    <2> QED BY <2>1, <2>2, <2>3, <2>4 DEF ReportInv
<1> QED BY <1>1, <1>2, <1>3, <1>4 DEF Next

(* Whatever the number and the order of the intervals, the report says of  *)
(* a service the strongest signal that was observed, and no other.         *)
THEOREM LivenessStrongest == Spec => []StrongestSignal
<1>1. ReportInv => StrongestSignal
    BY DEF ReportInv, StrongestSignal, StrongestShown, Done, Intervals
<1> QED BY ReportInit, ReportStep, <1>1, PTL DEF Spec

-----------------------------------------------------------------------------
(* The tables of the three digests: what they say of the items read so far.*)

ReadItems == {i \in Items : i < next}

BundleInv ==
    /\ next \in Nat \ {0}
    /\ input.context \in Contexts[input.reader]
    /\ \E n \in Nat : Items = 1..n
    /\ \A i \in Items : At(i) \in Int

LinesOf(k)  == {i \in ReadItems : Key(i) = k}
EarlyOf(k)  == {i \in LinesOf(k) : IsBase(i)}
LateOf(k)   == {i \in LinesOf(k) : ~IsBase(i)}
PointsOf(k) == {i \in ReadItems : k \in Series(i)}
AllSeries   == UNION {Series(i) : i \in ReadItems}

LogTable ==
    /\ DOMAIN groups = {Key(i) : i \in ReadItems}
    /\ \A k \in DOMAIN groups :
          /\ groups[k].count = Cardinality(LinesOf(k))
          /\ groups[k].base  = Cardinality(EarlyOf(k))
          /\ groups[k].incid = Cardinality(LateOf(k))
          /\ groups[k].first \in LinesOf(k) /\ groups[k].last \in LinesOf(k)

MetricTable ==
    /\ DOMAIN groups = AllSeries
    /\ \A k \in DOMAIN groups : groups[k] = PointsOf(k)

TraceTable ==
    /\ DOMAIN groups = {Operation(i) : i \in ReadItems}
    /\ \A k \in DOMAIN groups :
          /\ groups[k].count \in Nat /\ groups[k].err \in Nat
          /\ groups[k].first \in ReadItems /\ Operation(groups[k].first) = k
          /\ groups[k].durations \in Seq(Int)

TableInv ==
    /\ DigestInv /\ BundleInv
    /\ input.reader = "log" => LogTable
    /\ input.reader = "metric" => MetricTable
    /\ input.reader = "trace" => TraceTable

LEMMA BundleInit == InitAll => BundleInv
<1> SUFFICES ASSUME InitAll PROVE BundleInv
    OBVIOUS
<1>1. PICK r \in DOMAIN Entries, n \in Sizes :
        \E S \in Entries[r], ts \in {t \in Times : Len(t) = n}, c \in Contexts[r] :
           \E items \in [1..n -> S] :
              input = [reader |-> r, items |-> items, times |-> ts, context |-> c]
    BY DEF InitAll, Init
<1>2. PICK S \in Entries[r] :
        \E ts \in {t \in Times : Len(t) = n}, c \in Contexts[r] :
           \E items \in [1..n -> S] :
              input = [reader |-> r, items |-> items, times |-> ts, context |-> c]
    BY <1>1
<1>3. PICK ts \in {t \in Times : Len(t) = n}, c \in Contexts[r], items \in [1..n -> S] :
        input = [reader |-> r, items |-> items, times |-> ts, context |-> c]
    BY <1>2
<1>4. n \in Nat /\ Items = 1..n /\ input.reader = r /\ input.context = c /\ input.times = ts
    BY <1>3, BundleType DEF Items
<1>5. ts \in Seq(Int) /\ Len(ts) = n
    BY BundleType
<1>6. \A i \in 1..n : ts[i] \in Int
    BY <1>4, <1>5
<1>7. next = 1
    BY DEF InitAll, Init
<1> QED BY <1>4, <1>6, <1>7 DEF BundleInv, At

LEMMA TableInit == InitAll => TableInv
<1> SUFFICES ASSUME InitAll PROVE TableInv
    OBVIOUS
<1>1. next = 1 /\ groups = <<>>
    BY DEF InitAll, Init
<1>2. BundleInv
    BY BundleInit
<1>3. ReadItems = {} /\ DOMAIN groups = {}
    BY <1>1, <1>2 DEF BundleInv, ReadItems
<1>4. LogTable /\ MetricTable /\ TraceTable
    BY <1>3 DEF LogTable, MetricTable, TraceTable, AllSeries
<1> QED BY <1>2, <1>4, DigestInit DEF TableInv

(* What is read of an item depends on the bundle alone. *)
LEMMA SameItems ==
    ASSUME input' = input
    PROVE  /\ Items' = Items
           /\ \A i : At(i)' = At(i) /\ Item(i)' = Item(i) /\ (IsBase(i)' <=> IsBase(i))
           /\ \A i : Key(i)' = Key(i) /\ Operation(i)' = Operation(i) /\ Series(i)' = Series(i)
           /\ \A i : Timed(i)' <=> Timed(i)
BY DEF Items, At, Item, IsBase, Key, Operation, Series, Timed

LEMMA BundleStep == BundleInv /\ [Next]_allVars => BundleInv'
<1> SUFFICES ASSUME BundleInv, [Next]_allVars PROVE BundleInv'
    OBVIOUS
<1>1. input' = input /\ (next' = next \/ next' = next + 1)
    BY DEF Next, Agents, ReadLine, RankLines, ReadPoint, RankSeries, ReadSpan, RankSpans, Cut,
           Raise, Observe, Assemble, allVars, vars
<1> QED BY <1>1, SameItems DEF BundleInv

(* The items read, before an item is read and after. *)
LEMMA OneMore ==
    ASSUME BundleInv, next \in Items, next' = next + 1, input' = input
    PROVE  ReadItems' = ReadItems \cup {next} /\ next \notin ReadItems
BY SameItems DEF BundleInv, ReadItems

LEMMA AllRead ==
    ASSUME BundleInv, next \notin Items
    PROVE  ReadItems = Items
BY DEF BundleInv, ReadItems

LEMMA TableSame ==
    ASSUME TableInv, DigestInv', BundleInv', UNCHANGED <<input, next, groups>>
    PROVE  TableInv'
<1>1. ReadItems' = ReadItems
    BY SameItems DEF ReadItems
<1>2. LogTable => LogTable'
    <2>1. \A k : LinesOf(k)' = LinesOf(k)
        BY <1>1, SameItems DEF LinesOf
    <2>2. \A k : EarlyOf(k)' = EarlyOf(k) /\ LateOf(k)' = LateOf(k)
        BY <2>1, SameItems DEF EarlyOf, LateOf
    <2>3. {Key(i) : i \in ReadItems}' = {Key(i) : i \in ReadItems}
        BY <1>1, SameItems
    <2> QED BY <2>1, <2>2, <2>3 DEF LogTable
<1>3. MetricTable => MetricTable'
    BY <1>1, SameItems DEF MetricTable, AllSeries, PointsOf
<1>4. TraceTable => TraceTable'
    BY <1>1, SameItems DEF TraceTable
<1> QED BY <1>2, <1>3, <1>4 DEF TableInv

-----------------------------------------------------------------------------
(* One item more in the table of the log. *)
LEMMA LineRead ==
    ASSUME TableInv, BundleInv', DigestInv', ReadLine
    PROVE  TableInv'
<1>1. pc = "read" /\ input.reader = "log" /\ next \in Items /\ LogTable
    BY DEF ReadLine, TableInv
<1>2. CASE Raise(next)
    BY <1>2, TableSame DEF Raise
<1>3. CASE ~Raise(next)
    <2>1. PICK i, new : i = next /\ new = Key(i)
        OBVIOUS
    <2>2. /\ groups' = Put(groups, new, IF new \in DOMAIN groups THEN Added(groups[new], i)
                                                               ELSE Opened(i))
          /\ next' = next + 1 /\ input' = input
        BY <1>3, <2>1 DEF ReadLine
    <2>3. ReadItems' = ReadItems \cup {i} /\ i \notin ReadItems
        BY <1>1, <2>1, <2>2, OneMore DEF TableInv
    <2>4. /\ DOMAIN groups' = DOMAIN groups \cup {new}
          /\ \A k \in DOMAIN groups : k # new => groups'[k] = groups[k]
          /\ groups'[new] = IF new \in DOMAIN groups THEN Added(groups[new], i) ELSE Opened(i)
        BY <2>2 DEF Put
    <2>5. DOMAIN groups' = {Key(n) : n \in ReadItems}'
        <3>1. {Key(n) : n \in ReadItems}' = {Key(n) : n \in ReadItems} \cup {new}
            BY <2>1, <2>2, <2>3, SameItems
        <3> QED BY <1>1, <2>4, <3>1 DEF LogTable
    <2>6. /\ \A k : k # new => LinesOf(k)' = LinesOf(k)
          /\ LinesOf(new)' = LinesOf(new) \cup {i}
        BY <2>1, <2>2, <2>3, SameItems DEF LinesOf
    <2>7. \A k : k # new => EarlyOf(k)' = EarlyOf(k) /\ LateOf(k)' = LateOf(k)
        BY <2>2, <2>6, SameItems DEF EarlyOf, LateOf
    <2>8. /\ IsBase(i) => EarlyOf(new)' = EarlyOf(new) \cup {i} /\ LateOf(new)' = LateOf(new)
          /\ ~IsBase(i) => EarlyOf(new)' = EarlyOf(new) /\ LateOf(new)' = LateOf(new) \cup {i}
        BY <2>2, <2>6, SameItems DEF EarlyOf, LateOf
    <2>9. /\ IsFiniteSet(LinesOf(new)) /\ i \notin LinesOf(new)
          /\ IsFiniteSet(EarlyOf(new)) /\ i \notin EarlyOf(new)
          /\ IsFiniteSet(LateOf(new)) /\ i \notin LateOf(new)
        <3>1. /\ LinesOf(new) \in SUBSET Items /\ EarlyOf(new) \in SUBSET Items
              /\ LateOf(new) \in SUBSET Items
            BY DEF LinesOf, EarlyOf, LateOf, ReadItems
        <3>2. IsFiniteSet(Items)
            BY DEF TableInv, DigestInv
        <3>3. i \notin LinesOf(new) /\ i \notin EarlyOf(new) /\ i \notin LateOf(new)
            BY <2>3 DEF LinesOf, EarlyOf, LateOf
        <3> QED BY <3>1, <3>2, <3>3, FS_Subset
    <2>10. /\ Cardinality(LinesOf(new) \cup {i}) = Cardinality(LinesOf(new)) + 1
           /\ Cardinality(EarlyOf(new) \cup {i}) = Cardinality(EarlyOf(new)) + 1
           /\ Cardinality(LateOf(new) \cup {i}) = Cardinality(LateOf(new)) + 1
        BY <2>9, FS_AddElement
    <2>11. ASSUME NEW k \in DOMAIN groups'
           PROVE  /\ groups'[k].count = Cardinality(LinesOf(k)')
                  /\ groups'[k].base  = Cardinality(EarlyOf(k)')
                  /\ groups'[k].incid = Cardinality(LateOf(k)')
                  /\ groups'[k].first \in LinesOf(k)' /\ groups'[k].last \in LinesOf(k)'
        <3>1. CASE k # new
            <4>1. k \in DOMAIN groups /\ groups'[k] = groups[k]
                BY <2>4, <3>1
            <4> QED BY <1>1, <2>6, <2>7, <3>1, <4>1 DEF LogTable
        <3>2. CASE k = new /\ new \in DOMAIN groups
            <4>1. PICK g : g = groups[new]
                OBVIOUS
            <4>2. /\ g.count = Cardinality(LinesOf(new)) /\ g.base = Cardinality(EarlyOf(new))
                  /\ g.incid = Cardinality(LateOf(new)) /\ g.first \in LinesOf(new)
                BY <1>1, <3>2, <4>1 DEF LogTable
            <4>3. groups'[new] = Added(g, i)
                BY <2>4, <3>2, <4>1
            <4>4. /\ Added(g, i).count = g.count + 1 /\ Added(g, i).first = g.first
                  /\ Added(g, i).last = i
                  /\ Added(g, i).base = IF IsBase(i) THEN g.base + 1 ELSE g.base
                  /\ Added(g, i).incid = IF IsBase(i) THEN g.incid ELSE g.incid + 1
                BY DEF Added
            <4> QED BY <2>6, <2>8, <2>10, <3>2, <4>2, <4>3, <4>4
        <3>3. CASE k = new /\ new \notin DOMAIN groups
            <4>1. groups'[new] = Opened(i)
                BY <2>4, <3>3
            <4>2. LinesOf(new) = {}
                BY <1>1, <3>3 DEF LogTable, LinesOf
            <4>3. EarlyOf(new) = {} /\ LateOf(new) = {}
                BY <4>2 DEF EarlyOf, LateOf
            <4>4. Cardinality({}) = 0
                BY FS_EmptySet
            <4>5. /\ Opened(i).count = 1 /\ Opened(i).first = i /\ Opened(i).last = i
                  /\ Opened(i).base = IF IsBase(i) THEN 1 ELSE 0
                  /\ Opened(i).incid = IF IsBase(i) THEN 0 ELSE 1
                BY DEF Opened
            <4> QED BY <2>6, <2>8, <2>10, <3>3, <4>1, <4>2, <4>3, <4>4, <4>5
        <3> QED BY <3>1, <3>2, <3>3
    <2>12. LogTable'
        BY <2>5, <2>11 DEF LogTable
    <2> QED BY <1>1, <2>2, <2>12 DEF TableInv
<1> QED BY <1>2, <1>3

LEMMA PointRead ==
    ASSUME TableInv, BundleInv', DigestInv', ReadPoint
    PROVE  TableInv'
<1>1. /\ input.reader = "metric" /\ next \in Items /\ MetricTable
      /\ next' = next + 1 /\ input' = input
      /\ groups' = [k \in DOMAIN groups \cup Series(next) |->
                      (IF k \in DOMAIN groups THEN groups[k] ELSE {})
                        \cup (IF k \in Series(next) THEN {next} ELSE {})]
    BY DEF ReadPoint, TableInv
<1>2. ReadItems' = ReadItems \cup {next} /\ next \notin ReadItems
    BY <1>1, OneMore DEF TableInv
<1>3. DOMAIN groups' = AllSeries'
    <2>1. AllSeries' = AllSeries \cup Series(next)
        BY <1>1, <1>2, SameItems DEF AllSeries
    <2> QED BY <1>1, <2>1 DEF MetricTable
<1>4. ASSUME NEW k \in DOMAIN groups'
      PROVE  groups'[k] = PointsOf(k)'
    <2>1. PointsOf(k)' = PointsOf(k) \cup (IF k \in Series(next) THEN {next} ELSE {})
        BY <1>1, <1>2, SameItems DEF PointsOf
    <2>2. (IF k \in DOMAIN groups THEN groups[k] ELSE {}) = PointsOf(k)
        BY <1>1 DEF MetricTable, PointsOf, AllSeries
    <2> QED BY <1>1, <2>1, <2>2
<1>5. MetricTable'
    BY <1>3, <1>4 DEF MetricTable
<1> QED BY <1>1, <1>5 DEF TableInv

LEMMA SpanRead ==
    ASSUME TableInv, BundleInv', DigestInv', ReadSpan
    PROVE  TableInv'
<1>1. pc = "read" /\ input.reader = "trace" /\ next \in Items /\ TraceTable
    BY DEF ReadSpan, TableInv
<1>2. CASE Raise(next)
    BY <1>2, TableSame DEF Raise
<1>3. CASE ~Raise(next)
    <2> DEFINE new == Operation(next)
               g == IF new \in DOMAIN groups THEN groups[new]
                    ELSE [count |-> 0, err |-> 0, first |-> next, durations |-> <<>>]
               h == [count |-> g.count + 1, first |-> g.first,
                     err |-> IF Item(next).err THEN g.err + 1 ELSE g.err,
                     durations |-> IF Timed(next) THEN Append(g.durations, Item(next).duration)
                                                  ELSE g.durations]
    <2>1. groups' = Put(groups, new, h) /\ next' = next + 1 /\ input' = input
        BY <1>3 DEF ReadSpan
    <2>2. ReadItems' = ReadItems \cup {next} /\ next \notin ReadItems
        BY <1>1, <2>1, OneMore DEF TableInv
    <2>3. /\ DOMAIN groups' = DOMAIN groups \cup {new}
          /\ \A k \in DOMAIN groups : k # new => groups'[k] = groups[k]
          /\ groups'[new] = h
        <3> HIDE DEF new, h
        <3> QED BY <2>1 DEF Put
    <2>4. DOMAIN groups' = {Operation(i) : i \in ReadItems}'
        <3>1. {Operation(i) : i \in ReadItems}' = {Operation(i) : i \in ReadItems} \cup {new}
            BY <2>1, <2>2, SameItems
        <3> QED BY <1>1, <2>3, <3>1 DEF TraceTable
    <2>5. Item(next).duration \in Int
        <3>1. Item(next) \in UNION Entries["trace"] /\ "trace" \in DOMAIN Entries
            BY <1>1 DEF TableInv, DigestInv, Item
        <3> QED BY <3>1, SpanType
    <2>6. /\ g.count \in Nat /\ g.err \in Nat /\ g.durations \in Seq(Int)
          /\ g.first \in ReadItems \cup {next} /\ Operation(g.first) = new
        <3>1. CASE new \in DOMAIN groups
            <4>1. g = groups[new]
                BY <3>1
            <4> HIDE DEF g
            <4> QED BY <1>1, <3>1, <4>1 DEF TraceTable
        <3>2. CASE new \notin DOMAIN groups
            <4>1. g = [count |-> 0, err |-> 0, first |-> next, durations |-> <<>>]
                BY <3>2
            <4> HIDE DEF g
            <4> QED BY <4>1
        <3> QED BY <3>1, <3>2
    <2>7. /\ h.count \in Nat /\ h.err \in Nat /\ h.durations \in Seq(Int)
          /\ h.first \in ReadItems \cup {next} /\ Operation(h.first) = new
        <3> HIDE DEF g, new
        <3> QED BY <2>5, <2>6
    <2>8. ASSUME NEW k \in DOMAIN groups'
          PROVE  /\ groups'[k].count \in Nat /\ groups'[k].err \in Nat
                 /\ groups'[k].first \in ReadItems' /\ Operation(groups'[k].first) = k
                 /\ groups'[k].durations \in Seq(Int)
        <3>1. CASE k = new
            <4> HIDE DEF h, new
            <4> QED BY <2>1, <2>2, <2>3, <2>7, <3>1, SameItems
        <3>2. CASE k # new
            <4> HIDE DEF h, new
            <4>1. k \in DOMAIN groups /\ groups'[k] = groups[k]
                BY <2>3, <3>2
            <4> QED BY <1>1, <2>1, <2>2, <4>1, SameItems DEF TraceTable
        <3> QED BY <3>1, <3>2
    <2>9. TraceTable'
        BY <2>1, <2>4, <2>8, SameItems DEF TraceTable
    <2> QED BY <1>1, <2>1, <2>9 DEF TableInv
<1> QED BY <1>2, <1>3

LEMMA TableStep == TableInv /\ [Next]_allVars => TableInv'
<1> SUFFICES ASSUME TableInv, [Next]_allVars PROVE TableInv'
    OBVIOUS
<1>1. DigestInv' /\ BundleInv'
    BY DigestStep, BundleStep DEF TableInv
<1>2. CASE ReadLine
    BY <1>1, <1>2, LineRead
<1>3. CASE ReadPoint
    BY <1>1, <1>3, PointRead
<1>4. CASE ReadSpan
    BY <1>1, <1>4, SpanRead
<1>5. CASE RankLines \/ RankSeries \/ RankSpans \/ Cut
    <2>1. UNCHANGED <<input, next, groups>>
        BY <1>5 DEF RankLines, RankSeries, RankSpans, Cut, Raise
    <2> QED BY <1>1, <2>1, TableSame
<1>6. CASE Observe \/ Assemble
    <2>1. input' = input /\ input.reader = "report"
        BY <1>6 DEF Observe, Assemble
    <2> QED BY <1>1, <2>1 DEF TableInv
<1>7. CASE UNCHANGED allVars
    <2>1. UNCHANGED <<input, next, groups>>
        BY <1>7 DEF allVars, vars
    <2> QED BY <1>1, <2>1, TableSame
<1> QED BY <1>2, <1>3, <1>4, <1>5, <1>6, <1>7 DEF Next, Agents

-----------------------------------------------------------------------------
(* The lists that are sorted: their keys tell the members apart.           *)

LEMMA FirstOfSorted ==
    ASSUME NEW S, IsFiniteSet(S), NEW k \in 1..4, NEW key \in Keys(S, k), NEW n \in Nat
    PROVE  LET s == FirstOf(InOrder(S, key), n)
           IN /\ s \in Seq(S) /\ Len(s) = Less(n, Cardinality(S))
              /\ \A m \in DOMAIN s : s[m] = InOrder(S, key)[m] /\ m \in 1..Cardinality(S)
<1> DEFINE all == InOrder(S, key)
<1>1. Cardinality(S) \in Nat /\ all \in [1..Cardinality(S) -> S]
    BY SortedByKey
<1>2. all \in Seq(S) /\ Len(all) = Cardinality(S)
    <2> HIDE DEF all
    <2> QED BY <1>1
<1>3. Less(n, Cardinality(S)) \in 0..Cardinality(S)
    BY <1>1 DEF Less
<1> HIDE DEF all
<1>4. /\ FirstOf(all, n) \in Seq(S) /\ Len(FirstOf(all, n)) = Less(n, Cardinality(S))
      /\ \A m \in 1..Less(n, Cardinality(S)) : FirstOf(all, n)[m] = all[m]
    BY <1>1, <1>2, <1>3, SubSeqProperties DEF FirstOf
<1>5. DOMAIN FirstOf(all, n) = 1..Less(n, Cardinality(S))
    BY <1>3, <1>4
<1> QED BY <1>1, <1>3, <1>4, <1>5 DEF all

LEMMA LogEntries ==
    ASSUME TableInv, input.reader = "log"
    PROVE  /\ \A k \in DOMAIN groups :
                 /\ groups[k].count \in Nat /\ groups[k].base \in Nat /\ groups[k].incid \in Nat
                 /\ groups[k].first \in Items /\ groups[k].last \in Items
                 /\ Key(groups[k].first) = k
                 /\ Baseline(k) \in Nat /\ Usual(k) \in Nat /\ Usual(k) > 0
           /\ Items \subseteq Nat /\ IsFiniteSet(DOMAIN groups) /\ IsFiniteSet(Items)
<1>1. LogTable /\ BundleInv /\ IsFiniteSet(Items) /\ IsFiniteSet(DOMAIN groups)
    BY DEF TableInv, DigestInv
<1>2. \A k : /\ LinesOf(k) \in SUBSET Items /\ EarlyOf(k) \in SUBSET Items
             /\ LateOf(k) \in SUBSET Items
    BY DEF LinesOf, EarlyOf, LateOf, ReadItems
<1>3. \A k : /\ Cardinality(LinesOf(k)) \in Nat /\ Cardinality(EarlyOf(k)) \in Nat
             /\ Cardinality(LateOf(k)) \in Nat
    BY <1>1, <1>2, FS_Subset, FS_CardinalityType
<1>4. \A k \in DOMAIN groups :
         /\ groups[k].count \in Nat /\ groups[k].base \in Nat /\ groups[k].incid \in Nat
         /\ groups[k].first \in Items /\ groups[k].last \in Items
    BY <1>1, <1>2, <1>3 DEF LogTable
<1>5. \A k \in DOMAIN groups : Key(groups[k].first) = k
    BY <1>1 DEF LogTable, LinesOf
<1>6. \A k : Baseline(k) \in Nat
    <2> TAKE k
    <2> DEFINE history == input.context.history
               seen == {n \in DOMAIN history : /\ history[n].service = k[1]
                                               /\ history[n].level = k[2]
                                               /\ Template(history, n) = groups[k].template}
    <2>1. input.context \in Contexts["log"] /\ "log" \in DOMAIN Contexts
        BY <1>1, BundleType DEF BundleInv, TableInv, DigestInv
    <2>2. Len(history) \in Nat /\ DOMAIN history = 1..Len(history)
        BY <2>1, HistoryType
    <2>3. IsFiniteSet(DOMAIN history)
        <3> HIDE DEF history
        <3> QED BY <2>2, FS_Interval
    <2>4. seen \in SUBSET DOMAIN history
        OBVIOUS
    <2>5. Baseline(k) = Cardinality(seen)
        BY DEF Baseline, Profile
    <2> HIDE DEF seen, history
    <2> QED BY <2>3, <2>4, <2>5, FS_Subset, FS_CardinalityType
<1>7. Items \subseteq Nat
    BY <1>1 DEF BundleInv
<1>8. \A k \in DOMAIN groups : Usual(k) \in Nat /\ Usual(k) > 0
    BY <1>4, <1>6 DEF Usual
<1> QED BY <1>1, <1>4, <1>5, <1>6, <1>7, <1>8

LEMMA LevelType == \A level : LEVEL_ORDER(level) \in 0..2
BY DEF LEVEL_ORDER

LEMMA LogKeys ==
    ASSUME TableInv, input.reader = "log", NEW S \in SUBSET DOMAIN groups
    PROVE  /\ [k \in S |-> <<-groups[k].incid, -groups[k].count, groups[k].first>>] \in Keys(S, 3)
           /\ [k \in S |-> SortKey(k)] \in Keys(S, 4)
<1>1. \A k \in S : /\ groups[k].count \in Int /\ groups[k].incid \in Int /\ groups[k].first \in Int
                   /\ Key(groups[k].first) = k
    BY LogEntries
<1>2. \A k \in S : Rank(k) \in Int /\ LEVEL_ORDER(k[2]) \in Int
    <2> TAKE k \in S
    <2>1. {h \in DOMAIN groups : MoreSurprising(h, k)} \in SUBSET DOMAIN groups
        OBVIOUS
    <2>2. IsFiniteSet(DOMAIN groups)
        BY LogEntries
    <2>3. Rank(k) \in Nat
        BY <2>1, <2>2, FS_Subset, FS_CardinalityType DEF Rank
    <2> QED BY <2>3, LevelType
<1>3. [k \in S |-> <<-groups[k].incid, -groups[k].count, groups[k].first>>] \in Keys(S, 3)
    <2> DEFINE key == [k \in S |-> <<-groups[k].incid, -groups[k].count, groups[k].first>>]
    <2>1. \A k \in S : key[k] \in [1..3 -> Int] /\ key[k][3] = groups[k].first
        BY <1>1
    <2>2. \A x, y \in S : key[x] = key[y] => x = y
        BY <1>1, <2>1
    <2>3. key \in [S -> [1..3 -> Int]]
        BY <2>1
    <2> HIDE DEF key
    <2> QED BY <2>2, <2>3 DEF Keys, Tuples, key
<1>4. [k \in S |-> SortKey(k)] \in Keys(S, 4)
    <2> DEFINE key == [k \in S |-> SortKey(k)]
    <2>1. \A k \in S : key[k] \in [1..4 -> Int] /\ key[k][4] = groups[k].first
        BY <1>1, <1>2 DEF SortKey
    <2>2. \A x, y \in S : key[x] = key[y] => x = y
        BY <1>1, <2>1
    <2>3. key \in [S -> [1..4 -> Int]]
        BY <2>1
    <2> HIDE DEF key
    <2> QED BY <2>2, <2>3 DEF Keys, Tuples, key
<1> QED BY <1>3, <1>4

LEMMA NearKeys ==
    ASSUME TableInv, NEW S \in SUBSET Items
    PROVE  [i \in S |-> <<LEVEL_ORDER(Item(i).level), At(i), i>>] \in Keys(S, 3)
<1> DEFINE key == [i \in S |-> <<LEVEL_ORDER(Item(i).level), At(i), i>>]
<1>1. \A i \in S : LEVEL_ORDER(Item(i).level) \in Int /\ At(i) \in Int /\ i \in Int
    BY LevelType DEF TableInv, BundleInv
<1>2. \A k \in S : key[k] \in [1..3 -> Int] /\ key[k][3] = k
    BY <1>1
<1>3. \A x, y \in S : key[x] = key[y] => x = y
    BY <1>2
<1>4. key \in [S -> [1..3 -> Int]]
    BY <1>2
<1> HIDE DEF key
<1> QED BY <1>3, <1>4 DEF Keys, Tuples, key

LEMMA OwnKeys ==
    ASSUME NEW S \in SUBSET Int
    PROVE  [i \in S |-> <<i>>] \in Keys(S, 1)
<1> DEFINE key == [i \in S |-> <<i>>]
<1>1. \A i \in S : key[i] \in [1..1 -> Int] /\ key[i][1] = i
    OBVIOUS
<1>2. \A x, y \in S : key[x] = key[y] => x = y
    BY <1>1
<1>3. key \in [S -> [1..1 -> Int]]
    BY <1>1
<1> HIDE DEF key
<1> QED BY <1>2, <1>3 DEF Keys, Tuples, key

-----------------------------------------------------------------------------
(* The series of the metrics. *)

LEMMA SeriesValues ==
    ASSUME TableInv, input.reader = "metric", NEW k \in DOMAIN groups
    PROVE  /\ groups[k] \in SUBSET Items /\ IsFiniteSet(groups[k]) /\ Items \subseteq Nat
           /\ k = <<k[1], k[2]>> /\ k[1] \in Int /\ k[2] \in Int
           /\ \A i \in groups[k] : Value(k, i) \in Int
<1>1. MetricTable /\ BundleInv /\ IsFiniteSet(Items)
    BY DEF TableInv, DigestInv
<1>2. groups[k] = PointsOf(k) /\ PointsOf(k) \in SUBSET Items
    BY <1>1 DEF MetricTable, PointsOf, ReadItems
<1>3. \A i \in Items : /\ Item(i).service \in Int /\ DOMAIN Item(i).pairs \subseteq Int
                       /\ \A l \in DOMAIN Item(i).pairs : Item(i).pairs[l] \in Int
    <2> TAKE i \in Items
    <2>1. Item(i) \in UNION Entries["metric"] /\ "metric" \in DOMAIN Entries
        BY DEF TableInv, DigestInv, Item
    <2> QED BY <2>1, PairsType
<1>4. \A i \in PointsOf(k) : \E l \in DOMAIN Item(i).pairs : k = <<Item(i).service, l>>
    BY DEF PointsOf, Series
<1>5. PICK n \in ReadItems : k \in Series(n)
    BY <1>1 DEF MetricTable, AllSeries
<1>6. n \in PointsOf(k)
    BY <1>5 DEF PointsOf
<1>7. k = <<k[1], k[2]>> /\ k[1] \in Int /\ k[2] \in Int
    BY <1>2, <1>3, <1>4, <1>6
<1>8. \A i \in groups[k] : Value(k, i) \in Int
    <2> TAKE i \in groups[k]
    <2>1. PICK l \in DOMAIN Item(i).pairs : k = <<Item(i).service, l>>
        BY <1>2, <1>4
    <2>2. k[2] = l /\ i \in Items
        BY <1>2, <2>1
    <2> QED BY <1>3, <2>1, <2>2 DEF Value
<1>9. Items \subseteq Nat
    BY <1>1 DEF BundleInv
<1> QED BY <1>1, <1>2, <1>7, <1>8, <1>9, FS_Subset

(* Sums over the points before the trigger, and the squares of them.       *)
LEMMA SeriesSpread ==
    ASSUME TableInv, input.reader = "metric", NEW k \in DOMAIN groups
    PROVE  /\ Base(k) \in SUBSET groups[k] /\ IsFiniteSet(Base(k))
           /\ Count(k) \in Nat /\ (Base(k) # {} => Count(k) > 0)
           /\ \A i \in groups[k] : Off(k, i) \in Int
           /\ Variance(k) \in Int /\ Variance(k) >= 0
<1>1. /\ IsFiniteSet(groups[k]) /\ \A i \in groups[k] : Value(k, i) \in Int
    BY SeriesValues
<1>2. Base(k) \in SUBSET groups[k]
    BY DEF Base
<1>3. IsFiniteSet(Base(k))
    BY <1>1, <1>2, FS_Subset
<1>4. Count(k) \in Nat /\ (Base(k) # {} => Count(k) > 0)
    <2>1. Cardinality(Base(k)) \in Nat /\ (Cardinality(Base(k)) = 0 => Base(k) = {})
        BY <1>3, FS_CardinalityType, FS_EmptySet
    <2> QED BY <2>1 DEF Count
<1> DEFINE v == [j \in Base(k) |-> Value(k, j)]
           w == [j \in Base(k) |-> Value(k, j) * Value(k, j)]
<1>5. \A j \in Base(k) : v[j] \in Int /\ w[j] = v[j] * v[j] /\ w[j] \in Int
    BY <1>1, <1>2
<1>6. /\ SumFunction(v) = SumFunctionOnSet(v, Base(k)) /\ SumFunction(w) = SumFunctionOnSet(w, Base(k))
    BY DEF SumFunction
<1>7. /\ SumFunction(v) \in Int /\ SumFunction(w) \in Int
      /\ Count(k) * SumFunction(w) - SumFunction(v) * SumFunction(v) >= 0
    <2> HIDE DEF v, w
    <2> QED BY <1>3, <1>5, <1>6, SumType, VarianceOfSums DEF Count
<1>8. Variance(k) = Count(k) * SumFunction(w) - SumFunction(v) * SumFunction(v)
    BY DEF Variance
<1>9. \A i \in groups[k] : Off(k, i) = Count(k) * Value(k, i) - SumFunction(v)
    BY DEF Off
<1> HIDE DEF v, w
<1>10. Variance(k) \in Int /\ Variance(k) >= 0
    BY <1>4, <1>7, <1>8
<1>11. \A i \in groups[k] : Off(k, i) \in Int
    BY <1>1, <1>4, <1>7, <1>9
<1> QED BY <1>2, <1>3, <1>4, <1>10, <1>11

LEMMA OnsetAndPeak ==
    ASSUME TableInv, input.reader = "metric", NEW k \in DOMAIN groups, Outliers(k) # {}
    PROVE  /\ Onset(k) \in Outliers(k) /\ Peak(k) \in Outliers(k)
           /\ Outliers(k) \in SUBSET groups[k] /\ Base(k) # {}
           /\ Off(k, Peak(k)) * Off(k, Peak(k)) > 9 * Variance(k)
<1>1. /\ groups[k] \in SUBSET Items /\ IsFiniteSet(groups[k]) /\ Items \subseteq Nat
      /\ \A i \in groups[k] : Off(k, i) \in Int
    BY SeriesValues, SeriesSpread
<1>2. /\ Outliers(k) \in SUBSET groups[k] /\ Base(k) # {}
      /\ \A i \in Outliers(k) : Off(k, i) * Off(k, i) > 9 * Variance(k)
    BY DEF Outliers, Incid
<1>3. IsFiniteSet(Outliers(k)) /\ Outliers(k) \subseteq Nat
    BY <1>1, <1>2, FS_Subset
<1>4. Onset(k) \in Outliers(k)
    BY <1>3, LeastOf DEF Onset
<1> DEFINE far == [i \in Outliers(k) |-> Off(k, i) * Off(k, i)]
           top == {i \in Outliers(k) : \A j \in Outliers(k) : Off(k, j) * Off(k, j) <= Off(k, i) * Off(k, i)}
<1>5. \A i \in Outliers(k) : far[i] \in Int /\ far[i] = Off(k, i) * Off(k, i)
    BY <1>1, <1>2
<1>6. \E i \in Outliers(k) : \A j \in Outliers(k) : far[j] <= far[i]
    <2> HIDE DEF far
    <2> QED BY <1>3, <1>5, GreatestOf
<1>7. top # {} /\ top \subseteq Nat /\ top \subseteq Outliers(k)
    BY <1>3, <1>5, <1>6
<1>8. Peak(k) \in Outliers(k)
    <2>1. Peak(k) = Min(top)
        BY DEF Peak
    <2> HIDE DEF top
    <2> QED BY <1>7, <2>1, LeastOf
<1> QED BY <1>2, <1>4, <1>8

(* The score of a series is a fraction, and above 0 if it has an outlier.  *)
LEMMA ScoreType ==
    ASSUME TableInv, input.reader = "metric", NEW k \in DOMAIN groups
    PROVE  /\ Score(k).num \in Int /\ Score(k).den \in Int /\ Score(k).den > 0
           /\ Outliers(k) # {} => Score(k).num > 0
           /\ Outliers(k) = {} => Score(k).num = 0
<1>1. CASE Outliers(k) = {}
    BY <1>1 DEF Score
<1>2. CASE Outliers(k) # {}
    <2>1. PICK p \in groups[k] : p = Peak(k) /\ Off(k, p) * Off(k, p) > 9 * Variance(k)
        BY <1>2, OnsetAndPeak
    <2>2. /\ Variance(k) \in Int /\ Variance(k) >= 0 /\ Off(k, p) \in Int
          /\ Count(k) \in Nat /\ Count(k) > 0
        BY <1>2, <2>1, SeriesSpread, OnsetAndPeak
    <2>3. PICK o \in Int : o = Off(k, p)
        BY <2>2
    <2>4. o * o \in Int /\ o * o > 0
        BY <2>1, <2>2, <2>3
    <2>5. Count(k) * Count(k) \in Int /\ Count(k) * Count(k) > 0
        BY <2>2
    <2>6. /\ Score(k).num = o * o
          /\ Score(k).den = IF Variance(k) = 0 THEN Count(k) * Count(k) ELSE Variance(k)
        BY <1>2, <2>1, <2>3 DEF Score
    <2>7. Score(k).den \in Int /\ Score(k).den > 0
        BY <2>2, <2>5, <2>6
    <2> QED BY <1>2, <2>4, <2>6, <2>7
<1> QED BY <1>1, <1>2

SeriesOrder(k) == <<Cardinality({h \in DOMAIN groups : Louder(h, k)}), k[1], k[2]>>

LEMMA SeriesKeys ==
    ASSUME TableInv, input.reader = "metric"
    PROVE  [k \in DOMAIN groups |-> SeriesOrder(k)] \in Keys(DOMAIN groups, 3)
<1> DEFINE key == [k \in DOMAIN groups |-> SeriesOrder(k)]
<1>1. \A k \in DOMAIN groups : Cardinality({h \in DOMAIN groups : Louder(h, k)}) \in Int
    <2> TAKE k \in DOMAIN groups
    <2>1. {h \in DOMAIN groups : Louder(h, k)} \in SUBSET DOMAIN groups
        OBVIOUS
    <2>2. IsFiniteSet(DOMAIN groups)
        BY DEF TableInv, DigestInv
    <2> QED BY <2>1, <2>2, FS_Subset, FS_CardinalityType
<1>2. \A k \in DOMAIN groups : k = <<k[1], k[2]>> /\ k[1] \in Int /\ k[2] \in Int
    BY SeriesValues
<1>3. \A k \in DOMAIN groups : /\ key[k] \in [1..3 -> Int]
                               /\ key[k][2] = k[1] /\ key[k][3] = k[2]
    BY <1>1, <1>2 DEF SeriesOrder
<1>4. \A x, y \in DOMAIN groups : key[x] = key[y] => x = y
    BY <1>2, <1>3
<1>5. key \in [DOMAIN groups -> [1..3 -> Int]]
    BY <1>3
<1> HIDE DEF key
<1> QED BY <1>4, <1>5 DEF Keys, Tuples, key

-----------------------------------------------------------------------------
(* The spans. *)

LEMMA SpanFields ==
    ASSUME TableInv, input.reader = "trace", NEW i \in Items
    PROVE  Item(i).err \in BOOLEAN /\ Item(i).duration \in Int /\ i \in Nat
<1>1. Item(i) \in UNION Entries["trace"] /\ "trace" \in DOMAIN Entries
    BY DEF TableInv, DigestInv, Item
<1>2. i \in Nat
    BY DEF TableInv, BundleInv
<1> QED BY <1>1, <1>2, SpanType

LEMMA SlowKeys ==
    ASSUME TableInv, input.reader = "trace", NEW S \in SUBSET Items
    PROVE  [i \in S |-> <<-Item(i).duration, i>>] \in Keys(S, 2)
<1> DEFINE key == [i \in S |-> <<-Item(i).duration, i>>]
<1>1. \A i \in S : key[i] \in [1..2 -> Int] /\ key[i][2] = i
    BY SpanFields
<1>2. \A x, y \in S : key[x] = key[y] => x = y
    BY <1>1
<1>3. key \in [S -> [1..2 -> Int]]
    BY <1>1
<1> HIDE DEF key
<1> QED BY <1>2, <1>3 DEF Keys, Tuples, key

OperationOrder(k) == <<-groups[k].err, -groups[k].count, groups[k].first>>

LEMMA OperationKeys ==
    ASSUME TableInv, input.reader = "trace"
    PROVE  [k \in DOMAIN groups |-> OperationOrder(k)] \in Keys(DOMAIN groups, 3)
<1> DEFINE key == [k \in DOMAIN groups |-> OperationOrder(k)]
<1>1. \A k \in DOMAIN groups :
         /\ groups[k].count \in Nat /\ groups[k].err \in Nat /\ groups[k].first \in Nat
         /\ Operation(groups[k].first) = k
    BY SpanFields DEF TableInv, TraceTable, ReadItems
<1>2. \A k \in DOMAIN groups : key[k] \in [1..3 -> Int] /\ key[k][3] = groups[k].first
    BY <1>1 DEF OperationOrder
<1>3. \A x, y \in DOMAIN groups : key[x] = key[y] => x = y
    BY <1>1, <1>2
<1>4. key \in [DOMAIN groups -> [1..3 -> Int]]
    BY <1>2
<1> HIDE DEF key
<1> QED BY <1>3, <1>4 DEF Keys, Tuples, key

(* The spans from which the quoted ones are chosen: an error, if any, and  *)
(* a slowest one, if any has a duration.                                   *)
LEMMA SlowestFirst ==
    ASSUME TableInv, input.reader = "trace"
    PROVE  /\ Slowest \in Seq(Items)
           /\ \A i \in Items : Timed(i) =>
                \E n \in DOMAIN Slowest : Item(Slowest[n]).duration >= Item(i).duration
<1> DEFINE S == {i \in Items : Timed(i)}
           key == [i \in S |-> <<-Item(i).duration, i>>]
           all == InOrder(S, key)
<1>1. IsFiniteSet(S) /\ S \in SUBSET Items
    BY FS_Subset DEF TableInv, DigestInv
<1>2. key \in Keys(S, 2) /\ \A i \in S : key[i][1] = -Item(i).duration
    BY SlowKeys
<1>3. Slowest = FirstOf(all, ExemplarLimit)
    BY DEF Slowest, Listed
<1>4. \A i \in S : Item(i).duration \in Int
    BY SpanFields
<1> HIDE DEF S, key
<1>5. ExemplarLimit \in Nat /\ ExemplarLimit >= 1
    BY ExemplarType
<1>6. /\ Slowest \in Seq(S) /\ Len(Slowest) = Less(ExemplarLimit, Cardinality(S))
      /\ \A m \in DOMAIN Slowest : Slowest[m] = all[m]
    <2>1. LET s == FirstOf(InOrder(S, key), ExemplarLimit)
          IN /\ s \in Seq(S) /\ Len(s) = Less(ExemplarLimit, Cardinality(S))
             /\ \A m \in DOMAIN s : s[m] = InOrder(S, key)[m] /\ m \in 1..Cardinality(S)
        BY <1>1, <1>2, <1>5, FirstOfSorted
    <2> QED BY <1>3, <2>1
<1>7. /\ Cardinality(S) \in Nat /\ all \in [1..Cardinality(S) -> S]
      /\ \A x \in S : \E n \in DOMAIN all : all[n] = x
      /\ \A m, n \in DOMAIN all : m < n <=> Before(key[all[m]], key[all[n]])
    BY <1>1, <1>2, SortedByKey
<1> HIDE DEF all
<1>8. ASSUME NEW i \in S
      PROVE  \E n \in DOMAIN Slowest : Item(Slowest[n]).duration >= Item(i).duration
    <2>1. PICK n \in 1..Cardinality(S) : all[n] = i
        BY <1>7
    <2>2. 1 \in DOMAIN Slowest /\ 1 \in DOMAIN all /\ all[1] \in S
        BY <1>5, <1>6, <1>7, <2>1 DEF Less
    <2>3. CASE n = 1
        BY <1>4, <1>6, <2>1, <2>2, <2>3
    <2>4. CASE n > 1
        <3>1. Before(key[all[1]], key[i])
            BY <1>7, <2>1, <2>2, <2>4
        <3>2. key[all[1]] \in Tuples(2) /\ key[i] \in Tuples(2)
            BY <1>2, <2>2 DEF Keys
        <3>3. key[all[1]][1] <= key[i][1]
            BY <3>1, <3>2, FirstPartDecides
        <3>4. Item(all[1]).duration \in Int /\ Item(i).duration \in Int
            BY <1>4, <2>2
        <3>5. Item(all[1]).duration >= Item(i).duration
            BY <1>2, <2>2, <3>3, <3>4
        <3> QED BY <1>6, <2>2, <3>5
    <2> QED BY <2>1, <2>3, <2>4
<1>9. Slowest \in Seq(Items)
    BY <1>1, <1>6, SeqMonotonic
<1> QED BY <1>8, <1>9 DEF S

LEMMA ErrorFirst ==
    ASSUME TableInv, input.reader = "trace"
    PROVE  /\ Errors \in Seq(Items)
           /\ (\E i \in Items : Item(i).err) => \E n \in DOMAIN Errors : Item(Errors[n]).err
<1> DEFINE S == {i \in Items : Item(i).err}
           key == [i \in S |-> <<i>>]
           all == InOrder(S, key)
<1>1. IsFiniteSet(S) /\ S \in SUBSET Items /\ S \in SUBSET Int
    BY FS_Subset, SpanFields DEF TableInv, DigestInv
<1>2. key \in Keys(S, 1)
    BY <1>1, OwnKeys
<1>3. Errors = FirstOf(all, ExemplarLimit)
    BY DEF Errors, Listed
<1> HIDE DEF S, key
<1>4. ExemplarLimit \in Nat /\ ExemplarLimit >= 1
    BY ExemplarType
<1>5. Errors \in Seq(S) /\ Len(Errors) = Less(ExemplarLimit, Cardinality(S))
    BY <1>1, <1>2, <1>3, <1>4, FirstOfSorted
<1>6. Cardinality(S) \in Nat /\ (S # {} => Cardinality(S) > 0)
    BY <1>1, FS_CardinalityType, FS_EmptySet
<1>7. S # {} => 1 \in DOMAIN Errors /\ Errors[1] \in S
    BY <1>4, <1>5, <1>6 DEF Less
<1>8. Errors \in Seq(Items)
    BY <1>1, <1>5, SeqMonotonic
<1> QED BY <1>7, <1>8 DEF S

(* A span is quoted, or one that is the same to a reader; and no two such. *)
LEMMA ExemplarsOf ==
    ASSUME TableInv, input.reader = "trace"
    PROVE  LET all == Errors \o Slowest
           IN /\ Exemplars \in Seq(Items)
              /\ \A m \in DOMAIN all : \E n \in DOMAIN Exemplars : Same(Exemplars[n], all[m])
              /\ \A m, n \in DOMAIN Exemplars : Same(Exemplars[m], Exemplars[n]) => m = n
<1> DEFINE all == Errors \o Slowest
           New(n) == \A m \in 1..(n - 1) : ~Same(all[m], all[n])
           S == {n \in DOMAIN all : New(n)}
           key == [n \in S |-> <<n>>]
           order == InOrder(S, key)
<1>1. all \in Seq(Items)
    BY SlowestFirst, ErrorFirst, ConcatProperties
<1>2. Len(all) \in Nat /\ DOMAIN all = 1..Len(all) /\ \A n \in DOMAIN all : all[n] \in Items
    <2> HIDE DEF all
    <2> QED BY <1>1
<1>3. Exemplars = [n \in DOMAIN order |-> all[order[n]]]
    BY DEF Exemplars, Listed
<1> HIDE DEF all
<1>4. IsFiniteSet(S) /\ S \in SUBSET Int /\ S \in SUBSET (1..Len(all))
    <2>1. IsFiniteSet(1..Len(all))
        BY <1>2, FS_Interval
    <2>2. S \in SUBSET (1..Len(all))
        BY <1>2
    <2>3. S \in SUBSET Int
        BY <1>2, <2>2
    <2> HIDE DEF S
    <2> QED BY <2>1, <2>2, <2>3, FS_Subset
<1>5. \A n \in S : \A m \in 1..(n - 1) : ~Same(all[m], all[n])
    OBVIOUS
<1>6. \A m \in DOMAIN all : \E n \in S : Same(all[n], all[m])
    <2> TAKE m \in DOMAIN all
    <2> DEFINE like == {n \in 1..Len(all) : Same(all[n], all[m])}
               least == Min(like)
    <2>1. m \in like
        BY <1>2 DEF Same
    <2>2. like \subseteq Nat
        BY <1>2
    <2>3. least \in like /\ \A n \in like : least <= n
        <3> HIDE DEF like
        <3> QED BY <2>1, <2>2, LeastOf
    <2>4. least \in 1..Len(all) /\ Same(all[least], all[m])
        <3> HIDE DEF least
        <3> QED BY <2>3
    <2>5. New(least)
        <3> HIDE DEF least
        <3> SUFFICES ASSUME NEW n \in 1..(least - 1), Same(all[n], all[least]) PROVE FALSE
            OBVIOUS
        <3>1. n \in 1..Len(all) /\ n < least
            BY <1>2, <2>4
        <3>2. Same(all[n], all[m])
            BY <2>4 DEF Same
        <3> QED BY <2>2, <2>3, <3>1, <3>2
    <2>6. least \in S
        <3> HIDE DEF least
        <3> QED BY <1>2, <2>4, <2>5
    <2> HIDE DEF least, S
    <2> QED BY <2>4, <2>6
<1>7. key \in Keys(S, 1)
    <2> HIDE DEF S
    <2> QED BY <1>4, OwnKeys
<1> HIDE DEF S, key
<1>8. /\ Cardinality(S) \in Nat /\ order \in [1..Cardinality(S) -> S]
      /\ \A x \in S : \E n \in DOMAIN order : order[n] = x
      /\ \A m, n \in DOMAIN order : order[m] = order[n] => m = n
    BY <1>4, <1>7, SortedByKey
<1> HIDE DEF order
<1>9. /\ DOMAIN Exemplars = 1..Cardinality(S)
      /\ \A n \in 1..Cardinality(S) : Exemplars[n] = all[order[n]] /\ order[n] \in S
    BY <1>3, <1>8
<1>10. Exemplars \in Seq(Items)
    <2>1. Exemplars \in [1..Cardinality(S) -> Items]
        BY <1>2, <1>3, <1>4, <1>8
    <2> QED BY <1>8, <2>1
<1>11. \A m \in DOMAIN all : \E n \in DOMAIN Exemplars : Same(Exemplars[n], all[m])
    <2> TAKE m \in DOMAIN all
    <2>1. PICK n \in S : Same(all[n], all[m])
        BY <1>6
    <2>2. PICK p \in DOMAIN order : order[p] = n
        BY <1>8
    <2> QED BY <1>8, <1>9, <2>1, <2>2
<1>12. \A m, n \in DOMAIN Exemplars : Same(Exemplars[m], Exemplars[n]) => m = n
    <2> SUFFICES ASSUME NEW m \in DOMAIN Exemplars, NEW n \in DOMAIN Exemplars,
                        Same(Exemplars[m], Exemplars[n])
                 PROVE  m = n
        OBVIOUS
    <2>1. order[m] \in S /\ order[n] \in S /\ Same(all[order[m]], all[order[n]])
        BY <1>9
    <2>2. Same(all[order[n]], all[order[m]])
        BY <2>1 DEF Same
    <2>3. order[m] \in Nat /\ order[n] \in Nat /\ order[m] >= 1 /\ order[n] >= 1
        <3>1. order[m] \in 1..Len(all) /\ order[n] \in 1..Len(all) /\ Len(all) \in Nat
            BY <1>2, <1>4, <2>1
        <3> QED BY <3>1
    <2>4. ~(order[m] < order[n]) /\ ~(order[n] < order[m])
        BY <1>5, <2>1, <2>2, <2>3 DEF S
    <2>5. order[m] = order[n]
        BY <2>3, <2>4
    <2> QED BY <1>8, <1>9, <2>5
<1> QED BY <1>10, <1>11, <1>12 DEF all

-----------------------------------------------------------------------------
(* The delays of an operation. *)

LEMMA SortedDelays ==
    ASSUME NEW came \in Seq(Int)
    PROVE  /\ Sorted(came) \in Seq(Int) /\ Len(Sorted(came)) = Len(came)
           /\ \A m, n \in 1..Len(came) : m <= n => Sorted(came)[m] <= Sorted(came)[n]
           /\ \E order \in [1..Len(came) -> 1..Len(came)] :
                /\ \A i \in 1..Len(came) : \E n \in 1..Len(came) : order[n] = i
                /\ \A n \in 1..Len(came) : Sorted(came)[n] = came[order[n]]
<1>0. PICK N \in Nat : N = Len(came)
    OBVIOUS
<1> DEFINE key == [i \in DOMAIN came |-> <<came[i], i>>]
           order == InOrder(DOMAIN came, key)
<1>1. N \in Nat /\ DOMAIN came = 1..N /\ \A i \in 1..N : came[i] \in Int
    BY <1>0
<1>2. IsFiniteSet(1..N) /\ Cardinality(1..N) = N
    BY <1>1, FS_Interval
<1>3. /\ \A i \in 1..N : key[i] \in [1..2 -> Int] /\ key[i][1] = came[i] /\ key[i][2] = i
      /\ DOMAIN key = 1..N
    BY <1>1
<1>4. Sorted(came) = [n \in DOMAIN order |-> came[order[n]]]
    BY DEF Sorted
<1>5. key \in [1..N -> [1..2 -> Int]]
    BY <1>1, <1>3
<1> HIDE DEF key
<1>6. key \in Keys(1..N, 2)
    <2>1. \A x, y \in 1..N : key[x] = key[y] => x = y
        BY <1>3
    <2> QED BY <1>5, <2>1 DEF Keys, Tuples
<1>7. LET s == InOrder(1..N, key)
      IN /\ s \in [1..N -> 1..N]
         /\ \A x \in 1..N : \E n \in DOMAIN s : s[n] = x
         /\ \A m, n \in DOMAIN s : m < n <=> Before(key[s[m]], key[s[n]])
    <2>1. LET s == InOrder(1..N, key)
          IN /\ Cardinality(1..N) \in Nat /\ s \in [1..Cardinality(1..N) -> 1..N]
             /\ \A x \in 1..N : \E n \in DOMAIN s : s[n] = x
             /\ \A m, n \in DOMAIN s : s[m] = s[n] => m = n
             /\ \A m, n \in DOMAIN s : m < n <=> Before(key[s[m]], key[s[n]])
        <3>1. 2 \in 1..4 /\ IsFiniteSet(1..N)
            BY <1>2
        <3> QED BY <1>6, <3>1, SortedByKey
    <2> QED BY <1>2, <2>1
<1>8. /\ order \in [1..N -> 1..N]
      /\ \A x \in 1..N : \E n \in 1..N : order[n] = x
      /\ \A m, n \in 1..N : m < n <=> Before(key[order[m]], key[order[n]])
    BY <1>1, <1>7
<1> HIDE DEF order
<1>9. Sorted(came) = [n \in 1..N |-> came[order[n]]]
    BY <1>4, <1>8
<1>10. Sorted(came) \in Seq(Int) /\ Len(Sorted(came)) = N
    <2>1. Sorted(came) \in [1..N -> Int]
        BY <1>1, <1>8, <1>9
    <2> QED BY <1>1, <1>9, <2>1
<1>11. ASSUME NEW m \in 1..N, NEW n \in 1..N, m <= n
       PROVE  Sorted(came)[m] <= Sorted(came)[n]
    <2>1. Sorted(came)[m] = came[order[m]] /\ Sorted(came)[n] = came[order[n]]
        BY <1>9
    <2>2. order[m] \in 1..N /\ order[n] \in 1..N
        BY <1>8
    <2>3. CASE m = n
        BY <1>1, <2>1, <2>2, <2>3
    <2>4. CASE m < n
        <3>1. Before(key[order[m]], key[order[n]])
            BY <1>8, <2>4
        <3>2. key[order[m]] \in Tuples(2) /\ key[order[n]] \in Tuples(2)
            BY <1>6, <2>2 DEF Keys
        <3>3. key[order[m]][1] <= key[order[n]][1]
            BY <3>1, <3>2, FirstPartDecides
        <3> QED BY <1>3, <2>1, <2>2, <3>3
    <2> QED BY <1>0, <1>11, <2>3, <2>4
<1>12. \A n \in 1..N : Sorted(came)[n] = came[order[n]]
    BY <1>9
<1> QED BY <1>0, <1>8, <1>10, <1>11, <1>12

(* The place of a percentile in the list. *)
PlaceOf(n, percent) ==
    LET rank == percent * (n - 1)
        down == rank \div 100
        half == 2 * (rank % 100)
    IN (IF half > 100 \/ (half = 100 /\ down % 2 = 1) THEN down + 1 ELSE down) + 1

LEMMA PercentileAt ==
    ASSUME NEW s, NEW percent
    PROVE  Percentile(s, percent) = s[PlaceOf(Len(s), percent)]
BY DEF Percentile, PlaceOf

LEMMA MedianPlace ==
    ASSUME NEW n \in Nat, n >= 1
    PROVE  /\ PlaceOf(n, 50) \in 1..n
           /\ 2 * (PlaceOf(n, 50) - 1) <= n /\ 2 * (n - PlaceOf(n, 50)) <= n
<1>1. PICK q \in Nat : n - 1 = 2 * q \/ n - 1 = 2 * q + 1
    <2>1. (n - 1) \div 2 \in Nat /\ (n - 1 = 2 * ((n - 1) \div 2) \/ n - 1 = 2 * ((n - 1) \div 2) + 1)
        OBVIOUS
    <2> QED BY <2>1
<1>2. CASE n - 1 = 2 * q
    <2>1. 50 * (n - 1) = 100 * q
        BY <1>2
    <2>2. (100 * q) \div 100 = q /\ (100 * q) % 100 = 0
        OBVIOUS
    <2>3. PlaceOf(n, 50) = q + 1
        BY <2>1, <2>2 DEF PlaceOf
    <2> QED BY <1>2, <2>3
<1>3. CASE n - 1 = 2 * q + 1
    <2>1. 50 * (n - 1) = 100 * q + 50
        BY <1>3
    <2>2. (100 * q + 50) \div 100 = q /\ (100 * q + 50) % 100 = 50
        OBVIOUS
    <2>3. PlaceOf(n, 50) = (IF q % 2 = 1 THEN q + 1 ELSE q) + 1
        BY <2>1, <2>2 DEF PlaceOf
    <2>4. CASE q % 2 = 1
        <3>1. q >= 1 /\ PlaceOf(n, 50) = q + 2
            BY <2>3, <2>4
        <3> QED BY <1>3, <3>1
    <2>5. CASE q % 2 # 1
        <3>1. PlaceOf(n, 50) = q + 1
            BY <2>3, <2>5
        <3> QED BY <1>3, <3>1
    <2> QED BY <2>4, <2>5
<1> QED BY <1>1, <1>2, <1>3

LEMMA HighPlace ==
    ASSUME NEW n \in Nat, n >= 1
    PROVE  PlaceOf(n, 95) \in 1..n /\ PlaceOf(n, 50) <= PlaceOf(n, 95)
<1> DEFINE down == (95 * (n - 1)) \div 100
           rest == (95 * (n - 1)) % 100
<1>1. down \in Nat /\ rest \in 0..99 /\ 95 * (n - 1) = 100 * down + rest
    <2>1. 95 * (n - 1) \in Nat
        OBVIOUS
    <2> QED BY <2>1
<1>2. PlaceOf(n, 95) = (IF 2 * rest > 100 \/ (2 * rest = 100 /\ down % 2 = 1) THEN down + 1 ELSE down) + 1
    BY DEF PlaceOf
<1>3. PICK p \in 1..n : p = PlaceOf(n, 50) /\ 2 * (p - 1) <= n
    BY MedianPlace
<1> HIDE DEF down, rest
<1>4. PlaceOf(n, 95) = down + 1 \/ (PlaceOf(n, 95) = down + 2 /\ rest >= 50)
    BY <1>1, <1>2
<1>5. PlaceOf(n, 95) \in 1..n
    BY <1>1, <1>4
<1>6. CASE n >= 3
    <2>1. CASE n = 3
        <3>1. down = 1 /\ p <= 2
            BY <1>1, <1>3, <2>1
        <3> QED BY <1>3, <1>4, <1>5, <2>1, <3>1
    <2>2. CASE n >= 4
        <3>1. 100 * down >= 95 * n - 194
            BY <1>1
        <3>2. 2 * (down + 1) >= n
            BY <1>1, <3>1, <2>2
        <3> QED BY <1>1, <1>3, <1>4, <3>2, <2>2
    <2> QED BY <1>6, <2>1, <2>2
<1>7. CASE n = 1
    BY <1>3, <1>5, <1>7
<1>8. CASE n = 2
    <2>1. down = 0 /\ rest = 95
        BY <1>1, <1>8
    <2>2. PlaceOf(n, 95) = 2
        BY <1>2, <2>1
    <2> QED BY <1>3, <1>8, <2>2
<1> QED BY <1>3, <1>5, <1>6, <1>7, <1>8

(* Not more than so many before a place of a list, nor after it.           *)
LEMMA Sides ==
    ASSUME NEW n \in Nat, NEW order \in [1..n -> 1..n],
           NEW lo \in Int, NEW hi \in Int, NEW A,
           \A i \in A : \E m \in lo..hi : m \in 1..n /\ order[m] = i, hi >= lo - 1
    PROVE  Cardinality(A) \in Nat /\ Cardinality(A) <= hi - lo + 1
<1> DEFINE M == {m \in lo..hi : m \in 1..n}
           image == {order[m] : m \in M}
           f == [m \in M |-> order[m]]
<1>1. IsFiniteSet(lo..hi) /\ Cardinality(lo..hi) = hi - lo + 1
    BY FS_Interval
<1>2. M \in SUBSET (lo..hi)
    OBVIOUS
<1>3. IsFiniteSet(M) /\ Cardinality(M) <= hi - lo + 1 /\ Cardinality(M) \in Nat
    <2> HIDE DEF M
    <2>1. IsFiniteSet(M) /\ Cardinality(M) <= Cardinality(lo..hi)
        BY <1>1, <1>2, FS_Subset
    <2>2. Cardinality(lo..hi) = hi - lo + 1
        BY <1>1
    <2> QED BY <2>1, <2>2, FS_CardinalityType
<1>4. f \in Surjection(M, image)
    <2> HIDE DEF M
    <2> QED BY DEF Surjection
<1>5. IsFiniteSet(image) /\ Cardinality(image) <= Cardinality(M)
    <2> HIDE DEF M, f, image
    <2> QED BY <1>3, <1>4, FS_Surjection
<1>6. A \in SUBSET image
    OBVIOUS
<1> HIDE DEF M, image
<1>7. IsFiniteSet(A) /\ Cardinality(A) <= Cardinality(image)
    BY <1>5, <1>6, FS_Subset
<1>8. Cardinality(A) \in Nat /\ Cardinality(image) \in Nat
    BY <1>5, <1>7, FS_CardinalityType
<1> QED BY <1>3, <1>5, <1>7, <1>8

(* A list in order: what lies before a place is not greater. *)
Ascending(s, n) == \A a, b \in 1..n : a <= b => s[a] <= s[b]

Arranged(came, s, order, n) ==
    /\ \A i \in 1..n : \E m \in 1..n : order[m] = i
    /\ \A m \in 1..n : s[m] = came[order[m]]

LEMMA Middle ==
    ASSUME NEW n \in Nat, NEW came \in [1..n -> Int], NEW s \in [1..n -> Int],
           NEW order \in [1..n -> 1..n], Ascending(s, n), Arranged(came, s, order, n),
           NEW p \in 1..n
    PROVE  /\ Cardinality({i \in 1..n : came[i] < s[p]}) \in 0..(p - 1)
           /\ Cardinality({i \in 1..n : came[i] > s[p]}) \in 0..(n - p)
           /\ \A i \in 1..n : came[i] <= s[n]
<1>1. ASSUME NEW i \in 1..n PROVE \E m \in 1..n : order[m] = i /\ came[i] = s[m]
    <2>1. PICK m \in 1..n : order[m] = i
        BY DEF Arranged
    <2>2. s[m] = came[order[m]]
        BY DEF Arranged
    <2> QED BY <2>1, <2>2
<1>2. \A m \in 1..n : s[m] \in Int
    OBVIOUS
<1>3. Cardinality({i \in 1..n : came[i] < s[p]}) \in 0..(p - 1)
    <2> DEFINE A == {i \in 1..n : came[i] < s[p]}
    <2>1. ASSUME NEW i \in A PROVE \E m \in 1..(p - 1) : m \in 1..n /\ order[m] = i
        <3>1. PICK m \in 1..n : order[m] = i /\ came[i] = s[m]
            BY <1>1
        <3>2. s[m] < s[p] /\ s[m] \in Int /\ s[p] \in Int
            BY <1>2, <3>1
        <3>3. ~(p <= m)
            <4>1. p <= m => s[p] <= s[m]
                BY DEF Ascending
            <4> QED BY <3>2, <4>1
        <3>4. m \in 1..(p - 1)
            BY <3>3
        <3> QED BY <3>1, <3>4
    <2>2. 1 \in Int /\ p - 1 \in Int /\ p - 1 >= 1 - 1
        OBVIOUS
    <2> HIDE DEF A
    <2>3. Cardinality(A) \in Nat /\ Cardinality(A) <= (p - 1) - 1 + 1
        BY <2>1, <2>2, Sides
    <2>4. Cardinality(A) \in 0..(p - 1)
        BY <2>3
    <2> QED BY <2>4 DEF A
<1>4. Cardinality({i \in 1..n : came[i] > s[p]}) \in 0..(n - p)
    <2> DEFINE A == {i \in 1..n : came[i] > s[p]}
    <2>1. ASSUME NEW i \in A PROVE \E m \in (p + 1)..n : m \in 1..n /\ order[m] = i
        <3>1. PICK m \in 1..n : order[m] = i /\ came[i] = s[m]
            BY <1>1
        <3>2. s[m] > s[p] /\ s[m] \in Int /\ s[p] \in Int
            BY <1>2, <3>1
        <3>3. ~(m <= p)
            <4>1. m <= p => s[m] <= s[p]
                BY DEF Ascending
            <4> QED BY <3>2, <4>1
        <3>4. m \in (p + 1)..n
            BY <3>3
        <3> QED BY <3>1, <3>4
    <2>2. p + 1 \in Int /\ n \in Int /\ n >= (p + 1) - 1
        OBVIOUS
    <2> HIDE DEF A
    <2>3. Cardinality(A) \in Nat /\ Cardinality(A) <= n - (p + 1) + 1
        BY <2>1, <2>2, Sides
    <2>4. Cardinality(A) \in 0..(n - p)
        BY <2>3
    <2> QED BY <2>4 DEF A
<1>5. ASSUME NEW i \in 1..n PROVE came[i] <= s[n]
    <2>1. PICK m \in 1..n : came[i] = s[m]
        BY <1>1
    <2>2. m <= n /\ n \in 1..n
        OBVIOUS
    <2>3. s[m] <= s[n]
        BY <2>2 DEF Ascending
    <2> QED BY <2>1, <2>3
<1> QED BY <1>3, <1>4, <1>5

(* The delays that the text has of an operation. *)
Three(came) == <<Percentile(Sorted(came), 50), Percentile(Sorted(came), 95),
                 Sorted(came)[Len(Sorted(came))]>>

LEMMA ThreeDelays ==
    ASSUME NEW came \in Seq(Int), came # <<>>, NEW shown, shown = Three(came)
    PROVE  /\ \A j \in 1..3 : \E i \in DOMAIN came : came[i] = shown[j]
           /\ DOMAIN shown = 1..3
           /\ 2 * Cardinality({i \in DOMAIN came : came[i] < shown[1]}) <= Len(came)
           /\ 2 * Cardinality({i \in DOMAIN came : came[i] > shown[1]}) <= Len(came)
           /\ shown[1] <= shown[2] /\ shown[2] <= shown[3]
           /\ \A i \in DOMAIN came : came[i] <= shown[3]
<1>1. PICK n \in Nat : n = Len(came) /\ n >= 1
    BY EmptySeq
<1>2. DOMAIN came = 1..n /\ came \in [1..n -> Int]
    BY <1>1, LenProperties
<1>3. PICK s : s = Sorted(came)
    OBVIOUS
<1>4. /\ s \in Seq(Int) /\ Len(s) = n /\ Ascending(s, n)
      /\ \E order \in [1..n -> 1..n] : Arranged(came, s, order, n)
    BY <1>1, <1>3, SortedDelays DEF Ascending, Arranged
<1>5. PICK order \in [1..n -> 1..n] : Arranged(came, s, order, n)
    BY <1>4
<1>6. s \in [1..n -> Int]
    BY <1>4, LenProperties
<1>7. PICK p \in 1..n, q \in 1..n : /\ p = PlaceOf(n, 50) /\ q = PlaceOf(n, 95) /\ p <= q
                                    /\ 2 * (p - 1) <= n /\ 2 * (n - p) <= n
    BY <1>1, MedianPlace, HighPlace
<1>8. shown = <<s[p], s[q], s[n]>>
    BY <1>3, <1>4, <1>7, <1>1, PercentileAt DEF Three
<1>9. /\ Cardinality({i \in 1..n : came[i] < s[p]}) \in 0..(p - 1)
      /\ Cardinality({i \in 1..n : came[i] > s[p]}) \in 0..(n - p)
      /\ \A i \in 1..n : came[i] <= s[n]
    BY <1>2, <1>4, <1>5, <1>6, Middle
<1>10. s[p] <= s[q] /\ s[q] <= s[n]
    <2>1. q <= n /\ n \in 1..n
        BY <1>1
    <2> QED BY <1>4, <1>7, <2>1 DEF Ascending
<1>11. ASSUME NEW m \in 1..n PROVE \E i \in 1..n : came[i] = s[m]
    <2>1. s[m] = came[order[m]] /\ order[m] \in 1..n
        BY <1>5 DEF Arranged
    <2> QED BY <2>1
<1>12. shown[1] = s[p] /\ shown[2] = s[q] /\ shown[3] = s[n] /\ DOMAIN shown = 1..3
    BY <1>8
<1>13. \A j \in 1..3 : \E i \in 1..n : came[i] = shown[j]
    <2>1. n \in 1..n
        BY <1>1
    <2>2. \A j \in 1..3 : j = 1 \/ j = 2 \/ j = 3
        OBVIOUS
    <2>3. \A j \in 1..3 : shown[j] = s[p] \/ shown[j] = s[q] \/ shown[j] = s[n]
        BY <1>12, <2>2
    <2> QED BY <1>11, <2>1, <2>3
<1>14. /\ 2 * Cardinality({i \in 1..n : came[i] < s[p]}) <= n
       /\ 2 * Cardinality({i \in 1..n : came[i] > s[p]}) <= n
    <2>1. PICK c \in 0..(p - 1), d \in 0..(n - p) :
             /\ c = Cardinality({i \in 1..n : came[i] < s[p]})
             /\ d = Cardinality({i \in 1..n : came[i] > s[p]})
        BY <1>9
    <2>2. 2 * (p - 1) <= n /\ 2 * (n - p) <= n
        BY <1>7
    <2>3. 2 * c <= n /\ 2 * d <= n
        BY <2>2
    <2> QED BY <2>1, <2>3
<1> QED BY <1>1, <1>2, <1>9, <1>10, <1>12, <1>13, <1>14

-----------------------------------------------------------------------------
(* The text, as its parts and by the places of the keys in it. *)

Parts(r, a, b, c) ==
    /\ Len(a) \in Nat /\ Len(b) \in Nat /\ Len(c) \in Nat
    /\ DOMAIN r = 1..(Len(a) + Len(b) + Len(c))
    /\ \A n \in 1..Len(a) : r[n] = a[n]
    /\ \A n \in 1..Len(b) : r[Len(a) + n] = b[n]
    /\ \A n \in 1..Len(c) : r[Len(a) + Len(b) + n] = c[n]
    /\ \A n \in DOMAIN r : \/ n \in 1..Len(a)
                           \/ \E m \in 1..Len(b) : n = Len(a) + m
                           \/ \E m \in 1..Len(c) : n = Len(a) + Len(b) + m

LEMMA ThreeParts ==
    ASSUME NEW a, NEW b, NEW c, a \in Seq(Range(a)), b \in Seq(Range(b)), c \in Seq(Range(c))
    PROVE  Parts(a \o b \o c, a, b, c)
<1>1. PICK T : T = Range(a) \cup Range(b) \cup Range(c)
    OBVIOUS
<1>2. a \in Seq(T) /\ b \in Seq(T) /\ c \in Seq(T)
    BY <1>1, SeqMonotonic
<1>3. /\ a \o b \in Seq(T) /\ Len(a \o b) = Len(a) + Len(b)
      /\ \A n \in 1..(Len(a) + Len(b)) : (a \o b)[n] = IF n <= Len(a) THEN a[n] ELSE b[n - Len(a)]
    BY <1>2, ConcatProperties
<1>4. PICK ab \in Seq(T) : ab = a \o b
    BY <1>3
<1>5. /\ ab \o c \in Seq(T) /\ Len(ab \o c) = Len(ab) + Len(c)
      /\ \A n \in 1..(Len(ab) + Len(c)) : (ab \o c)[n] = IF n <= Len(ab) THEN ab[n] ELSE c[n - Len(ab)]
    BY <1>2, ConcatProperties
<1>6. PICK la \in Nat, lb \in Nat, lc \in Nat : la = Len(a) /\ lb = Len(b) /\ lc = Len(c)
    OBVIOUS
<1>7. PICK r \in Seq(T) : r = a \o b \o c
    BY <1>4, <1>5
<1>8. Len(r) = la + lb + lc /\ DOMAIN r = 1..(la + lb + lc)
    BY <1>3, <1>4, <1>5, <1>6, <1>7
<1>9. \A n \in 1..(la + lb + lc) :
         r[n] = IF n <= la + lb THEN (IF n <= la THEN a[n] ELSE b[n - la]) ELSE c[n - (la + lb)]
    BY <1>3, <1>4, <1>5, <1>6, <1>7
<1>10. \A n \in 1..la : r[n] = a[n]
    BY <1>9
<1>11. \A n \in 1..lb : r[la + n] = b[n]
    <2> TAKE n \in 1..lb
    <2>1. la + n \in 1..(la + lb + lc) /\ la + n <= la + lb /\ ~(la + n <= la) /\ (la + n) - la = n
        OBVIOUS
    <2> QED BY <1>9, <2>1
<1>12. \A n \in 1..lc : r[la + lb + n] = c[n]
    <2> TAKE n \in 1..lc
    <2>1. /\ la + lb + n \in 1..(la + lb + lc) /\ ~(la + lb + n <= la + lb)
          /\ (la + lb + n) - (la + lb) = n
        OBVIOUS
    <2> QED BY <1>9, <2>1
<1>13. ASSUME NEW n \in 1..(la + lb + lc)
       PROVE  \/ n \in 1..la
              \/ \E m \in 1..lb : n = la + m
              \/ \E m \in 1..lc : n = la + lb + m
    <2>1. CASE n <= la
        BY <2>1
    <2>2. CASE n > la /\ n <= la + lb
        <3>1. n - la \in 1..lb /\ n = la + (n - la)
            BY <2>2
        <3> QED BY <3>1
    <2>3. CASE n > la + lb
        <3>1. n - (la + lb) \in 1..lc /\ n = la + lb + (n - (la + lb))
            BY <2>3
        <3> QED BY <3>1
    <2> QED BY <2>1, <2>2, <2>3
<1>14. /\ Len(a) \in Nat /\ Len(b) \in Nat /\ Len(c) \in Nat
       /\ DOMAIN r = 1..(Len(a) + Len(b) + Len(c))
    BY <1>6, <1>8
<1>15. /\ \A n \in 1..Len(a) : r[n] = a[n]
       /\ \A n \in 1..Len(b) : r[Len(a) + n] = b[n]
       /\ \A n \in 1..Len(c) : r[Len(a) + Len(b) + n] = c[n]
    BY <1>6, <1>10, <1>11, <1>12
<1>16. \A n \in DOMAIN r : \/ n \in 1..Len(a)
                           \/ \E m \in 1..Len(b) : n = Len(a) + m
                           \/ \E m \in 1..Len(c) : n = Len(a) + Len(b) + m
    <2> TAKE n \in DOMAIN r
    <2>1. n \in 1..(la + lb + lc)
        BY <1>8
    <2>2. \/ n \in 1..la
          \/ \E m \in 1..lb : n = la + m
          \/ \E m \in 1..lc : n = la + lb + m
        BY <1>13, <2>1
    <2> QED BY <1>6, <2>2
<1>17. Parts(r, a, b, c)
    BY <1>14, <1>15, <1>16, Zenon DEF Parts
<1> QED BY <1>7, <1>17

TextParts == {"body", "series"}

PlaceIn(r, k) == Min({n \in DOMAIN r : r[n].part \in TextParts /\ r[n].of = k})

LEMMA PlacesFollowKeys ==
    ASSUME NEW S, IsFiniteSet(S), NEW k \in 1..4, NEW key \in Keys(S, k), NEW r, NEW L \in Nat,
           \A n \in 1..Cardinality(S) :
              /\ L + n \in DOMAIN r /\ r[L + n].part \in TextParts
              /\ r[L + n].of = InOrder(S, key)[n],
           \A n \in DOMAIN r : r[n].part \in TextParts => \E m \in 1..Cardinality(S) : n = L + m,
           NEW x \in S, NEW y \in S, Before(key[x], key[y])
    PROVE  PlaceIn(r, x) < PlaceIn(r, y)
<1> DEFINE order == InOrder(S, key)
<1>1. /\ Cardinality(S) \in Nat /\ order \in [1..Cardinality(S) -> S]
      /\ \A z \in S : \E n \in DOMAIN order : order[n] = z
      /\ \A m, n \in DOMAIN order : order[m] = order[n] => m = n
      /\ \A m, n \in DOMAIN order : m < n <=> Before(key[order[m]], key[order[n]])
    BY SortedByKey
<1> HIDE DEF order
<1>2. \A n \in 1..Cardinality(S) : r[L + n].of = order[n]
    BY DEF order
<1>3. ASSUME NEW z \in S, NEW n \in 1..Cardinality(S), order[n] = z
      PROVE  PlaceIn(r, z) = L + n
    <2> DEFINE places == {m \in DOMAIN r : r[m].part \in TextParts /\ r[m].of = z}
    <2>1. places = {L + n}
        <3>1. L + n \in places
            BY <1>2, <1>3
        <3>2. ASSUME NEW m \in places PROVE m = L + n
            <4>1. PICK j \in 1..Cardinality(S) : m = L + j
                OBVIOUS
            <4>2. order[j] = z
                BY <1>2, <4>1
            <4>3. j = n
                BY <1>1, <1>3, <4>2
            <4> QED BY <4>1, <4>3
        <3> QED BY <3>1, <3>2
    <2>2. Min(places) \in places
        <3>1. places \subseteq Nat /\ places # {}
            <4>1. L + n \in Nat
                BY <1>1
            <4> HIDE DEF places
            <4> QED BY <2>1, <4>1
        <3> HIDE DEF places
        <3> QED BY <3>1, LeastOf
    <2>3. PlaceIn(r, z) = Min(places)
        BY DEF PlaceIn
    <2> HIDE DEF places
    <2> QED BY <2>1, <2>2, <2>3
<1>4. PICK m \in 1..Cardinality(S), n \in 1..Cardinality(S) : order[m] = x /\ order[n] = y
    BY <1>1
<1>5. m < n
    BY <1>1, <1>4
<1>6. PlaceIn(r, x) = L + m /\ PlaceIn(r, y) = L + n
    BY <1>3, <1>4
<1> QED BY <1>1, <1>5, <1>6

-----------------------------------------------------------------------------
(* What the properties say of a text r.                                    *)

ShowsItems(r) == \A n \in DOMAIN r : r[n].shows \subseteq Items

NewFirst(r) ==
    \A k, h \in DOMAIN groups :
        /\ groups[k].base = 0 /\ Baseline(k) = 0 /\ groups[k].incid > 0
        /\ groups[h].base > 0 /\ groups[h].incid <= groups[k].incid
        => PlaceIn(r, k) < PlaceIn(r, h)

OutliersUp(r) ==
    \A k, h \in DOMAIN groups :
        Outliers(k) # {} /\ Outliers(h) = {} => PlaceIn(r, k) < PlaceIn(r, h)

QuotedIn(r) == {i \in Items : \E n \in DOMAIN r : r[n].part = "exemplar" /\ r[n].shows = {i}}

QuotesTell(r) ==
    /\ (\E i \in Items : Item(i).err) => \E q \in QuotedIn(r) : Item(q).err
    /\ \A i \in Items : Timed(i) => \E q \in QuotedIn(r) : Item(q).duration >= Item(i).duration
    /\ \A p, q \in QuotedIn(r) : Same(p, q) => p = q

(* A row of an operation has the three delays of it, or none.              *)
DelaysShown(r) ==
    \A n \in DOMAIN r : r[n].part = "operation" =>
        \E k \in DOMAIN groups :
            LET came == groups[k].durations
            IN r[n].of = <<k, IF came = <<>> THEN <<>> ELSE Three(came)>>

LEMMA LogText ==
    ASSUME TableInv, input.reader = "log", NEW r, r = LifeRows \o NearRows \o BodyRows
    PROVE  ShowsItems(r) /\ NewFirst(r)
<1> DEFINE body == [k \in DOMAIN groups |-> SortKey(k)]
           order == InOrder(DOMAIN groups, body)
<1>1. /\ \A k \in DOMAIN groups : groups[k].first \in Items /\ groups[k].last \in Items
      /\ IsFiniteSet(DOMAIN groups) /\ IsFiniteSet(Items)
    BY LogEntries
<1>2. \A n \in DOMAIN LifeRows : LifeRows[n].part = "life" /\ LifeRows[n].shows \subseteq Items
    <2> DEFINE life == {k \in DOMAIN groups : Item(groups[k].first).life}
               key == [k \in life |-> <<-groups[k].incid, -groups[k].count, groups[k].first>>]
               list == FirstOf(InOrder(life, key), HighlightCap)
    <2>1. life \in SUBSET DOMAIN groups
        OBVIOUS
    <2>2. LifeRows = [n \in DOMAIN list |-> Row("life", list[n], {groups[list[n]].first, groups[list[n]].last})]
        BY DEF LifeRows, Listed
    <2>3. key \in Keys(life, 3) /\ IsFiniteSet(life)
        <3> HIDE DEF life
        <3> QED BY <1>1, <2>1, LogKeys, FS_Subset
    <2> HIDE DEF life, key
    <2>4. list \in Seq(life)
        <3>1. 3 \in 1..4 /\ HighlightCap \in Nat
            BY HighlightType
        <3> QED BY <2>3, <3>1, FirstOfSorted
    <2> HIDE DEF list
    <2>5. \A n \in DOMAIN list : list[n] \in DOMAIN groups
        BY <2>1, <2>4
    <2> QED BY <1>1, <2>2, <2>5 DEF Row
<1>3. \A n \in DOMAIN NearRows : NearRows[n].part = "near" /\ NearRows[n].shows \subseteq Items
    <2> DEFINE near == IF input.context.byLog THEN Dedup(Near) ELSE {}
               key == [i \in near |-> <<LEVEL_ORDER(Item(i).level), At(i), i>>]
               list == FirstOf(InOrder(near, key), HighlightCap)
    <2>1. near \in SUBSET Items
        BY DEF Dedup, Near
    <2>2. NearRows = [n \in DOMAIN list |-> Row("near", Key(list[n]), {list[n]})]
        BY DEF NearRows, Listed
    <2>3. key \in Keys(near, 3) /\ IsFiniteSet(near)
        <3> HIDE DEF near
        <3> QED BY <1>1, <2>1, NearKeys, FS_Subset
    <2> HIDE DEF near, key
    <2>4. list \in Seq(near)
        <3>1. 3 \in 1..4 /\ HighlightCap \in Nat
            BY HighlightType
        <3> QED BY <2>3, <3>1, FirstOfSorted
    <2> HIDE DEF list
    <2>5. \A n \in DOMAIN list : list[n] \in Items
        BY <2>1, <2>4
    <2> QED BY <2>2, <2>5 DEF Row
<1>4. body \in Keys(DOMAIN groups, 4) /\ \A k \in DOMAIN groups : body[k][1] = Rank(k)
    BY LogKeys DEF SortKey
<1>5. BodyRows = [n \in DOMAIN order |-> Row("body", order[n], {groups[order[n]].first, groups[order[n]].last})]
    BY DEF BodyRows, Listed
<1> HIDE DEF body
<1>6. Cardinality(DOMAIN groups) \in Nat /\ order \in [1..Cardinality(DOMAIN groups) -> DOMAIN groups]
    <2>1. 4 \in 1..4
        OBVIOUS
    <2> QED BY <1>1, <1>4, <2>1, SortedByKey
<1>7. PICK N \in Nat : N = Cardinality(DOMAIN groups)
    BY <1>6
<1>8. PICK list \in [1..N -> DOMAIN groups] : list = order
    BY <1>6, <1>7
<1>9. /\ DOMAIN BodyRows = 1..N
      /\ \A n \in 1..N : /\ BodyRows[n].part = "body" /\ BodyRows[n].of = list[n]
                         /\ BodyRows[n].shows \subseteq Items
    <2>1. BodyRows = [n \in 1..N |-> Row("body", list[n], {groups[list[n]].first, groups[list[n]].last})]
        BY <1>5, <1>8
    <2> QED BY <1>1, <2>1 DEF Row
<1>10. /\ LifeRows \in Seq(Range(LifeRows)) /\ NearRows \in Seq(Range(NearRows))
       /\ BodyRows \in Seq(Range(BodyRows))
    BY HighlightIsASequence, TextsAreSequences DEF TableInv
<1>11. Len(BodyRows) = N
    BY <1>7, <1>9, <1>10, LenProperties
<1>12. PICK la, lb : la = Len(LifeRows) /\ lb = Len(NearRows)
    OBVIOUS
<1>a. /\ la \in Nat /\ lb \in Nat
      /\ DOMAIN r = 1..(la + lb + N)
      /\ \A n \in 1..la : r[n] = LifeRows[n]
      /\ \A n \in 1..lb : r[la + n] = NearRows[n]
      /\ \A n \in 1..N : r[la + lb + n] = BodyRows[n]
      /\ \A n \in DOMAIN r : \/ n \in 1..la
                             \/ \E m \in 1..lb : n = la + m
                             \/ \E m \in 1..N : n = la + lb + m
    <2>1. Parts(r, LifeRows, NearRows, BodyRows)
        BY <1>10, ThreeParts
    <2> QED BY <1>11, <1>12, <2>1 DEF Parts
<1>13. DOMAIN LifeRows = 1..la /\ DOMAIN NearRows = 1..lb
    BY <1>10, <1>12, <1>a, LenProperties
<1>14. ASSUME NEW n \in DOMAIN r
       PROVE  /\ r[n].shows \subseteq Items
              /\ r[n].part \in TextParts => \E m \in 1..N : n = la + lb + m
    <2>1. CASE n \in 1..la
        BY <1>2, <1>12, <1>a, <1>13, <2>1 DEF TextParts
    <2>2. CASE \E m \in 1..lb : n = la + m
        <3>1. PICK m \in 1..lb : n = la + m
            BY <2>2
        <3>2. r[n] = NearRows[m]
            BY <1>12, <1>a, <3>1
        <3> QED BY <1>3, <1>13, <3>2 DEF TextParts
    <2>3. CASE \E m \in 1..N : n = la + lb + m
        <3>1. PICK m \in 1..N : n = la + lb + m
            BY <2>3
        <3>2. r[n] = BodyRows[m]
            BY <1>12, <1>a, <3>1
        <3> QED BY <1>9, <2>3, <3>2
    <2> QED BY <1>12, <1>a, <2>1, <2>2, <2>3
<1>15. ShowsItems(r)
    BY <1>14 DEF ShowsItems
<1>16. ASSUME NEW k \in DOMAIN groups, NEW h \in DOMAIN groups,
              groups[k].base = 0, Baseline(k) = 0, groups[k].incid > 0,
              groups[h].base > 0, groups[h].incid <= groups[k].incid
       PROVE  PlaceIn(r, k) < PlaceIn(r, h)
    <2> DEFINE num == [x \in DOMAIN groups |-> groups[x].incid]
               den == [x \in DOMAIN groups |-> Usual(x)]
    <2>1. \A x \in DOMAIN groups : num[x] \in Int /\ den[x] \in Int /\ den[x] > 0
        BY LogEntries
    <2>2. num[k] * den[h] > num[h] * den[k]
        <3>1. /\ groups[h].base \in Nat /\ Baseline(h) \in Nat
              /\ groups[k].incid \in Nat /\ groups[h].incid \in Nat
            BY LogEntries
        <3>2. PICK a \in Nat, b \in Nat, c \in Nat :
                a = groups[k].incid /\ b = groups[h].incid /\ c = groups[h].base + Baseline(h) + 1
            BY <3>1
        <3>3. den[k] = 1 /\ den[h] = c /\ c >= 2
            BY <1>16, <3>1, <3>2 DEF Usual
        <3>4. a * c > b * 1
            <4>1. a >= 1 /\ b <= a
                BY <1>16, <3>2
            <4>2. PICK d \in Nat : c = d + 2
                <5>1. c - 2 \in Nat /\ c = (c - 2) + 2
                    BY <3>3
                <5> QED BY <5>1
            <4>3. PICK e \in Nat : e = a * d
                OBVIOUS
            <4>4. a * c = e + 2 * a
                BY <4>2, <4>3
            <4>5. a * c > b
                BY <4>1, <4>4
            <4> QED BY <4>5
        <3> QED BY <3>2, <3>3, <3>4
    <2>3. /\ \A x, z \in DOMAIN groups :
                MoreSurprising(z, x) <=> num[z] * den[x] > num[x] * den[z]
        BY DEF MoreSurprising
    <2>4. Cardinality({z \in DOMAIN groups : num[z] * den[k] > num[k] * den[z]})
            < Cardinality({z \in DOMAIN groups : num[z] * den[h] > num[h] * den[z]})
        <3>1. PICK S, f, g : S = DOMAIN groups /\ f = num /\ g = den
            OBVIOUS
        <3> HIDE DEF num, den
        <3>2. /\ IsFiniteSet(S) /\ k \in S /\ h \in S
              /\ \A x \in S : f[x] \in Int /\ g[x] \in Int /\ g[x] > 0
              /\ f[k] * g[h] > f[h] * g[k]
            BY <1>1, <2>1, <2>2, <3>1
        <3>3. Cardinality(Above(S, f, g, k)) < Cardinality(Above(S, f, g, h))
            BY <3>2, QuotientsRank
        <3> QED BY <3>1, <3>3 DEF Above
    <2>5. /\ {z \in DOMAIN groups : MoreSurprising(z, k)}
               = {z \in DOMAIN groups : num[z] * den[k] > num[k] * den[z]}
          /\ {z \in DOMAIN groups : MoreSurprising(z, h)}
               = {z \in DOMAIN groups : num[z] * den[h] > num[h] * den[z]}
        <3> HIDE DEF num, den
        <3> QED BY <2>3
    <2>6. Rank(k) < Rank(h)
        <3> HIDE DEF num, den
        <3> QED BY <2>4, <2>5 DEF Rank
    <2>7. Before(body[k], body[h])
        <3>1. body[k] \in Tuples(4) /\ body[h] \in Tuples(4) /\ body[k][1] < body[h][1]
            BY <1>4, <2>6 DEF Keys
        <3> QED BY <3>1, FirstPartDecides
    <2>8. /\ la + lb \in Nat /\ 4 \in 1..4
          /\ \A n \in 1..Cardinality(DOMAIN groups) :
                /\ la + lb + n \in DOMAIN r /\ r[la + lb + n].part \in TextParts
                /\ r[la + lb + n].of = InOrder(DOMAIN groups, body)[n]
          /\ \A n \in DOMAIN r : r[n].part \in TextParts =>
                \E m \in 1..Cardinality(DOMAIN groups) : n = la + lb + m
        <3>1. \A n \in 1..N : la + lb + n \in 1..(la + lb + N)
            BY <1>a
        <3>2. \A n \in 1..N : r[la + lb + n].part = "body" /\ r[la + lb + n].of = list[n]
            BY <1>9, <1>a
        <3> QED BY <1>7, <1>8, <1>12, <1>a, <1>14, <3>1, <3>2 DEF TextParts
    <2> HIDE DEF num, den, order
    <2> QED BY <1>1, <1>4, <2>7, <2>8, PlacesFollowKeys
<1> QED BY <1>15, <1>16 DEF NewFirst

LEMMA MetricText ==
    ASSUME TableInv, input.reader = "metric", NEW r, r = SeriesRows \o UnparsedRows
    PROVE  ShowsItems(r) /\ OutliersUp(r)
<1> DEFINE body == [k \in DOMAIN groups |-> SeriesOrder(k)]
           order == InOrder(DOMAIN groups, body)
<1>1. /\ IsFiniteSet(DOMAIN groups) /\ IsFiniteSet(Items)
      /\ SeriesRows \in Seq(Range(SeriesRows)) /\ UnparsedRows \in Seq(Range(UnparsedRows))
    BY TextsAreSequences DEF TableInv, DigestInv
<1>2. body \in Keys(DOMAIN groups, 3) /\ \A k \in DOMAIN groups : body[k][1] = SeriesOrder(k)[1]
    BY SeriesKeys
<1>3. SeriesRows = [n \in DOMAIN order |->
                      Row("series", order[n],
                          IF Outliers(order[n]) = {} THEN {} ELSE {Onset(order[n]), Peak(order[n])})]
    BY DEF SeriesRows, Listed, SeriesOrder
<1> HIDE DEF body
<1>4. Cardinality(DOMAIN groups) \in Nat /\ order \in [1..Cardinality(DOMAIN groups) -> DOMAIN groups]
    <2>1. 3 \in 1..4
        OBVIOUS
    <2> QED BY <1>1, <1>2, <2>1, SortedByKey
<1>5. PICK N \in Nat : N = Cardinality(DOMAIN groups)
    BY <1>4
<1>6. PICK list \in [1..N -> DOMAIN groups] : list = order
    BY <1>4, <1>5
<1>7. /\ DOMAIN SeriesRows = 1..N
      /\ \A n \in 1..N : /\ SeriesRows[n].part = "series" /\ SeriesRows[n].of = list[n]
                         /\ SeriesRows[n].shows = IF Outliers(list[n]) = {} THEN {}
                                                  ELSE {Onset(list[n]), Peak(list[n])}
    <2>1. SeriesRows = [n \in 1..N |->
                          Row("series", list[n],
                              IF Outliers(list[n]) = {} THEN {} ELSE {Onset(list[n]), Peak(list[n])})]
        BY <1>3, <1>6
    <2> QED BY <2>1 DEF Row
<1>8. \A k \in DOMAIN groups : Outliers(k) # {} => Onset(k) \in Items /\ Peak(k) \in Items
    BY OnsetAndPeak, SeriesValues
<1>9. \A n \in 1..N : SeriesRows[n].shows \subseteq Items
    <2> TAKE n \in 1..N
    <2>1. list[n] \in DOMAIN groups
        OBVIOUS
    <2>2. CASE Outliers(list[n]) = {}
        BY <1>7, <2>2
    <2>3. CASE Outliers(list[n]) # {}
        <3>1. SeriesRows[n].shows = {Onset(list[n]), Peak(list[n])}
            BY <1>7, <2>3
        <3> QED BY <1>8, <2>1, <2>3, <3>1
    <2> QED BY <2>2, <2>3
<1>10. \A n \in DOMAIN UnparsedRows :
          UnparsedRows[n].part = "unparsed" /\ UnparsedRows[n].shows \subseteq Items
    <2> DEFINE key == [i \in Unparsed |-> <<i>>]
               came == InOrder(Unparsed, key)
    <2>1. Unparsed \in SUBSET Items /\ Unparsed \in SUBSET Int
        BY DEF Unparsed, TableInv, BundleInv
    <2>2. IsFiniteSet(Unparsed) /\ key \in Keys(Unparsed, 1)
        BY <1>1, <2>1, FS_Subset, OwnKeys
    <2>3. UnparsedRows = [n \in DOMAIN came |-> Row("unparsed", <<>>, {came[n]})]
        BY DEF UnparsedRows, Listed
    <2> HIDE DEF key
    <2>4. \A n \in DOMAIN came : came[n] \in Unparsed
        <3>1. 1 \in 1..4
            OBVIOUS
        <3>2. came \in [1..Cardinality(Unparsed) -> Unparsed]
            BY <2>2, <3>1, SortedByKey
        <3> QED BY <3>2
    <2> HIDE DEF came
    <2> QED BY <2>1, <2>3, <2>4 DEF Row
<1>11. Parts(r, SeriesRows, UnparsedRows, <<>>)
    <2>1. <<>> \in Seq(Range(<<>>))
        BY EmptySeq
    <2>2. r \in Seq(Range(r))
        BY <1>1, Joined
    <2>3. r \o <<>> = r
        BY <2>2, ConcatEmptySeq
    <2>4. Parts(SeriesRows \o UnparsedRows \o <<>>, SeriesRows, UnparsedRows, <<>>)
        BY <1>1, <2>1, ThreeParts
    <2> QED BY <2>3, <2>4
<1>12. Len(SeriesRows) = N /\ Len(<<>>) = 0
    BY <1>1, <1>5, <1>7, LenProperties
<1>13. PICK lb : lb = Len(UnparsedRows)
    OBVIOUS
<1>14. /\ lb \in Nat /\ DOMAIN UnparsedRows = 1..lb
       /\ DOMAIN r = 1..(N + lb)
       /\ \A n \in 1..N : r[n] = SeriesRows[n]
       /\ \A n \in 1..lb : r[N + n] = UnparsedRows[n]
       /\ \A n \in DOMAIN r : n \in 1..N \/ \E m \in 1..lb : n = N + m
    <2>1. lb \in Nat /\ DOMAIN UnparsedRows = 1..lb
        BY <1>1, <1>13, LenProperties
    <2>2. /\ DOMAIN r = 1..(N + lb + 0)
          /\ \A n \in 1..N : r[n] = SeriesRows[n]
          /\ \A n \in 1..lb : r[N + n] = UnparsedRows[n]
          /\ \A n \in DOMAIN r : n \in 1..N \/ (\E m \in 1..lb : n = N + m) \/ (\E m \in 1..0 : n = N + lb + m)
        BY <1>11, <1>12, <1>13 DEF Parts
    <2> QED BY <2>1, <2>2
<1>15. ASSUME NEW n \in DOMAIN r
       PROVE  /\ r[n].shows \subseteq Items
              /\ r[n].part \in TextParts => n \in 1..N
    <2>1. CASE n \in 1..N
        BY <1>9, <1>14, <2>1
    <2>2. CASE \E m \in 1..lb : n = N + m
        <3>1. PICK m \in 1..lb : n = N + m
            BY <2>2
        <3>2. r[n] = UnparsedRows[m]
            BY <1>14, <3>1
        <3> QED BY <1>10, <1>14, <3>2 DEF TextParts
    <2> QED BY <1>14, <2>1, <2>2
<1>16. ShowsItems(r)
    BY <1>15 DEF ShowsItems
<1>17. ASSUME NEW k \in DOMAIN groups, NEW h \in DOMAIN groups, Outliers(k) # {}, Outliers(h) = {}
       PROVE  PlaceIn(r, k) < PlaceIn(r, h)
    <2>1. PICK S, f, g : /\ S = DOMAIN groups /\ f = [x \in S |-> Score(x).num]
                         /\ g = [x \in S |-> Score(x).den]
        OBVIOUS
    <2>2. \A x \in S : f[x] \in Int /\ g[x] \in Int /\ g[x] > 0
        BY <2>1, ScoreType
    <2>3. f[k] > 0 /\ f[h] = 0
        BY <1>17, <2>1, ScoreType
    <2>4. f[k] * g[h] > f[h] * g[k]
        <3>1. PICK a \in Int, b \in Int : a = f[k] /\ b = g[h] /\ a > 0 /\ b > 0
            BY <2>1, <2>2, <2>3
        <3>2. a * b > 0 * b
            BY <3>1, TimesPositive
        <3>3. 0 * b = 0 /\ 0 * g[k] = 0
            BY <2>1, <2>2
        <3> QED BY <2>3, <3>1, <3>2, <3>3
    <2>5. IsFiniteSet(S) /\ k \in S /\ h \in S
        BY <1>1, <2>1
    <2>6. Cardinality(Above(S, f, g, k)) < Cardinality(Above(S, f, g, h))
        BY <2>2, <2>4, <2>5, QuotientsRank
    <2>7. \A x \in S : {z \in S : Louder(z, x)} = Above(S, f, g, x)
        BY <2>1 DEF Above, Louder
    <2>8. \A x \in S : body[x][1] = Cardinality({z \in S : Louder(z, x)})
        BY <1>2, <2>1 DEF SeriesOrder
    <2>9. body[k][1] < body[h][1]
        BY <2>5, <2>6, <2>7, <2>8
    <2>10. Before(body[k], body[h])
        <3>1. body[k] \in Tuples(3) /\ body[h] \in Tuples(3) /\ 3 \in 1..4
            BY <1>2 DEF Keys
        <3> QED BY <2>9, <3>1, FirstPartDecides
    <2>11. /\ 0 \in Nat /\ 3 \in 1..4
           /\ \A n \in 1..Cardinality(DOMAIN groups) :
                 /\ 0 + n \in DOMAIN r /\ r[0 + n].part \in TextParts
                 /\ r[0 + n].of = InOrder(DOMAIN groups, body)[n]
           /\ \A n \in DOMAIN r : r[n].part \in TextParts =>
                 \E m \in 1..Cardinality(DOMAIN groups) : n = 0 + m
        <3>1. \A n \in 1..N : 0 + n = n /\ n \in 1..(N + lb)
            BY <1>14
        <3>2. \A n \in 1..N : r[n].part = "series" /\ r[n].of = list[n]
            BY <1>7, <1>14
        <3> QED BY <1>5, <1>6, <1>14, <1>15, <3>1, <3>2 DEF TextParts
    <2> HIDE DEF order
    <2> QED BY <1>1, <1>2, <2>10, <2>11, PlacesFollowKeys
<1> QED BY <1>16, <1>17 DEF OutliersUp

LEMMA TraceText ==
    ASSUME TableInv, input.reader = "trace", NEW r, r = OperationRows \o VolumeRows \o ExemplarRows
    PROVE  ShowsItems(r) /\ QuotesTell(r) /\ DelaysShown(r)
<1> DEFINE body == [k \in DOMAIN groups |-> OperationOrder(k)]
           order == InOrder(DOMAIN groups, body)
           all == Errors \o Slowest
<1>1. /\ IsFiniteSet(DOMAIN groups)
      /\ OperationRows \in Seq(Range(OperationRows)) /\ VolumeRows \in Seq(Range(VolumeRows))
      /\ ExemplarRows \in Seq(Range(ExemplarRows))
    BY TextsAreSequences, ExemplarsAreASequence DEF TableInv, DigestInv
<1>2. body \in Keys(DOMAIN groups, 3)
    BY OperationKeys
<1>3. OperationRows = [n \in DOMAIN order |-> Row("operation", <<order[n], Delays(order[n])>>, {})]
    BY DEF OperationRows, Listed, OperationOrder
<1> HIDE DEF body
<1>4. \A n \in DOMAIN order : order[n] \in DOMAIN groups
    <2>1. 3 \in 1..4
        OBVIOUS
    <2>2. order \in [1..Cardinality(DOMAIN groups) -> DOMAIN groups]
        BY <1>1, <1>2, <2>1, SortedByKey
    <2> QED BY <2>2
<1> HIDE DEF order
<1>5. \A n \in DOMAIN OperationRows :
         /\ OperationRows[n].part = "operation" /\ OperationRows[n].shows = {}
         /\ \E k \in DOMAIN groups : OperationRows[n].of = <<k, Delays(k)>>
    BY <1>3, <1>4 DEF Row
<1>6. \A n \in DOMAIN VolumeRows : VolumeRows[n].part = "volume" /\ VolumeRows[n].shows = {}
    BY DEF VolumeRows, Row
<1>7. /\ Exemplars \in Seq(Items)
      /\ \A m \in DOMAIN all : \E n \in DOMAIN Exemplars : Same(Exemplars[n], all[m])
      /\ \A m, n \in DOMAIN Exemplars : Same(Exemplars[m], Exemplars[n]) => m = n
    BY ExemplarsOf
<1>8. /\ DOMAIN ExemplarRows = DOMAIN Exemplars
      /\ \A n \in DOMAIN Exemplars :
            /\ ExemplarRows[n].part = "exemplar" /\ ExemplarRows[n].shows = {Exemplars[n]}
            /\ Exemplars[n] \in Items
    BY <1>7 DEF ExemplarRows, Row
<1>9. PICK la, lb, lc : la = Len(OperationRows) /\ lb = Len(VolumeRows) /\ lc = Len(ExemplarRows)
    OBVIOUS
<1>10. /\ DOMAIN OperationRows = 1..la /\ DOMAIN VolumeRows = 1..lb /\ DOMAIN ExemplarRows = 1..lc
       /\ la \in Nat /\ lb \in Nat /\ lc \in Nat
    BY <1>1, <1>9, LenProperties
<1>11. /\ DOMAIN r = 1..(la + lb + lc)
       /\ \A n \in 1..la : r[n] = OperationRows[n]
       /\ \A n \in 1..lb : r[la + n] = VolumeRows[n]
       /\ \A n \in 1..lc : r[la + lb + n] = ExemplarRows[n]
       /\ \A n \in DOMAIN r : \/ n \in 1..la
                              \/ \E m \in 1..lb : n = la + m
                              \/ \E m \in 1..lc : n = la + lb + m
    <2>1. Parts(r, OperationRows, VolumeRows, ExemplarRows)
        BY <1>1, ThreeParts
    <2> QED BY <1>9, <2>1 DEF Parts
<1>12. ASSUME NEW n \in DOMAIN r
       PROVE  /\ r[n].shows \subseteq Items
              /\ r[n].part = "operation" => \E k \in DOMAIN groups : r[n].of = <<k, Delays(k)>>
              /\ r[n].part = "exemplar" => \E m \in DOMAIN Exemplars : r[n].shows = {Exemplars[m]}
    <2>1. CASE n \in 1..la
        <3>1. r[n] = OperationRows[n] /\ n \in DOMAIN OperationRows
            BY <1>10, <1>11, <2>1
        <3> QED BY <1>5, <3>1
    <2>2. CASE \E m \in 1..lb : n = la + m
        <3>1. PICK m \in 1..lb : n = la + m
            BY <2>2
        <3>2. r[n] = VolumeRows[m] /\ m \in DOMAIN VolumeRows
            BY <1>10, <1>11, <3>1
        <3> QED BY <1>6, <3>2
    <2>3. CASE \E m \in 1..lc : n = la + lb + m
        <3>1. PICK m \in 1..lc : n = la + lb + m
            BY <2>3
        <3>2. r[n] = ExemplarRows[m] /\ m \in DOMAIN Exemplars
            BY <1>8, <1>10, <1>11, <3>1
        <3> QED BY <1>8, <3>2
    <2> QED BY <1>11, <2>1, <2>2, <2>3
<1>13. \A m \in DOMAIN Exemplars : Exemplars[m] \in QuotedIn(r)
    <2> TAKE m \in DOMAIN Exemplars
    <2>1. m \in 1..lc /\ la + lb + m \in DOMAIN r /\ r[la + lb + m] = ExemplarRows[m]
        <3>1. m \in 1..lc
            BY <1>8, <1>10
        <3>2. la + lb + m \in 1..(la + lb + lc)
            BY <1>10, <3>1
        <3> QED BY <1>11, <3>1, <3>2
    <2> QED BY <1>8, <2>1 DEF QuotedIn
<1>14. \A q \in QuotedIn(r) : \E m \in DOMAIN Exemplars : q = Exemplars[m]
    <2> TAKE q \in QuotedIn(r)
    <2>1. PICK n \in DOMAIN r : r[n].part = "exemplar" /\ r[n].shows = {q}
        BY DEF QuotedIn
    <2>2. PICK m \in DOMAIN Exemplars : r[n].shows = {Exemplars[m]}
        BY <1>12, <2>1
    <2> QED BY <2>1, <2>2
<1>15. \A m \in DOMAIN all : \E q \in QuotedIn(r) : Item(q) = Item(all[m])
    <2> TAKE m \in DOMAIN all
    <2>1. PICK n \in DOMAIN Exemplars : Same(Exemplars[n], all[m])
        BY <1>7
    <2> HIDE DEF all
    <2> QED BY <1>13, <2>1 DEF Same
<1>16. /\ \A n \in DOMAIN Errors : \E m \in DOMAIN all : all[m] = Errors[n]
       /\ \A n \in DOMAIN Slowest : \E m \in DOMAIN all : all[m] = Slowest[n]
    <2>1. Errors \in Seq(Items) /\ Slowest \in Seq(Items)
        BY ErrorFirst, SlowestFirst
    <2>2. PICK le \in Nat, ls \in Nat : /\ le = Len(Errors) /\ ls = Len(Slowest)
                                        /\ DOMAIN Errors = 1..le /\ DOMAIN Slowest = 1..ls
        BY <2>1, LenProperties
    <2>3. /\ all \in Seq(Items) /\ Len(all) = le + ls
          /\ \A n \in 1..(le + ls) : all[n] = IF n <= le THEN Errors[n] ELSE Slowest[n - le]
        BY <2>1, <2>2, ConcatProperties
    <2> HIDE DEF all
    <2>4. DOMAIN all = 1..(le + ls)
        BY <2>2, <2>3, LenProperties
    <2>5. ASSUME NEW n \in 1..le PROVE \E m \in DOMAIN all : all[m] = Errors[n]
        <3>1. n \in 1..(le + ls) /\ n <= le
            OBVIOUS
        <3> QED BY <2>3, <2>4, <3>1
    <2>6. ASSUME NEW n \in 1..ls PROVE \E m \in DOMAIN all : all[m] = Slowest[n]
        <3>1. le + n \in 1..(le + ls) /\ ~(le + n <= le) /\ (le + n) - le = n
            OBVIOUS
        <3> QED BY <2>3, <2>4, <3>1
    <2> QED BY <2>2, <2>5, <2>6
<1> HIDE DEF all
<1>17. (\E i \in Items : Item(i).err) => \E q \in QuotedIn(r) : Item(q).err
    <2> SUFFICES ASSUME \E i \in Items : Item(i).err
                 PROVE  \E q \in QuotedIn(r) : Item(q).err
        OBVIOUS
    <2>1. PICK n \in DOMAIN Errors : Item(Errors[n]).err
        BY ErrorFirst
    <2>2. PICK m \in DOMAIN all : all[m] = Errors[n]
        BY <1>16
    <2> QED BY <1>15, <2>1, <2>2
<1>18. ASSUME NEW i \in Items, Timed(i)
       PROVE  \E q \in QuotedIn(r) : Item(q).duration >= Item(i).duration
    <2>1. PICK n \in DOMAIN Slowest : Item(Slowest[n]).duration >= Item(i).duration
        BY <1>18, SlowestFirst
    <2>2. PICK m \in DOMAIN all : all[m] = Slowest[n]
        BY <1>16
    <2> QED BY <1>15, <2>1, <2>2
<1>19. \A p, q \in QuotedIn(r) : Same(p, q) => p = q
    BY <1>7, <1>14
<1>20. QuotesTell(r)
    BY <1>17, <1>18, <1>19 DEF QuotesTell
<1>21. \A k \in DOMAIN groups :
          Delays(k) = IF groups[k].durations = <<>> THEN <<>> ELSE Three(groups[k].durations)
    <2> TAKE k \in DOMAIN groups
    <2>1. PICK came \in Seq(Int) : came = groups[k].durations
        BY DEF TableInv, TraceTable
    <2>2. Sorted(came) = <<>> <=> came = <<>>
        <3>1. Sorted(came) \in Seq(Int) /\ Len(Sorted(came)) = Len(came)
            BY SortedDelays
        <3> QED BY <3>1, EmptySeq
    <2>3. Delays(k) = IF Sorted(came) = <<>> THEN <<>> ELSE Three(came)
        BY <2>1 DEF Delays, Three
    <2> QED BY <2>1, <2>2, <2>3
<1>22. DelaysShown(r)
    BY <1>12, <1>21 DEF DelaysShown
<1> QED BY <1>12, <1>20, <1>22 DEF ShowsItems

-----------------------------------------------------------------------------
(* The invariant of the texts: once the rows are written, they say what    *)
(* the bundle says.                                                        *)
Tells(r) ==
    /\ ShowsItems(r)
    /\ input.reader = "log" => NewFirst(r)
    /\ input.reader = "metric" => OutliersUp(r)
    /\ input.reader = "trace" => QuotesTell(r) /\ DelaysShown(r)

Written == pc \in {"cut", "done"} /\ input.reader \in {"log", "metric", "trace"}

TextInv ==
    /\ TableInv
    /\ window \in [start : Nat, end : Nat] /\ DOMAIN affected \subseteq Nat
    /\ ~Written => rows = <<>>
    /\ Written => ReadItems = Items /\ \E r : r = rows /\ Tells(r)

LEMMA TextInit == InitAll => TextInv
<1> SUFFICES ASSUME InitAll PROVE TextInv
    OBVIOUS
<1>1. /\ pc = "read" /\ rows = <<>> /\ affected = <<>>
      /\ window = [start |-> 0, end |-> 0]
    BY DEF InitAll, Init, InitReport, Whole
<1>2. DOMAIN affected = {} /\ ~Written
    BY <1>1 DEF Written
<1> QED BY <1>1, <1>2, TableInit, LimitType DEF TextInv

(* What is said of a text depends on the bundle and the table alone. *)
LEMMA SaidOfSame ==
    ASSUME UNCHANGED <<input, groups>>, NEW r
    PROVE  /\ ShowsItems(r) => ShowsItems(r)'
           /\ NewFirst(r) => NewFirst(r)'
           /\ OutliersUp(r) => OutliersUp(r)'
           /\ QuotesTell(r) => QuotesTell(r)'
           /\ DelaysShown(r) => DelaysShown(r)'
           /\ Tells(r) => Tells(r)'
<1>1. /\ Items' = Items /\ \A i : At(i)' = At(i) /\ Item(i)' = Item(i) /\ (IsBase(i)' <=> IsBase(i))
      /\ \A i : Timed(i)' <=> Timed(i)
    BY SameItems
<1>2. ShowsItems(r) => ShowsItems(r)'
    BY <1>1 DEF ShowsItems
<1>3. NewFirst(r) => NewFirst(r)'
    <2>1. \A k : Baseline(k)' = Baseline(k)
        BY DEF Baseline, Profile, Template
    <2> QED BY <2>1 DEF NewFirst, PlaceIn, TextParts
<1>4. OutliersUp(r) => OutliersUp(r)'
    <2>1. \A k : Outliers(k)' = Outliers(k)
        <3> TAKE k
        <3>1. Base(k)' = Base(k) /\ Incid(k)' = Incid(k)
            BY <1>1 DEF Base, Incid
        <3>2. \A i : Value(k, i)' = Value(k, i)
            BY <1>1 DEF Value
        <3>3. Count(k)' = Count(k)
            BY <3>1 DEF Count
        <3>4. /\ [j \in Base(k) |-> Value(k, j)]' = [j \in Base(k) |-> Value(k, j)]
              /\ [j \in Base(k) |-> Value(k, j) * Value(k, j)]' = [j \in Base(k) |-> Value(k, j) * Value(k, j)]
            BY <3>1, <3>2
        <3>5. /\ SumFunction([j \in Base(k) |-> Value(k, j)])' = SumFunction([j \in Base(k) |-> Value(k, j)])
              /\ SumFunction([j \in Base(k) |-> Value(k, j) * Value(k, j)])'
                   = SumFunction([j \in Base(k) |-> Value(k, j) * Value(k, j)])
            BY <3>4
        <3>6. Variance(k)' = Variance(k) /\ \A i : Off(k, i)' = Off(k, i)
            BY <3>2, <3>3, <3>5 DEF Variance, Off
        <3> QED BY <3>1, <3>6 DEF Outliers
    <2> QED BY <2>1 DEF OutliersUp, PlaceIn, TextParts
<1>5. QuotesTell(r) => QuotesTell(r)'
    <2>1. QuotedIn(r)' = QuotedIn(r) /\ \A p, q : Same(p, q)' <=> Same(p, q)
        BY <1>1 DEF QuotedIn, Same
    <2> QED BY <1>1, <2>1 DEF QuotesTell
<1>6. DelaysShown(r) => DelaysShown(r)'
    BY DEF DelaysShown, Three
<1> QED BY <1>2, <1>3, <1>4, <1>5, <1>6 DEF Tells

LEMMA WindowType ==
    ASSUME DigestInv
    PROVE  Truncated(Length, Focus) \in [start : Nat, end : Nat]
<1>1. PICK n \in Nat, f \in Nat : n = Length /\ f = Focus
    <2>1. Length \in Nat
        BY BundleType DEF DigestInv, Length
    <2> QED BY <2>1, FocusIsInText
<1>2. CASE n <= limit
    BY <1>1, <1>2 DEF Truncated, Whole
<1>3. CASE n > limit
    <2>1. Truncated(n, f) = Part(n, f)
        BY <1>3, LimitType DEF Truncated
    <2>2. Part(n, f).start \in Nat /\ Part(n, f).end \in Nat
        BY <1>3, PartHasFocus
    <2>3. Part(n, f) = [start |-> Part(n, f).start, end |-> Part(n, f).end]
        BY DEF Part
    <2> QED BY <1>1, <2>1, <2>2, <2>3
<1> QED BY <1>1, <1>2, <1>3, LimitType

LEMMA TextStep == TextInv /\ [Next]_allVars => TextInv'
<1> SUFFICES ASSUME TextInv, [Next]_allVars PROVE TextInv'
    OBVIOUS
<1>1. TableInv' /\ TableInv /\ BundleInv /\ DigestInv
    BY TableStep DEF TextInv, TableInv
<1>2. input' = input /\ Items' = Items
    <2>1. input' = input
        BY DEF Next, Agents, ReadLine, RankLines, ReadPoint, RankSeries, ReadSpan, RankSpans, Cut,
               Raise, Observe, Assemble, allVars, vars
    <2> QED BY <2>1, SameItems
(* Nothing is written yet. *)
<1>3. ASSUME UNCHANGED <<rows, window, affected>>, ~Written, ~Written'
      PROVE  TextInv'
    BY <1>1, <1>3 DEF TextInv
(* The rows are written. *)
<1>4. ASSUME UNCHANGED <<next, groups, window, affected>>, pc' = "cut", next \notin Items,
             input.reader \in {"log", "metric", "trace"}, NEW r, r = rows', Tells(r)
      PROVE  TextInv'
    <2>1. Tells(r)'
        BY <1>2, <1>4, SaidOfSame
    <2>2. ReadItems' = Items'
        <3>1. ReadItems = Items
            BY <1>1, <1>4, AllRead
        <3> QED BY <1>2, <1>4, <3>1 DEF ReadItems
    <2>3. window' \in [start : Nat, end : Nat] /\ DOMAIN affected' \subseteq Nat /\ Written'
        BY <1>2, <1>4 DEF TextInv, Written
    <2> QED BY <1>1, <1>4, <2>1, <2>2, <2>3 DEF TextInv
(* They stay. *)
<1>5. ASSUME UNCHANGED <<next, groups, rows>>, Written' <=> Written,
             window' \in [start : Nat, end : Nat], DOMAIN affected' \subseteq Nat
      PROVE  TextInv'
    <2>1. CASE ~Written
        BY <1>1, <1>5, <2>1 DEF TextInv
    <2>2. CASE Written
        <3>1. PICK r : r = rows /\ Tells(r)
            BY <2>2 DEF TextInv
        <3>2. Tells(r)' /\ r = rows'
            BY <1>2, <1>5, <3>1, SaidOfSame
        <3>3. ReadItems' = Items'
            BY <1>2, <1>5, <2>2 DEF TextInv, ReadItems
        <3> QED BY <1>1, <1>5, <2>2, <3>2, <3>3 DEF TextInv
    <2> QED BY <2>1, <2>2
<1>6. CASE UNCHANGED reportVars /\ (ReadLine \/ ReadPoint \/ ReadSpan \/ \E i \in Items : pc = "read" /\ Raise(i))
    <2>1. UNCHANGED <<rows, window, affected>> /\ pc = "read" /\ pc' \in {"read", "raised"}
        BY <1>6 DEF ReadLine, ReadPoint, ReadSpan, Raise, reportVars
    <2>2. ~Written /\ ~Written'
        BY <2>1 DEF Written
    <2> QED BY <1>3, <2>1, <2>2
<1>7. CASE RankLines /\ UNCHANGED reportVars
    <2>1. PICK r : r = LifeRows \o NearRows \o BodyRows
        OBVIOUS
    <2>2. /\ UNCHANGED <<next, groups, window, affected>> /\ pc' = "cut" /\ next \notin Items
          /\ input.reader = "log" /\ r = rows'
        BY <1>7, <2>1 DEF RankLines, reportVars
    <2>3. ShowsItems(r) /\ NewFirst(r)
        BY <1>1, <2>1, <2>2, LogText
    <2>4. Tells(r)
        BY <2>2, <2>3 DEF Tells
    <2> QED BY <1>4, <2>2, <2>4
<1>8. CASE RankSeries /\ UNCHANGED reportVars
    <2>1. CASE \E i \in Items \ Unparsed : Raise(i)
        <3>1. \E i \in Items : pc = "read" /\ Raise(i)
            BY <1>8, <2>1 DEF RankSeries
        <3> QED BY <1>6, <1>8, <3>1
    <2>2. CASE ~\E i \in Items \ Unparsed : Raise(i)
        <3>1. PICK r : r = SeriesRows \o UnparsedRows
            OBVIOUS
        <3>2. /\ UNCHANGED <<next, groups, window, affected>> /\ pc' = "cut" /\ next \notin Items
              /\ input.reader = "metric" /\ r = rows'
            BY <1>8, <2>2, <3>1 DEF RankSeries, reportVars
        <3>3. ShowsItems(r) /\ OutliersUp(r)
            BY <1>1, <3>1, <3>2, MetricText
        <3>4. Tells(r)
            BY <3>2, <3>3 DEF Tells
        <3> QED BY <1>4, <3>2, <3>4
    <2> QED BY <2>1, <2>2
<1>9. CASE RankSpans /\ UNCHANGED reportVars
    <2>1. PICK r : r = OperationRows \o VolumeRows \o ExemplarRows
        OBVIOUS
    <2>2. /\ UNCHANGED <<next, groups, window, affected>> /\ pc' = "cut" /\ next \notin Items
          /\ input.reader = "trace" /\ r = rows'
        BY <1>9, <2>1 DEF RankSpans, ExemplarRows, reportVars
    <2>3. ShowsItems(r) /\ QuotesTell(r) /\ DelaysShown(r)
        BY <1>1, <2>1, <2>2, TraceText
    <2>4. Tells(r)
        BY <2>2, <2>3 DEF Tells
    <2> QED BY <1>4, <2>2, <2>4
<1>10. CASE Cut /\ UNCHANGED reportVars
    <2>1. Truncated(Length, Focus) \in [start : Nat, end : Nat]
        BY <1>1, WindowType
    <2>2. /\ UNCHANGED <<next, groups, rows, affected>> /\ window' = Truncated(Length, Focus)
          /\ pc = "cut" /\ pc' = "done"
        BY <1>10 DEF Cut, reportVars
    <2>3. Written' <=> Written
        BY <1>2, <2>2 DEF Written
    <2>4. DOMAIN affected' \subseteq Nat
        BY <2>2 DEF TextInv
    <2> QED BY <1>5, <2>1, <2>2, <2>3, <2>4
<1>11. CASE Observe
    <2>1. UNCHANGED <<rows, window, affected>> /\ pc = "read" /\ pc' = "read"
        BY <1>11 DEF Observe
    <2>2. ~Written /\ ~Written'
        BY <2>1 DEF Written
    <2> QED BY <1>3, <2>1, <2>2
<1>12. CASE Assemble
    <2>1. /\ UNCHANGED <<next, groups, rows, window>> /\ pc = "read" /\ pc' = "done"
          /\ input.reader = "report" /\ DOMAIN affected' = DOMAIN input.context.drafted
        BY <1>12 DEF Assemble
    <2>2. ~Written /\ ~Written'
        BY <1>2, <2>1 DEF Written
    <2>3. DOMAIN affected' \subseteq Nat
        <3>1. input.context \in Contexts["report"] /\ "report" \in DOMAIN Contexts
            BY <1>1, <2>1, BundleType DEF BundleInv, DigestInv
        <3>2. PICK n \in Nat : DOMAIN input.context.drafted = 1..n
            BY <3>1, IntervalsType
        <3> QED BY <2>1, <3>2
    <2>4. window' \in [start : Nat, end : Nat]
        BY <2>1 DEF TextInv
    <2> QED BY <1>5, <2>1, <2>2, <2>3, <2>4
<1>13. CASE UNCHANGED allVars
    <2>1. UNCHANGED <<next, groups, rows, window, affected, pc>>
        BY <1>13 DEF allVars, vars, reportVars
    <2>2. (Written' <=> Written) /\ window' \in [start : Nat, end : Nat] /\ DOMAIN affected' \subseteq Nat
        BY <1>2, <2>1 DEF Written, TextInv
    <2> QED BY <1>5, <2>1, <2>2
<1> QED BY <1>6, <1>7, <1>8, <1>9, <1>10, <1>11, <1>12, <1>13 DEF Next, Agents

-----------------------------------------------------------------------------
(* The properties. *)

LEMMA TextIsInvariant == Spec => []TextInv
BY TextInit, TextStep, PTL DEF Spec

(* At the end the text of an agent is written, and says what it has to.    *)
LEMMA TextAtEnd ==
    ASSUME TextInv, NEW reader \in {"log", "metric", "trace"}, Done(reader)
    PROVE  Tells(rows) /\ ReadItems = Items /\ TableInv /\ input.reader = reader
<1>1. Written /\ input.reader = reader
    BY DEF Done, Written
<1>2. PICK r : r = rows /\ Tells(r)
    BY <1>1 DEF TextInv
<1> QED BY <1>1, <1>2 DEF TextInv

(* The readers keep to their types: what a row shows are items of the      *)
(* bundle, and the window is a part of the text (bundle_compression.py,    *)
(* llm.py:79-105, report_llm.py).                                          *)
THEOREM AgentInputTypeCorrect == Spec => []TypeOK
<1>1. TextInv => TypeOK
    <2> SUFFICES ASSUME TextInv PROVE TypeOK
        OBVIOUS
    <2>1. /\ pc \in {"read", "cut", "done", "raised"} /\ next \in Nat
          /\ input.items \in [Items -> UNION Entries[input.reader]]
          /\ window \in [start : Nat, end : Nat] /\ DOMAIN affected \subseteq Nat
        BY DEF TextInv, TableInv, DigestInv, BundleInv
    <2>2. \A n \in DOMAIN rows : rows[n].shows \subseteq Items
        <3>1. CASE Written
            <4>1. PICK r : r = rows /\ Tells(r)
                BY <3>1 DEF TextInv
            <4> QED BY <4>1 DEF Tells, ShowsItems
        <3>2. CASE ~Written
            BY <3>2 DEF TextInv
        <3> QED BY <3>1, <3>2
    <2> QED BY <2>1, <2>2 DEF TypeOK
<1> QED BY TextIsInvariant, <1>1, PTL

(* Whatever the lines, the errors that the agent's text counts for a       *)
(* service are those that the report states of it, and the lines before    *)
(* and after the trigger add up (bundle_compression.py:229-241, :286-297). *)
THEOREM ErrorsCountedTheSame == Spec => []ErrorCountsAgree
<1>1. TextInv => ErrorCountsAgree
    <2> SUFFICES ASSUME TextInv, pc = "cut", input.reader = "log" PROVE ErrorCountsAgree
        BY DEF ErrorCountsAgree
    <2>1. /\ ReadItems = Items /\ LogTable
          /\ IsFiniteSet(Items) /\ IsFiniteSet(DOMAIN groups)
        BY DEF TextInv, Written, TableInv, DigestInv
    <2> DEFINE key == [i \in Items |-> Key(i)]
    <2>2. DOMAIN groups = {key[i] : i \in Items}
        BY <2>1 DEF LogTable
    <2>3. \A k \in DOMAIN groups : groups[k].count = Cardinality(Having(Items, key, {k}))
        <3>1. \A k : LinesOf(k) = Having(Items, key, {k})
            BY <2>1 DEF LinesOf, Having
        <3> QED BY <2>1, <3>1 DEF LogTable
    <2>4. ASSUME NEW K \in SUBSET DOMAIN groups
          PROVE  TotalOf(K) = Cardinality(Having(Items, key, K))
        <3> DEFINE f == [k \in K |-> groups[k].count]
        <3>1. IsFiniteSet(K) /\ \A k \in K : f[k] = Cardinality(Having(Items, key, {k}))
            BY <2>1, <2>3, FS_Subset
        <3>2. TotalOf(K) = SumFunctionOnSet(f, K)
            BY DEF TotalOf, SumFunction
        <3> HIDE DEF f, key
        <3> QED BY <2>1, <3>1, <3>2, SumOfParts
    <2>5. ASSUME NEW s
          PROVE  TotalOf({k \in DOMAIN groups : k[1] = s /\ LEVEL_ORDER(k[2]) = 0})
                   = Cardinality(ErrorLines(s))
        <3> DEFINE K == {k \in DOMAIN groups : k[1] = s /\ LEVEL_ORDER(k[2]) = 0}
        <3>1. \A i \in Items : /\ key[i] \in DOMAIN groups
                               /\ key[i][1] = Item(i).service /\ key[i][2] = Item(i).level
            BY <2>2 DEF Key
        <3>2. Having(Items, key, K) = ErrorLines(s)
            <4> HIDE DEF key
            <4> QED BY <3>1 DEF ErrorLines, Having
        <3>3. K \in SUBSET DOMAIN groups
            OBVIOUS
        <3> HIDE DEF K, key
        <3>4. TotalOf(K) = Cardinality(ErrorLines(s))
            BY <2>4, <3>2, <3>3
        <3> QED BY <3>4 DEF K
    <2>6. SumFunction([k \in DOMAIN groups |-> groups[k].base])
            = Cardinality({i \in Items : IsBase(i)})
        <3> DEFINE I == {i \in Items : IsBase(i)}
                   f == [k \in DOMAIN groups |-> groups[k].base]
        <3>1. I \in SUBSET Items /\ IsFiniteSet(I)
            BY <2>1, FS_Subset
        <3>2. \A k \in DOMAIN groups : f[k] = Cardinality(Having(I, key, {k}))
            <4>1. \A k : EarlyOf(k) = Having(I, key, {k})
                BY <2>1 DEF EarlyOf, LinesOf, Having
            <4> QED BY <2>1, <4>1 DEF LogTable
        <3>3. Having(I, key, DOMAIN groups) = I
            BY <2>2 DEF Having
        <3>4. SumFunction(f) = SumFunctionOnSet(f, DOMAIN groups)
            BY DEF SumFunction
        <3> HIDE DEF I, f, key
        <3>5. PICK K : K = DOMAIN groups
            OBVIOUS
        <3>6. IsFiniteSet(K) /\ \A k \in K : f[k] = Cardinality(Having(I, key, {k}))
            BY <2>1, <3>2, <3>5
        <3>7. SumFunctionOnSet(f, K) = Cardinality(Having(I, key, K))
            BY <3>1, <3>6, SumOfParts
        <3>8. SumFunction(f) = Cardinality(I)
            BY <3>3, <3>4, <3>5, <3>7
        <3> QED BY <3>8 DEF I, f
    <2>7. TotalOf(DOMAIN groups) = Cardinality(Items)
        <3>1. Having(Items, key, DOMAIN groups) = Items
            BY <2>2 DEF Having
        <3> HIDE DEF key
        <3> QED BY <2>4, <3>1
    <2> QED BY <2>5, <2>6, <2>7 DEF ErrorCountsAgree
<1> QED BY TextIsInvariant, <1>1, PTL

LEMMA PlaceIsInRows == \A k : Place(k) = PlaceIn(rows, k)
BY DEF Place, PlaceIn, TextParts

(* However many patterns a log has and however often they occur, a new one *)
(* comes before one that was there before the trigger and does not occur   *)
(* more often now (bundle_compression.py:200-201).                         *)
THEOREM NewPatternsFirst == Spec => []NewBeforeChronic
<1>1. TextInv => NewBeforeChronic
    <2> SUFFICES ASSUME TextInv, Done("log") PROVE NewBeforeChronic
        BY DEF NewBeforeChronic
    <2>1. NewFirst(rows)
        BY TextAtEnd DEF Tells
    <2> QED BY <2>1, PlaceIsInRows DEF NewFirst, NewBeforeChronic
<1> QED BY TextIsInvariant, <1>1, PTL

(* However many series a bundle has and whatever their values, those that  *)
(* left their range come before those that did not                         *)
(* (bundle_compression.py:411).                                            *)
THEOREM OutliersListedFirst == Spec => []OutliersFirst
<1>1. TextInv => OutliersFirst
    <2> SUFFICES ASSUME TextInv, Done("metric") PROVE OutliersFirst
        BY DEF OutliersFirst
    <2>1. OutliersUp(rows)
        BY TextAtEnd DEF Tells
    <2> QED BY <2>1, PlaceIsInRows DEF OutliersUp, OutliersFirst
<1> QED BY TextIsInvariant, <1>1, PTL

(* Among the raw spans that are quoted are an error and the slowest span,  *)
(* if the bundle has any, and none is quoted twice                         *)
(* (bundle_compression.py:500-507).                                        *)
THEOREM QuotedSpansTell == Spec => []ExemplarsTell
<1>1. TextInv => ExemplarsTell
    <2> SUFFICES ASSUME TextInv, Done("trace") PROVE ExemplarsTell
        BY DEF ExemplarsTell
    <2>1. QuotesTell(rows)
        BY TextAtEnd DEF Tells
    <2>2. QuotedIn(rows) = Quoted
        BY DEF QuotedIn, Quoted
    <2> QED BY <2>1, <2>2 DEF QuotesTell, ExemplarsTell
<1> QED BY TextIsInvariant, <1>1, PTL

(* Whatever the delays of an operation and however many, those in the text *)
(* are delays of it, p50 is a median, and they ascend to the maximum       *)
(* (bundle_compression.py:457-490).                                        *)
THEOREM DelaysAscend == Spec => []DelaysInOrder
<1>1. TextInv => DelaysInOrder
    <2> SUFFICES ASSUME TextInv, Done("trace") PROVE DelaysInOrder
        BY DEF DelaysInOrder
    <2>1. DelaysShown(rows) /\ TraceTable
        BY TextAtEnd DEF Tells, TableInv
    <2>2. ASSUME NEW n \in DOMAIN rows, rows[n].part = "operation", rows[n].of[2] # <<>>,
                 NEW all, all = groups[rows[n].of[1]].durations,
                 NEW shown, shown = rows[n].of[2]
          PROVE  /\ ToSet(shown) \subseteq ToSet(all)
                 /\ 2 * Cardinality({i \in DOMAIN all : all[i] < shown[1]}) <= Len(all)
                 /\ 2 * Cardinality({i \in DOMAIN all : all[i] > shown[1]}) <= Len(all)
                 /\ shown[1] <= shown[2] /\ shown[2] <= shown[3]
                 /\ \A i \in DOMAIN all : all[i] <= shown[3]
        <3>1. PICK k \in DOMAIN groups :
                LET came == groups[k].durations
                IN rows[n].of = <<k, IF came = <<>> THEN <<>> ELSE Three(came)>>
            BY <2>1, <2>2 DEF DelaysShown
        <3>2. all \in Seq(Int) /\ all # <<>> /\ shown = Three(all)
            <4>1. all = groups[k].durations
                BY <2>2, <3>1
            <4>2. shown = IF all = <<>> THEN <<>> ELSE Three(all)
                BY <2>2, <3>1, <4>1
            <4> QED BY <2>1, <2>2, <4>1, <4>2 DEF TraceTable
        <3>3. /\ \A j \in 1..3 : \E i \in DOMAIN all : all[i] = shown[j]
              /\ DOMAIN shown = 1..3
              /\ 2 * Cardinality({i \in DOMAIN all : all[i] < shown[1]}) <= Len(all)
              /\ 2 * Cardinality({i \in DOMAIN all : all[i] > shown[1]}) <= Len(all)
              /\ shown[1] <= shown[2] /\ shown[2] <= shown[3]
              /\ \A i \in DOMAIN all : all[i] <= shown[3]
            BY <3>2, ThreeDelays
        <3>4. ToSet(shown) \subseteq ToSet(all)
            BY <3>3 DEF ToSet
        <3> QED BY <3>3, <3>4
    <2> QED BY <2>2 DEF DelaysInOrder
<1> QED BY TextIsInvariant, <1>1, PTL

(* The instance has definitions of its own of what it counts and adds up   *)
(* with; they are the same.                                                *)
LEMMA SelectorAddsUp ==
    /\ \A S : Selector!Cardinality(S) = Cardinality(S)
    /\ \A f : Selector!SumFunction(f) = SumFunction(f)
<1>1. \A S : Selector!Cardinality(S) = Cardinality(S)
    BY DEF Selector!Cardinality, Cardinality
<1>2. \A f : Selector!SumFunction(f) = SumFunction(f)
    BY DEF Selector!SumFunction, SumFunction, Selector!SumFunctionOnSet, SumFunctionOnSet,
           Selector!FoldFunctionOnSet, FoldFunctionOnSet, Selector!MapThenFoldSet, MapThenFoldSet
<1> QED BY <1>1, <1>2

(* What the selector knows of a point that has one label: its peers are    *)
(* the points of its series.                                               *)
LEMMA PeersAreOfTheSeries ==
    ASSUME TextInv, Done("metric"), \A i \in Items : Cardinality(DOMAIN Item(i).pairs) <= 1,
           NEW i \in Items, Parsed(i), NEW k, k = <<Item(i).service, Label(i)>>
    PROVE  /\ k \in DOMAIN groups /\ Series(i) = {k} /\ groups[k] = Selector!Peers(i)
           /\ \A j \in groups[k] : Parsed(j) /\ Value(k, j) = Item(j).pairs[Label(j)]
<1>1. ReadItems = Items /\ MetricTable /\ DigestInv /\ input.reader = "metric"
    BY TextAtEnd DEF TableInv
<1>2. ASSUME NEW j \in Items, Parsed(j)
      PROVE  DOMAIN Item(j).pairs = {Label(j)}
    <2>1. IsFiniteSet(DOMAIN Item(j).pairs)
        <3>1. Item(j) \in UNION Entries["metric"] /\ "metric" \in DOMAIN Entries
            BY <1>1 DEF DigestInv, Item
        <3> QED BY <3>1, PairsType
    <2>2. Cardinality(DOMAIN Item(j).pairs) = 1
        BY <1>2, <2>1, FS_CardinalityType, FS_EmptySet DEF Parsed
    <2>3. PICK l : DOMAIN Item(j).pairs = {l}
        BY <2>1, <2>2, FS_Singleton
    <2>4. Min({l}) = l
        BY DEF Min
    <2> QED BY <2>3, <2>4 DEF Label
<1>3. \A j \in Items : Series(j) = IF Parsed(j) THEN {<<Item(j).service, Label(j)>>} ELSE {}
    <2> TAKE j \in Items
    <2>1. CASE Parsed(j)
        BY <1>2, <2>1 DEF Series
    <2>2. CASE ~Parsed(j)
        BY <2>2 DEF Series, Parsed
    <2> QED BY <2>1, <2>2
<1>4. Series(i) = {k} /\ k \in DOMAIN groups
    BY <1>1, <1>3 DEF MetricTable, AllSeries
<1>5. groups[k] = {j \in Items : Parsed(j) /\ <<Item(j).service, Label(j)>> = k}
    BY <1>1, <1>3, <1>4 DEF MetricTable, PointsOf
<1>6. Selector!Items = Items
    BY DEF Selector!Items
<1>7. \A j \in Items :
         Selector!Item(j).key = IF Parsed(j) THEN <<Item(j).service, Label(j)>> ELSE <<>>
    BY DEF Selector!Item
<1>8. groups[k] = Selector!Peers(i)
    <2>1. <<>> # k
        BY DEF Parsed
    <2> QED BY <1>5, <1>6, <1>7, <2>1 DEF Selector!Peers
<1>9. \A j \in groups[k] : Parsed(j) /\ Value(k, j) = Item(j).pairs[Label(j)]
    BY <1>5 DEF Value
<1> QED BY <1>4, <1>8, <1>9

(* The selector's formula and the digest's are the same, whatever the      *)
(* values and however many: an outlier of the agent's text is what Spring  *)
(* is sent first (signal_selector.py:142-176, bundle_compression.py:330).  *)
THEOREM DeviantsAreOutliers == Spec => []DeviantsAgree
<1>1. TextInv => DeviantsAgree
    <2> SUFFICES ASSUME TextInv, Done("metric"),
                        \A i \in Items : Cardinality(DOMAIN Item(i).pairs) <= 1,
                        NEW i \in Items
                 PROVE  Selector!Deviant(i) <=> \E k \in DOMAIN groups : i \in Outliers(k)
        BY DEF DeviantsAgree
    <2>1. TableInv /\ input.reader = "metric" /\ MetricTable
        BY TextAtEnd DEF TableInv
    <2>2. /\ Selector!Item(i).parsed <=> Parsed(i)
          /\ Selector!Item(i).base <=> IsBase(i)
        BY DEF Selector!Item
    <2>3. \A k \in DOMAIN groups : i \in Outliers(k) => k \in Series(i)
        BY <2>1 DEF Outliers, Incid, MetricTable, PointsOf
    <2>4. CASE ~Parsed(i)
        <3>1. Series(i) = {}
            BY <2>4 DEF Series, Parsed
        <3> QED BY <2>2, <2>3, <2>4, <3>1 DEF Selector!Deviant
    <2>5. CASE Parsed(i)
        <3>1. PICK k : k = <<Item(i).service, Label(i)>>
            OBVIOUS
        <3>2. /\ k \in DOMAIN groups /\ Series(i) = {k} /\ groups[k] = Selector!Peers(i)
              /\ \A j \in groups[k] : Parsed(j) /\ Value(k, j) = Item(j).pairs[Label(j)]
            BY <2>5, <3>1, PeersAreOfTheSeries
        <3>3. i \in groups[k] /\ groups[k] \subseteq Items
            BY <2>1, <3>2, SeriesValues DEF MetricTable, PointsOf, Selector!Peers, Selector!Items
        <3>4. \A j \in groups[k] : /\ Selector!Item(j).base <=> IsBase(j)
                                   /\ Selector!Item(j).value = Value(k, j)
            BY <3>2, <3>3 DEF Selector!Item
        <3>5. {j \in Selector!Peers(i) : Selector!Item(j).base} = Base(k)
            BY <3>2, <3>4 DEF Base
        <3>6. /\ [j \in Base(k) |-> Selector!Item(j).value] = [j \in Base(k) |-> Value(k, j)]
              /\ [j \in Base(k) |-> Selector!Item(j).value * Selector!Item(j).value]
                   = [j \in Base(k) |-> Value(k, j) * Value(k, j)]
            BY <3>4 DEF Base
        <3>7. Selector!Deviant(i) <=>
                /\ Base(k) # {} /\ ~IsBase(i)
                /\ Off(k, i) * Off(k, i) > 9 * Variance(k)
            <4>1. PICK B, v, w : /\ B = Base(k) /\ v = [j \in B |-> Value(k, j)]
                                 /\ w = [j \in B |-> Value(k, j) * Value(k, j)]
                OBVIOUS
            <4>2. Off(k, i) = Cardinality(B) * Value(k, i) - SumFunction(v)
                BY <4>1 DEF Off, Count
            <4>3. Variance(k) = Cardinality(B) * SumFunction(w) - SumFunction(v) * SumFunction(v)
                BY <4>1 DEF Variance, Count
            <4>4. /\ B = {j \in Selector!Peers(i) : Selector!Item(j).base}
                  /\ v = [j \in B |-> Selector!Item(j).value]
                  /\ w = [j \in B |-> Selector!Item(j).value * Selector!Item(j).value]
                BY <3>5, <3>6, <4>1
            <4>5. Selector!Item(i).value = Value(k, i)
                BY <3>3, <3>4
            <4>6. Selector!Deviant(i) <=>
                    LET n   == Cardinality(B)
                        off == n * Selector!Item(i).value - SumFunction(v)
                    IN /\ Selector!Item(i).parsed /\ B # {} /\ ~Selector!Item(i).base
                       /\ off * off > 9 * (n * SumFunction(w) - SumFunction(v) * SumFunction(v))
                BY <4>4, SelectorAddsUp DEF Selector!Deviant
            <4> QED BY <2>2, <2>5, <4>1, <4>2, <4>3, <4>5, <4>6
        <3>8. i \in Outliers(k) <=>
                /\ Base(k) # {} /\ ~IsBase(i)
                /\ Off(k, i) * Off(k, i) > 9 * Variance(k)
            BY <3>3 DEF Outliers, Incid, Base
        <3> QED BY <2>3, <3>2, <3>7, <3>8
    <2> QED BY <2>4, <2>5
<1> QED BY TextIsInvariant, <1>1, PTL

=============================================================================
