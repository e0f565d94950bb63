----------------------------- MODULE AgentInput -----------------------------
(***************************************************************************)
(* The readers of one bundle: the three agents and the report.             *)
(***************************************************************************)
EXTENDS ReportFacts, MetricDigest, TraceDigest

allVars == <<vars, reportVars>>

InitAll == Init /\ InitReport

Agents == \/ ReadLine \/ RankLines
          \/ ReadPoint \/ RankSeries
          \/ ReadSpan \/ RankSpans
          \/ Cut

Next == (Agents /\ UNCHANGED reportVars) \/ Observe \/ Assemble

Spec == InitAll /\ [][Next]_allVars

-----------------------------------------------------------------------------
(* Types. *)
TypeOK ==
    /\ pc \in {"read", "cut", "done", "raised"}
    /\ input.items \in [Items -> UNION Entries[input.reader]]
    /\ next \in Nat
    /\ \A n \in DOMAIN rows : rows[n].shows \subseteq Items
    /\ window \in [start : Nat, end : Nat]
    /\ DOMAIN affected \subseteq Nat

Done(reader) == pc = "done" /\ input.reader = reader

(* The prompt: a text that is cut is within the limit, with the notices    *)
(* that say where (llm.py:79-105).                                         *)
WithinLimit == Done("log") \/ Done("metric") \/ Done("trace") =>
                   TextSize(window, Length) <= limit

(* Whatever the order in which a digest puts its rows, a text that is cut  *)
(* still has the row in which the second of the trigger first occurs       *)
(* (llm.py:65-76, docs/agent-design.md:98).                                *)
TriggerKept == pc = "done" /\ TriggerRows # {} => Min(TriggerRows) \in Kept

(* Of the lines around the trigger, at least one is in what the agent of   *)
(* the log is given, cut or not (llm.py:68, :84, docs/agent-design.md:98). *)
AroundTrigger ==
    Done("log") /\ Near # {} => \E n \in Kept, i \in Near : rows[n].of = Key(i)

-----------------------------------------------------------------------------
(* compress_logs and service_error_counts find the errors of a service     *)
(* each in its own way.  The agent's text and the report agree on them,    *)
(* and the lines before and after the trigger add up (lines 229-241,       *)
(* 286-297 of bundle_compression.py).                                      *)
TotalOf(S) == SumFunction([k \in S |-> groups[k].count])
ErrorCountsAgree ==
    pc = "cut" /\ input.reader = "log" =>
        /\ \A s \in {Item(i).service : i \in Items} :
              TotalOf({k \in DOMAIN groups : k[1] = s /\ LEVEL_ORDER(k[2]) = 0})
                = Cardinality(ErrorLines(s))
        /\ SumFunction([k \in DOMAIN groups |-> groups[k].base])
             = Cardinality({i \in Items : IsBase(i)})
        /\ TotalOf(DOMAIN groups) = Cardinality(Items)

Place(k) == Min({n \in DOMAIN rows : rows[n].part \in {"body", "series"} /\ rows[n].of = k})

(* A pattern that nobody saw before the trigger, neither in this bundle    *)
(* nor in normal operation, comes before one that was there in the bundle, *)
(* if it occurs as often now, and an INFO before an ERROR (lines 200-201). *)
NewBeforeChronic ==
    Done("log") =>
        \A k, h \in DOMAIN groups :
            /\ groups[k].base = 0 /\ Baseline(k) = 0 /\ groups[k].incid > 0
            /\ groups[h].base > 0 /\ groups[h].incid <= groups[k].incid
            => Place(k) < Place(h)

(* The baseline that is shown knows a pattern of normal operation          *)
(* (lines 196-198; analyze_baseline.py:89-91).                             *)
ChronicKnown ==
    Done("log") =>
        \A k \in DOMAIN groups, l \in ToSet(input.context.history) :
            <<l.service, l.level, l.cluster>> = k => Baseline(k) > 0

-----------------------------------------------------------------------------
(* A series that left its normal range is listed before every one that did *)
(* not, whatever the units and the spread of the two (line 411).           *)
OutliersFirst ==
    Done("metric") =>
        \A k, h \in DOMAIN groups :
            Outliers(k) # {} /\ Outliers(h) = {} => Place(k) < Place(h)

(* signal_selector decides by a formula of its own which points are out of *)
(* range.  What the agent saw as an outlier is what Spring is sent first,  *)
(* where the items of the bundle have one label each                       *)
(* (signal_selector.py:24, :142-176).                                      *)
Parsed(i) == DOMAIN Item(i).pairs # {}
Label(i)  == Min(DOMAIN Item(i).pairs)
Selector == INSTANCE SignalSelector WITH
    Entries <- <<>>, Sizes <- {}, Times <- {}, cap <- 0,
    cursors <- <<>>, gi <- 1, advanced <- FALSE, picked <- <<>>,
    input <- [modality |-> "metric", times |-> input.times,
              items |-> [i \in Items |->
                  [parsed |-> Parsed(i), base |-> IsBase(i),
                   key |-> IF Parsed(i) THEN <<Item(i).service, Label(i)>> ELSE <<>>,
                   value |-> IF Parsed(i) THEN Item(i).pairs[Label(i)] ELSE 0]]]
DeviantsAgree ==
    Done("metric") /\ (\A i \in Items : Cardinality(DOMAIN Item(i).pairs) <= 1) =>
        \A i \in Items : Selector!Deviant(i) <=> \E k \in DOMAIN groups : i \in Outliers(k)

-----------------------------------------------------------------------------
(* The raw lines that are quoted have the first error and the slowest      *)
(* span, if there are any, and none twice (lines 500-507).                 *)
Quoted == {i \in Items : \E n \in DOMAIN rows : rows[n].part = "exemplar" /\ rows[n].shows = {i}}
ExemplarsTell ==
    Done("trace") =>
        /\ (\E i \in Items : Item(i).err) => \E q \in Quoted : Item(q).err
        /\ \A i \in Items : Timed(i) => \E q \in Quoted : Item(q).duration >= Item(i).duration
        /\ \A p, q \in Quoted : Same(p, q) => p = q

(* The delays in the text are delays of the operation, p50 is a median of  *)
(* them, and p50 <= p95 <= max (lines 457-490).                            *)
DelaysInOrder ==
    Done("trace") =>
        \A n \in DOMAIN rows :
            rows[n].part = "operation" /\ rows[n].of[2] # <<>> =>
                LET all == groups[rows[n].of[1]].durations
                    shown == rows[n].of[2]
                    Many(Test(_)) == 2 * Cardinality({i \in DOMAIN all : Test(all[i])})
                IN /\ ToSet(shown) \subseteq ToSet(all)
                   /\ Many(LAMBDA d : d < shown[1]) <= Len(all)
                   /\ Many(LAMBDA d : d > shown[1]) <= Len(all)
                   /\ shown[1] <= shown[2] /\ shown[2] <= shown[3]
                   /\ \A i \in DOMAIN all : all[i] <= shown[3]

-----------------------------------------------------------------------------
(* Of several intervals the strongest signal counts, whatever their order: *)
(* what is said of a service was observed, and nothing stronger was        *)
(* (report_llm.py:42-45).                                                  *)
Shown(s, m, rank) ==
    s \in DOMAIN liveness /\ m \in DOMAIN liveness[s] /\ LIVENESS_RANK(liveness[s][m]) >= rank

StrongestShown ==
    \A n \in DOMAIN input.context.intervals :
        LET iv == input.context.intervals[n]
            rank == LIVENESS_RANK(iv.status)
        IN rank > 0 => Shown(iv.service, iv.modality, rank)

ShownObserved ==
    \A s \in DOMAIN liveness : \A m \in DOMAIN liveness[s] :
        \E n \in DOMAIN input.context.intervals :
            LET iv == input.context.intervals[n]
            IN iv.service = s /\ iv.modality = m /\ iv.status = liveness[s][m]

StrongestSignal == Done("report") => StrongestShown /\ ShownObserved

(* The number of errors of a service that is in the log is the number of   *)
(* its error lines, none included (report_llm.py:133); said of a       *)
(* service whose name can be told from the others.                         *)
ErrorsAreFacts ==
    Done("report") =>
        \A n \in DOMAIN affected :
            LET Is(s) == Norm[s] = Norm[affected[n].service]
                named == {s \in {Item(i).service : i \in Items} : Is(s)}
            IN \A s \in named :
                  named = {s} => affected[n].errors = Cardinality(ErrorLines(s))

=============================================================================
