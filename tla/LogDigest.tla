----------------------------- MODULE LogDigest ------------------------------
(***************************************************************************)
(* compress_logs, and the profile of the logs of normal operation that     *)
(* scripts/analyze_baseline.py makes for it.  An item is a line:           *)
(*   [service, level, cluster, var, life]                                  *)
(* cluster stands for the words that lines of one pattern share, var for   *)
(* the others; life: the words of a start or an end of a service.  The     *)
(* context of this reader is [bad, byLog, history]: the log triggered, and *)
(* the lines of normal operation (<<>>: no profile).                       *)
(***************************************************************************)
EXTENDS Digest

CONSTANTS
    TriggerWindow, \* _TRIGGER_WINDOW_S, seconds
    HighlightCap   \* _HIGHLIGHT_CAP

ASSUME HighlightType == TriggerWindow \in Nat /\ HighlightCap \in Nat
ASSUME HistoryType ==
    "log" \in DOMAIN Contexts =>
        \A c \in Contexts["log"] :
            Len(c.history) \in Nat /\ DOMAIN c.history = 1..Len(c.history)

LEVEL_ORDER(level) ==
    CASE level \in {"FATAL", "CRITICAL", "ERROR"} -> 0
      [] level \in {"WARN", "WARNING"} -> 1
      [] OTHER -> 2

(* Drain, with a miner for each service: what a template says of line i    *)
(* once that line is read.  A word in which two lines of a cluster differ  *)
(* becomes <*>; before, it is the word itself.                             *)
Template(lines, i) ==
    LET read == {lines[k] : k \in {k \in 1..i : /\ lines[k].service = lines[i].service
                                                /\ lines[k].cluster = lines[i].cluster}}
        Word(S) == IF Cardinality(S) = 1 THEN CHOOSE w \in S : TRUE ELSE "<*>"
    IN [cluster |-> lines[i].cluster,
        level   |-> Word({l.level : l \in read}),
        var     |-> Word({l.var : l \in read})]

(* build_profile, looked up: each line of normal operation counts under    *)
(* the template of the moment.                                             *)
Profile(service, level, template) ==
    LET history == input.context.history
    IN Cardinality({k \in DOMAIN history : /\ history[k].service = service
                                           /\ history[k].level = level
                                           /\ Template(history, k) = template})

-----------------------------------------------------------------------------
Key(i) == <<Item(i).service, Item(i).level, Item(i).cluster>>

(* A new entry; its sample is the first line. *)
Opened(i) ==
    [count |-> 1, base |-> IF IsBase(i) THEN 1 ELSE 0, incid |-> IF IsBase(i) THEN 0 ELSE 1,
     first |-> i, last |-> i, template |-> Template(input.items, i)]

(* Mutant of Added: a line before the trigger counts as one after it. *)
Added_Incident(g, i) ==
    [g EXCEPT !.count = @ + 1, !.incid = @ + 1, !.last = i]

Added(g, i) ==
    [g EXCEPT !.count = @ + 1, !.last = i,
              !.base  = IF IsBase(i) THEN @ + 1 ELSE @,
              !.incid = IF IsBase(i) THEN @ ELSE @ + 1]

(* for item in items *)
ReadLine ==
    /\ pc = "read" /\ input.reader = "log" /\ next \in Items
    /\ \/ Raise(next)
       \/ /\ next \notin input.context.bad
          /\ groups' = Put(groups, Key(next),
                         IF Key(next) \in DOMAIN groups THEN Added(groups[Key(next)], next)
                                                        ELSE Opened(next))
          /\ next' = next + 1
          /\ UNCHANGED <<pc, input, rows, window>>

-----------------------------------------------------------------------------
(* The order: by surprise = incid / (base + baseline + 1), a quotient that *)
(* is compared by its rank; then by level and count, as they came.         *)

Baseline(k) == Profile(k[1], k[2], groups[k].template)

Usual(k) == groups[k].base + Baseline(k) + 1

MoreSurprising(k, h) == groups[k].incid * Usual(h) > groups[h].incid * Usual(k)

Rank(k) == Cardinality({h \in DOMAIN groups : MoreSurprising(h, k)})

(* Mutant of SortKey: an error comes first, however common it is. *)
SortKey_ByLevel(k) == <<LEVEL_ORDER(k[2]), Rank(k), -groups[k].count, groups[k].first>>

SortKey(k) == <<Rank(k), LEVEL_ORDER(k[2]), -groups[k].count, groups[k].first>>

BodyRows ==
    LET order == Listed(DOMAIN groups, SortKey)
    IN [n \in DOMAIN order |-> Row("body", order[n], {groups[order[n]].first, groups[order[n]].last})]

(* _build_highlight: starts and ends of services ... *)
LifeRows ==
    LET life == {k \in DOMAIN groups : Item(groups[k].first).life}
        ByIncid(k) == <<-groups[k].incid, -groups[k].count, groups[k].first>>
        order == FirstOf(Listed(life, ByIncid), HighlightCap)
    IN [n \in DOMAIN order |-> Row("life", order[n], {groups[order[n]].first, groups[order[n]].last})]

(* ... and the lines at the trigger, if the log triggered: of each cluster *)
(* the first one, errors first.                                            *)
Near == {i \in Items : -TriggerWindow <= At(i) /\ At(i) <= TriggerWindow}

Dedup(S) ==
    {i \in S : \A k \in S : Item(k).service = Item(i).service /\ Item(k).cluster = Item(i).cluster
                            => i <= k}

NearRows ==
    LET ByLevel(i) == <<LEVEL_ORDER(Item(i).level), At(i), i>>
        order == FirstOf(Listed(IF input.context.byLog THEN Dedup(Near) ELSE {}, ByLevel),
                         HighlightCap)
    IN [n \in DOMAIN order |-> Row("near", Key(order[n]), {order[n]})]

RankLines ==
    /\ pc = "read" /\ input.reader = "log" /\ next \notin Items
    /\ rows' = LifeRows \o NearRows \o BodyRows
    /\ pc' = "cut"
    /\ UNCHANGED <<input, next, groups, window>>

=============================================================================
