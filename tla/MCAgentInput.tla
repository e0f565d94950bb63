---------------------------- MODULE MCAgentInput ----------------------------
(* Small bundles for AgentInput. *)
EXTENDS AgentInput

(* With a line in the second of the trigger, and without; in order, as the *)
(* collector sends them.                                                   *)
SmallTimes == {<<-9, 0, 2>>, <<-9, -2, 0, 4>>, <<-9, -2, 1, 2>>}

Line(s, l, c, v) == [service |-> s, level |-> l, cluster |-> c, var |-> v, life |-> c = "boot"]

Lines(S, C, V) == {Line(s, l, c, v) : s \in S, l \in {"ERROR", "INFO"}, c \in C, v \in V}

(* Normal operation: one pattern with a word that varies, one without. *)
Normal == <<Line("user", "INFO", "p", "x"), Line("user", "INFO", "p", "y"),
            Line("user", "INFO", "p", "x"), Line("user", "ERROR", "q", "x")>>

Span(S, D) == [service : S, op : {"get"}, err : BOOLEAN, duration : D]

Point(S, V) == [service : S, pairs : UNION {[L -> V] : L \in SUBSET {1, 2}}]

SmallEntries ==
    [log    |-> {Lines({"user"}, {"p", "q"}, {"x", "y"}),
                 Lines({"user", "media"}, {"p", "boot"}, {"x"})},
     metric |-> {Point({1}, {0, 1}), [service : {1, 2}, pairs : [{1} -> {0, 5}]],
                 [service : {1}, pairs : [{1} -> {0, 1, 4}]]},
     trace  |-> {Span({1, 2}, {-1, 3}), Span({1}, {1, 2, 3})},
     report |-> {Lines({"user", "userservice", "media"}, {"p"}, {"x"})}]

SomeIntervals ==
    LET Iv(m, s, t) == [modality |-> m, service |-> s, status |-> t]
    IN {<<Iv("log", "user", "empty"), Iv("log", "user", t), Iv("log", "user", "missing"),
          Iv("trace", "user", "?"), Iv("metric", "media", "data")>> : t \in {"data", "missing", "?"}}

SmallContexts ==
    [log    |-> [bad : {{}}, byLog : BOOLEAN, history : {<<>>, Normal}]
                  \cup [bad : {{2}}, byLog : {TRUE}, history : {<<>>}],
     metric |-> [bad : {{}, {2}}],
     trace  |-> [bad : {{}, {3}}],
     report |-> [bad : {{}}, intervals : SomeIntervals,
                 drafted : {<<[service |-> "user", errors |-> e], [service |-> "media", errors |-> 9]>> :
                               e \in {0, 7}}]]

(* Many patterns, most of them before the trigger. *)
WideTimes == {<<-9, -9, -9, -9, 1>>}
WideEntries == [log |-> {Lines({"user"}, {"p", "q", "r", "s", "t"}, {"x"})}]
WideContexts == [log |-> [bad : {{}}, byLog : {FALSE}, history : {<<>>}]]

SmallNorm == [user |-> "user", userservice |-> "user", media |-> "media"]

=============================================================================
