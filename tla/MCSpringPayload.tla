-------------------------- MODULE MCSpringPayload ---------------------------
(* Small bundles for SpringPayload. *)
EXTENDS SpringPayload

(* The times run against the collector's order; the last two are equal. *)
SmallTimes == {[i \in 1..n |-> Max({n - i, 1})] : n \in Sizes}

(* No zone, which is UTC; or a zone for every other one, at +09:00. *)
Plainly  == {[i \in 1..n |-> [naive |-> TRUE, off |-> 0]] : n \in Sizes}
Mixed    == {[i \in 1..n |-> [naive |-> i % 2 = 0, off |-> IF i % 2 = 0 THEN 0 ELSE 9]] : n \in Sizes}
SmallZones == [log |-> Mixed, metric |-> Plainly \cup Mixed, trace |-> Mixed]

(* A line of text; and JSON lines, of which the level is read in one place *)
(* or another: the level key, the message, anywhere.                       *)
Text(K, L) == [key : K, level : L, levelKey : {"none"}, message : {FALSE}, word : {"-"}]
Json(LK, M, W) == [key : {"a"}, level : {"ERROR"}, levelKey : LK, message : {M}, word : W]

Point(K, V, base, B) ==
    [key : K, parsed : {TRUE}, value : V, base : {base}, bad : B, label : {"none"}]

Unparsed == [key : {"none"}, parsed : {FALSE}, value : {0}, base : {FALSE}, bad : {FALSE}, label : {"none"}]

Span(K, D, St, C, B, E) ==
    {[key |-> k, duration |-> d, status |-> s, code |-> c, bad |-> b, endless |-> e,
      err |-> is_err(s, c)] :
          k \in K, d \in D, s \in St, c \in C, b \in B, e \in E}

F == {FALSE}
Codes == {"none", "500"}

(* Points before and after the trigger, and one that cannot be read; a     *)
(* series with a point at three sigma; and points and spans on which the   *)
(* grouping, or the normalisation, fails.                                  *)
SmallEntries ==
    [log    |-> {Text({"a", "d"}, {"-"}) \cup Text({"b", "c", "d"}, {"ERROR"}),
                 Text({"a"}, {"WARN"}) \cup Json({"WARN"}, FALSE, {"-"}) \cup Json({""}, TRUE, {"INFO"})},
     metric |-> {Point({"a", "b"}, {0}, TRUE, F) \cup Point({"a"}, {5}, FALSE, F)
                   \cup Unparsed,
                 Point({"a"}, {0, 1}, TRUE, F) \cup Point({"a"}, {2, 5}, FALSE, F),
                 Point({"a"}, {0}, TRUE, BOOLEAN) \cup Point({"a"}, {0}, FALSE, BOOLEAN)},
     trace  |-> {Span({"a", "b"}, {0}, {"none"}, Codes, F, F),
                 Span({"a"}, {0, 1}, {"none"}, {"500"}, F, F) \cup Span({"a"}, {0}, {"OK", ""}, {"500"}, F, F),
                 Span({"a"}, {0}, {"OK"}, {"none"}, BOOLEAN, BOOLEAN)}]

=============================================================================
