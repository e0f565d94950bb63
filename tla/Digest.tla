------------------------------- MODULE Digest -------------------------------
(***************************************************************************)
(* What an agent is given to read (bundle_parser, bundle_compression): the *)
(* items of its modality are read into a table, the table is put in order  *)
(* as the rows of a text, and the text is cut to the limit of the LLM.     *)
(* LogDigest, MetricDigest and TraceDigest are the three tables, and       *)
(* ReportFacts is what the report takes from the bundle.                   *)
(*                                                                         *)
(* Times are seconds, and the trigger is at 0.  A row says which times are *)
(* written in it; headings are left out.                                   *)
(***************************************************************************)
EXTENDS Integers, Sequences, FiniteSets, SequencesExt, Ordering, LlmInput

CONSTANTS
    Entries,   \* per reader, the sets of items of which a bundle is made
    Contexts,  \* per reader, what else it reads: [bad, ...], see the readers
    Sizes,     \* how many items a bundle has
    Times,     \* the times they may have: sequences of numbers
    Width      \* characters of a row

ASSUME BundleType ==
    /\ Sizes \subseteq Nat /\ Times \subseteq Seq(Int) /\ Width \in Nat \ {0}
    /\ DOMAIN Contexts = DOMAIN Entries

VARIABLES
    pc,      \* "read", "cut"; "done", "raised"
    input,   \* [reader, items, times, context]
    next,    \* the item to be read next
    groups,  \* the table: a dict
    rows,    \* the text: [part, of, shows]
    window   \* what the agent gets of the text

vars == <<pc, input, next, groups, rows, window>>

Init ==
    /\ pc = "read"
    /\ \E r \in DOMAIN Entries, n \in Sizes :
       \E S \in Entries[r], ts \in {t \in Times : Len(t) = n}, c \in Contexts[r] :
          \E items \in [1..n -> S] :
             input = [reader |-> r, items |-> items, times |-> ts, context |-> c]
    /\ next = 1 /\ groups = <<>> /\ rows = <<>>
    /\ window = Whole(0)

Items   == DOMAIN input.items
Item(i) == input.items[i]
At(i)   == input.times[i]
IsBase(i) == At(i) < 0

(* The members of a set, by a key: sorted(...). *)
Listed(S, key(_)) == InOrder(S, [x \in S |-> key(x)])

(* A dict with an entry for a key: table[key] = entry. *)
Put(table, key, entry) ==
    [k \in DOMAIN table \cup {key} |-> IF k = key THEN entry ELSE table[k]]

FirstOf(s, n) == SubSeq(s, 1, Less(n, Len(s)))

Row(part, of, shows) == [part |-> part, of |-> of, shows |-> shows]

(* The time of an item has a zone and the trigger's has none, or the other *)
(* way round; or a duration is no number.  The agent fails.                *)
Raise(i) ==
    /\ i \in input.context.bad
    /\ pc' = "raised"
    /\ UNCHANGED <<input, next, groups, rows, window>>

-----------------------------------------------------------------------------
(* The end: build_user_message cuts the text. *)

Length == Width * Len(rows)

(* Rows in which the second of the trigger is written. *)
TriggerRows == {n \in DOMAIN rows : \E i \in rows[n].shows : At(i) = 0}

(* The first of them; without one, the middle of the text. *)
Focus ==
    IF TriggerRows # {} THEN Width * (Min(TriggerRows) - 1) ELSE Length \div 2

Cut ==
    /\ pc = "cut"
    /\ window' = Truncated(Length, Focus)
    /\ pc' = "done"
    /\ UNCHANGED <<input, next, groups, rows>>

(* Rows of which some character is left. *)
Kept ==
    {n \in DOMAIN rows : Width * (n - 1) < window.end /\ window.start < Width * n}

=============================================================================
