------------------------------ MODULE LlmInput ------------------------------
(***************************************************************************)
(* truncate_input (app/agents/llm.py): which part of a text that is longer *)
(* than openai_max_input_chars an agent is given.  Positions count         *)
(* characters from 0, as in the source; a part is [start, end), and end is *)
(* not part of it.                                                         *)
(***************************************************************************)
EXTENDS Integers

CONSTANTS
    limit,   \* settings.openai_max_input_chars
    Notice   \* len(TRUNCATION_NOTICE)

(* The default is 120000 against 33. *)
ASSUME LimitType == limit \in Nat /\ Notice \in Nat /\ limit > 2 * (Notice + 2)

Greater(a, b) == IF a >= b THEN a ELSE b
Less(a, b)    == IF a <= b THEN a ELSE b

(* Mutant of Budget: room for one notice. *)
Budget_OneNotice == Greater(1, limit - (Notice + 2))

(* What two notices and their line breaks leave of the limit. *)
Budget == Greater(1, limit - 2 * (Notice + 2))

(* Mutant of Part: it starts at the top, whatever the focus. *)
Part_FromTop(length, focus) == [start |-> 0, end |-> Budget]

(* Mutant of Part: the start is not limited. *)
Part_Unlimited(length, focus) ==
    LET from == focus - Budget \div 2
    IN [start |-> from, end |-> Less(length, from + Budget)]

(* Around the focus; at either end of the text, the budget's worth of it. *)
Part(length, focus) ==
    LET from == Greater(0, focus - Budget \div 2)
        end  == Less(length, from + Budget)
    IN [start |-> Greater(0, end - Budget), end |-> end]

Whole(length) == [start |-> 0, end |-> length]

Truncated(length, focus) ==
    IF length <= limit THEN Whole(length) ELSE Part(length, focus)

(* A notice, and a line break, at each end that was cut. *)
NoticesOf(part, length) ==
    (IF part.start > 0 THEN 1 ELSE 0) + (IF part.end < length THEN 1 ELSE 0)

TextSize(part, length) ==
    part.end - part.start + NoticesOf(part, length) * (Notice + 1)

=============================================================================
