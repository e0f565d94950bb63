------------------------------ MODULE Ordering ------------------------------
(***************************************************************************)
(* sorted(..., key=...) of Python, for keys that are tuples of numbers and *)
(* tell the members of the set apart.                                      *)
(***************************************************************************)
EXTENDS Integers, FiniteSets

(* Tuples of numbers, compared from the left. *)
Before(s, t) ==
    \E n \in DOMAIN s : s[n] < t[n] /\ \A m \in 1..(n - 1) : s[m] = t[m]

(* The set as a sequence: each member has as many before it as it should.  *)
(* The pairs of member and key are an argument, so that TLC makes them once. *)
InOrder(S, key) ==
    LET keyed == {<<x, key[x]>> : x \in S}
        sorted[K \in {keyed}] ==
            [n \in 1..Cardinality(S) |->
                (CHOOSE e \in K : Cardinality({f \in K : Before(f[2], e[2])}) = n - 1)[1]]
    IN sorted[keyed]

=============================================================================
