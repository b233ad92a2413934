--------------------------- MODULE MCSessionTabs ---------------------------
(* Instances of SessionTabs for TLC. *)
EXTENDS SessionTabs, TLC

CONSTANTS s1, s2, c1, c2, t1, t2

\* Sessions, workers and transfers are compared only for equality.
AnyName == Permutations({s1, s2}) \cup Permutations({c1, c2}) \cup Permutations({t1, t2})

=============================================================================
