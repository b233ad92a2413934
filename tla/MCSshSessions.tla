--------------------------- MODULE MCSshSessions ---------------------------
(* Instances of SshSessions for TLC. *)
EXTENDS SshSessions, TLC

CONSTANTS c1, c2, x1, h1, h2, w1, w2

\* Objects are compared only for equality.
AnyName == Permutations({c1, c2})
             \cup Permutations({h1, h2}) \cup Permutations({w1, w2})

\* Bound: as many references as a connection can have holders here.
FewLeaks == \A c \in Conns : refs[c] <= 4

=============================================================================
