--------------------------- MODULE MCConnectFlow ---------------------------
(* Instances of ConnectFlow for TLC. *)
EXTENDS ConnectFlow

CONSTANTS f1, f2, k1, k2, i1

=============================================================================
