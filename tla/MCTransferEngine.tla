-------------------------- MODULE MCTransferEngine --------------------------
(* Instances of TransferEngine for TLC. *)
EXTENDS TransferEngine

\* Two files of one block each, so that a truncated copy is the empty one.
OneBlock == <<1, 1>>

\* A file called as the other one is after a RENAME.
ClashingPaths == {"a", "a.1", "a.2", "a.1.1", "a.1.2"}
ClashingDest == <<"a", "a.1">>
ClashingCandidates == <<<<"a.1", "a.2">>, <<"a.1.1", "a.1.2">>>>
OneExists == {"a"}

=============================================================================
