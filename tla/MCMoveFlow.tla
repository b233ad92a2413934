----------------------------- MODULE MCMoveFlow -----------------------------
(* Instances of MoveFlow for TLC. *)
EXTENDS MoveFlow

\* Two files of one block each, so that a truncated copy is the empty one.
OneBlock == <<1, 1>>

\* Names that cannot clash.
MovePaths == {"a", "a.1", "a.2", "b", "b.1", "b.2"}
MoveDest == <<"a", "b">>
MoveCandidates == <<<<"a.1", "a.2">>, <<"b.1", "b.2">>>>

\* "a" and its first candidate exist already, so that every answer to the conflict
\* matters.
SomeExist == {"a", "a.1"}

\* Both files are where they are copied to.
AllExist == {"a", "b"}

ASSUME SeparateNames

=============================================================================
