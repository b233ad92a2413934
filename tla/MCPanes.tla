------------------------------ MODULE MCPanes ------------------------------
(* Instances of Panes for TLC. *)
EXTENDS Panes

\* One tab on the left, two on the right.
ThreeTables == {"l1", "r1", "r2"}
TwoSides == [t \in ThreeTables |-> IF t = "l1" THEN "left" ELSE "right"]
FirstTabs == [s \in {"left", "right"} |-> IF s = "left" THEN "l1" ELSE "r1"]

\* A directory, a child with a child, and a hidden one.
Tree == {"/", "/a", "/a/b", "/.c"}
TreeParent == [d \in Tree |-> IF d = "/a/b" THEN "/a" ELSE "/"]

=============================================================================
