---------------------------- MODULE MCMirrorTree ----------------------------
(* Instances of MirrorTree for TLC. *)
EXTENDS MirrorTree

\* t holds a, a file and c; a holds b, which is empty, and a file.
Tree == {"t", "t/a", "t/a/b", "t/a/f", "t/c", "t/g"}
TreeFolders == {"t", "t/a", "t/a/b", "t/c"}
Listings ==
  [d \in TreeFolders |->
     CASE d = "t" -> <<"t/a", "t/c", "t/g">>
       [] d = "t/a" -> <<"t/a/b", "t/a/f">>
       [] OTHER -> <<>>]
TreeParent ==
  [e \in Tree \cup {"dest"} |->
     CASE e = "dest" -> "/"
       [] e = "t" -> "dest"
       [] e \in {"t/a", "t/c", "t/g"} -> "t"
       [] OTHER -> "t/a"]

=============================================================================
