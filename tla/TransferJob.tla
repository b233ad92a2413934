---------------------------- MODULE TransferJob ----------------------------
(***************************************************************************)
(* The data of one transfer job: what transfer/planner.py hands to         *)
(* transfer/engine.py.  A file is its position among the job's file items; *)
(* its bytes are abstracted to numbered blocks, each tagged with the file  *)
(* it was read from, so that a truncated or a mixed-up destination file    *)
(* can be told from a complete copy.                                       *)
(***************************************************************************)
EXTENDS Integers, Sequences

CONSTANTS
  NumDirs,     \* directory items, processed in plan order
  NumFiles,    \* file items
  Size,        \* Size[f]: blocks of file f
  Paths,       \* file names that can occur in the destination tree
  Dest,        \* Dest[f]: the name the planner gave to file f
  MaxRename,   \* names tried for ConflictPolicy.RENAME (999 in the code)
  Candidates,  \* Candidates[f][i]: "<base>.<i><ext>" of Dest[f]
  Existing,    \* names that already hold a file when the job starts
  NoFile       \* content of a name that holds no file

Files == 1..NumFiles
Dirs == 1..NumDirs

Old == 0       \* tag of a block that was at the destination before the job
Hole == -1     \* a block nobody wrote (a write past the end of a file)
Content == Seq(Files \cup {Old, Hole})

\* A complete copy of file f.
Complete(f) == [k \in 1..Size[f] |-> f]

\* What the destination holds before the job.
InitialContent == [p \in Paths |-> IF p \in Existing THEN <<Old>> ELSE NoFile]

\* Every name the engine may give to file f.
Targets(f) == {Dest[f]} \cup {Candidates[f][i] : i \in 1..MaxRename}

ASSUME JobAssumption ==
  /\ NumDirs \in Nat
  /\ NumFiles \in Nat
  /\ Size \in [Files -> Nat]
  /\ Dest \in [Files -> Paths]
  /\ MaxRename \in Nat \ {0}
  /\ Candidates \in [Files -> [1..MaxRename -> Paths]]
  /\ Existing \subseteq Paths
  /\ NoFile \notin Content

\* No two files of the job can be given the same name.  The planner gives
\* every file a name of its own, but it does not know the renamed ones: a job
\* with both "a" and "a.1" is not separate.
SeparateNames ==
  \A f, g \in Files : f # g => Targets(f) \cap Targets(g) = {}

=============================================================================
