----------------------------- MODULE MirrorTree -----------------------------
(***************************************************************************)
(* How a tree of directories comes to the destination: plan_transfer() of  *)
(* transfer/planner.py walks the source, the loop over directories of      *)
(* TransferEngine.run() creates them one by one, and make_directory() of   *)
(* the destination does it: makedirs() for local disk and SFTP, MKD level  *)
(* by level for FTP (net/ftp.py).                                          *)
(*                                                                         *)
(* A directory at the destination goes by the name of the one it mirrors;  *)
(* Dest is the directory of the other pane.  make_directory() of aioftp is *)
(* called with its default parents=True: it asks for the path and for what *)
(* is above it until something is there, and sends a MKD for each level    *)
(* that is missing, from the top.  So it sends nothing, and succeeds, if   *)
(* the path is there.                                                      *)
(***************************************************************************)
EXTENDS Naturals, Sequences, FiniteSets, SequencesExt

CONSTANTS
  Entries,    \* what can be found in the source, below and with Top
  Folders,    \* those that are directories
  Top,        \* the entry the user selected
  Children,   \* Children[d]: the listing of d, without ".."
  Dest, Slash,
  Parent,     \* the directory above, for Top it is Dest
  Backends    \* subset of {"makedirs", "ftp"}

Places == Folders \cup {Dest, Slash}

\* The directories above a place: the smallest set that holds its parent and the
\* parent of whatever it holds.
Climbs(S) == \A p \in S \ {Slash} : Parent[p] \in S
Above ==
  [p \in Entries \cup Places |->
     IF p = Slash THEN {}
     ELSE {a \in Places : \A S \in SUBSET Places : Parent[p] \in S /\ Climbs(S) => a \in S}]

Line(d) == {d} \cup Above[d]

\* The source is a tree, and a listing names each entry once.
ASSUME MirrorAssumption ==
  /\ IsFiniteSet(Folders)
  /\ Folders \subseteq Entries /\ Top \in Entries /\ {Dest, Slash} \cap Entries = {}
  /\ Parent \in [Entries \cup {Dest} -> Places]
  /\ Parent[Top] = Dest /\ Parent[Dest] = Slash
  /\ \A d \in Folders : d \notin Above[d]
  /\ Children \in [Folders -> Seq(Entries)]
  /\ \A d \in Folders : /\ IsInjective(Children[d])
                        /\ ToSet(Children[d]) = {e \in Entries : Parent[e] = d}
  /\ Backends \subseteq {"makedirs", "ftp"}

VARIABLES
  backend,
  todo,       \* entries the walk has still to visit, in its order
  plan,       \* the items, in the order of the plan
  unread,     \* history: directories that could not be listed
  pc,
  next,       \* the first item of the plan that was not looked at
  made,       \* state of each directory of the plan
  exists,     \* directories that exist at the destination
  current,    \* make_directory() of FTP: the level it is at
  parts,      \* ... and the levels below it that were refused
  cancelled

walkVars == <<todo, plan, unread>>
ftpVars == <<current, parts>>
vars == <<backend, walkVars, pc, next, made, exists, ftpVars, cancelled>>

Init ==
  /\ backend \in Backends
  /\ todo = <<Top>> /\ plan = <<>> /\ unread = {}
  /\ pc = "plan" /\ next = 1
  /\ made = [d \in Folders |-> "queued"]
  /\ exists \in {Line(Dest) \cup S : S \in {{}, {Top} \cap Folders}}
  /\ current = Slash /\ parts = <<>> /\ cancelled = FALSE

----------------------------------------------------------------------------
(* plan_transfer(). *)

VisitFile ==
  /\ pc = "plan" /\ todo # <<>> /\ Head(todo) \notin Folders
  /\ plan' = Append(plan, Head(todo)) /\ todo' = Tail(todo)
  /\ UNCHANGED <<backend, unread, pc, next, made, exists, ftpVars, cancelled>>

\* Mutant: an unreadable directory ends the walk.
VisitOrStop ==
  /\ pc = "plan" /\ todo # <<>> /\ Head(todo) \in Folders
  /\ plan' = Append(plan, Head(todo))
  /\ \/ todo' = Children[Head(todo)] \o Tail(todo) /\ UNCHANGED unread
     \/ todo' = <<>> /\ unread' = unread \cup {Head(todo)}
  /\ UNCHANGED <<backend, pc, next, made, exists, ftpVars, cancelled>>

\* The directory, then what is in it; one that cannot be listed counts as empty.
VisitDirectory ==
  /\ pc = "plan" /\ todo # <<>> /\ Head(todo) \in Folders
  /\ plan' = Append(plan, Head(todo))
  /\ \/ todo' = Children[Head(todo)] \o Tail(todo) /\ UNCHANGED unread
     \/ todo' = Tail(todo) /\ unread' = unread \cup {Head(todo)}
  /\ UNCHANGED <<backend, pc, next, made, exists, ftpVars, cancelled>>

Planned ==
  /\ pc = "plan" /\ todo = <<>>
  /\ pc' = "next"
  /\ UNCHANGED <<backend, walkVars, next, made, exists, ftpVars, cancelled>>

----------------------------------------------------------------------------
(* The loop of run(), and _create_directory(). *)

Item == plan[next]

\* The state of the item is set, and the loop goes on.
Settle(state) ==
  /\ made' = [made EXCEPT ![Item] = state]
  /\ next' = next + 1 /\ pc' = "next"
  /\ current' = Slash /\ parts' = <<>>

Cancel ==
  /\ pc # "plan" /\ ~cancelled
  /\ cancelled' = TRUE
  /\ UNCHANGED <<backend, walkVars, pc, next, made, exists, ftpVars>>

\* Files come later.
PassFile ==
  /\ pc = "next" /\ next <= Len(plan) /\ Item \notin Folders
  /\ next' = next + 1
  /\ UNCHANGED <<backend, walkVars, pc, made, exists, ftpVars, cancelled>>

SkipCancelled ==
  /\ pc = "next" /\ next <= Len(plan) /\ Item \in Folders /\ cancelled
  /\ Settle("cancelled")
  /\ UNCHANGED <<backend, walkVars, exists, cancelled>>

Begins ==
  pc = "next" /\ next <= Len(plan) /\ Item \in Folders /\ ~cancelled

\* Path.mkdir(parents=True) and SFTP's makedirs(): all of it, or an error after
\* some of what is above.
MakeDirs ==
  /\ Begins /\ backend = "makedirs"
  /\ \/ exists' = exists \cup Line(Item) /\ Settle("done")
     \/ /\ \E p \in Above[Item] : exists' = exists \cup Line(p)
        /\ Settle("failed")
  /\ UNCHANGED <<backend, walkVars, cancelled>>

----------------------------------------------------------------------------
(* FTPFileSystem.make_directory(). *)

BeginFTP ==
  /\ Begins /\ backend = "ftp"
  /\ pc' = "ascend" /\ current' = Item
  /\ UNCHANGED <<backend, walkVars, next, made, exists, parts, cancelled>>

\* The path and what is missing above it are made.
MKD(p) == exists' = exists \cup Line(p)

\* The server refuses a level, whatever there is: those above it may have been made.
Refused(p) == \E a \in Above[p] : exists' = exists \cup Line(a)

\* The first level that is made, or was there, ends the call.
AscendMade ==
  /\ pc = "ascend" /\ MKD(current)
  /\ Settle("done")
  /\ UNCHANGED <<backend, walkVars, cancelled>>

\* Mutant: the root is tried as well.
AscendPast ==
  /\ pc = "ascend"
  /\ IF current = Slash THEN UNCHANGED exists ELSE Refused(current)
  /\ parts' = Append(parts, current)
  /\ current' = IF current = Slash THEN Slash ELSE Parent[current]
  /\ pc' = IF current = Slash THEN "descend" ELSE "ascend"
  /\ UNCHANGED <<backend, walkVars, next, made, cancelled>>

AscendRefused ==
  /\ pc = "ascend" /\ Refused(current)
  /\ parts' = Append(parts, current) /\ current' = Parent[current]
  /\ pc' = IF Parent[current] = Slash THEN "descend" ELSE "ascend"
  /\ UNCHANGED <<backend, walkVars, next, made, cancelled>>

\* The way down: what is refused must be there already.
DescendMade ==
  /\ pc = "descend" /\ parts # <<>> /\ MKD(Last(parts))
  /\ current' = Last(parts) /\ parts' = Front(parts)
  /\ UNCHANGED <<backend, walkVars, pc, next, made, cancelled>>

DescendRefused ==
  /\ pc = "descend" /\ parts # <<>> /\ Refused(Last(parts))
  /\ pc' = "probe" /\ current' = Last(parts) /\ parts' = Front(parts)
  /\ UNCHANGED <<backend, walkVars, next, made, cancelled>>

\* is_directory() of what was refused.
IsThere ==
  /\ pc = "probe" /\ current \in exists
  /\ pc' = "descend"
  /\ UNCHANGED <<backend, walkVars, next, made, exists, ftpVars, cancelled>>

\* ... which takes every error for "no".
IsNotThere ==
  /\ pc = "probe"
  /\ Settle("failed")
  /\ UNCHANGED <<backend, walkVars, exists, cancelled>>

DescendDone ==
  /\ pc = "descend" /\ parts = <<>>
  /\ Settle("done")
  /\ UNCHANGED <<backend, walkVars, exists, cancelled>>

\* An error of the connection is no StatusCodeError: it passes make_directory(),
\* _create_directory() and run(), after any of the levels was made.
ConnectionLost ==
  /\ \/ pc = "ascend" /\ \E a \in Line(current) : exists' = exists \cup Line(a)
     \/ /\ pc = "descend" /\ parts # <<>>
        /\ \E a \in Line(Last(parts)) : exists' = exists \cup Line(a)
  /\ pc' = "aborted"
  /\ UNCHANGED <<backend, walkVars, next, made, ftpVars, cancelled>>

----------------------------------------------------------------------------

Walk == VisitFile \/ VisitDirectory \/ Planned
Create == PassFile \/ SkipCancelled \/ MakeDirs
FTP ==
  \/ BeginFTP \/ AscendMade \/ AscendRefused
  \/ DescendMade \/ DescendRefused \/ IsThere \/ IsNotThere \/ DescendDone
  \/ ConnectionLost

\* Every item was looked at, or run() raised.
Ended ==
  /\ pc = "aborted" \/ (pc = "next" /\ next > Len(plan))
  /\ UNCHANGED vars

Next == Walk \/ Create \/ FTP \/ Cancel \/ Ended

Spec == Init /\ [][Next]_vars

----------------------------------------------------------------------------
(* Properties. *)

States == {"queued", "done", "failed", "cancelled"}

\* Every part of the state has its type; what make_directory() of FTP has still
\* to make are levels of the directory it was asked for, the root not among them.
TypeOK ==
  /\ backend \in Backends
  /\ todo \in Seq(Entries) /\ plan \in Seq(Entries) /\ unread \subseteq Folders
  /\ pc \in {"plan", "next", "ascend", "descend", "probe", "aborted"}
  /\ next \in 1..(Len(plan) + 1)
  /\ made \in [Folders -> States] /\ exists \subseteq Places
  /\ current \in Places /\ cancelled \in BOOLEAN
  /\ \A n \in 1..Len(parts) : parts[n] \in Line(Item) \ {Slash}

\* What of the source can be reached by listings that succeeded.
Readable == {e \in Entries : e = Top \/ (Top \in Above[e] /\ Above[e] \cap unread = {})}

\* The plan holds everything that can be read exactly once, a directory before
\* what is in it, however many listings fail.
PlanIsTree ==
  pc # "plan" =>
    /\ Readable = {plan[n] : n \in 1..Len(plan)}
    /\ \A m, n \in 1..Len(plan) :
         /\ plan[m] = plan[n] => m = n
         /\ plan[m] \in Above[plan[n]] => m < n

\* A directory that is reported DONE exists at the destination.  planner.py:9-11 says
\* that the engine creates the destination tree before any file in it starts, and
\* net/ftp.py:196-199 that the walk up creates each level.  Over FTP it fails: the walk
\* up ends at the first level that is there, and what is below it is not tried again.
DoneIsMade == \A d \in Folders : made[d] = "done" => d \in exists

=============================================================================
