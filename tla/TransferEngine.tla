--------------------------- MODULE TransferEngine ---------------------------
(***************************************************************************)
(* transfer/engine.py: TransferEngine.run() and the coroutines it starts,  *)
(* one task per file, on one event loop.  A task runs without interruption *)
(* from one await to the next, so one step of the model is one awaited     *)
(* file-system call together with the code its answer resumes: pc[f] names *)
(* the call that the task of file f is waiting for.                        *)
(*                                                                         *)
(* A file at the destination is an inode: a handle opened on a partial     *)
(* name follows the file when it is renamed and is orphaned when the file  *)
(* is removed or replaced.                                                 *)
(***************************************************************************)
EXTENDS TransferJob, FiniteSets

CONSTANTS
  Concurrency,     \* tuning.concurrency, the semaphore's size
  MaxRetries,      \* MAX_RETRIES
  Policies,        \* the conflict policies the engine may be built with
  StatErrors,      \* stat may fail although the file exists (connection, permission)
  RenameReplaces   \* the backend's rename replaces an existing file (POSIX: yes, SFTPv3: no)

ASSUME EngineAssumption ==
  /\ Concurrency \in Nat \ {0}
  /\ MaxRetries \in Nat
  /\ Policies \subseteq {"ask", "overwrite", "skip", "rename"}
  /\ StatErrors \in BOOLEAN
  /\ RenameReplaces \in BOOLEAN

VARIABLES
  phase,      \* where run() is: "dirs", "files", "unwinding", "returned", "aborted"
  policy,     \* _conflict_policy
  cancelled,  \* _cancelled
  nextDir,    \* the directory item run() creates next
  dirState,   \* Progress.state of the directory items
  pc,         \* what the task of file f awaits
  state,      \* Progress.state of file f
  bytes,      \* Progress.bytes_done of file f, in blocks
  target,     \* dest_path of file f
  tried,      \* the candidate name being probed
  attempt,    \* the attempt being made, from 0
  offset,     \* blocks written in this attempt
  raised,     \* exception on its way through _copy_once's finally
  writer,     \* where the handle of the current attempt writes
  partial,    \* content of the partial file of each name
  final,      \* content of each name
  toCancel    \* tasks a CancelledError is on its way to

run == <<phase, policy, cancelled, nextDir, dirState, toCancel>>
attemptVars == <<target, tried, attempt>>
copyVars == <<offset, raised>>
disk == <<writer, partial, final>>
vars == <<run, pc, state, bytes, attemptVars, copyVars, disk>>

States == {"queued", "running", "done", "failed", "skipped", "cancelled"}
Calls == {"waiting", "stat", "ask", "probe", "openRead", "openWrite", "copy",
          "closing", "rename", "backoff", "cleanup"}
Ended == {"end", "dirty", "dead"}  \* returned; returned, its partial not removed; raised
Faults == {"transient", "other"}   \* FileSystemError or OSError; any other exception

\* Where a handle writes: a partial file, a file under its final name, or, when
\* it is closed or its file is gone, nowhere.
PartialOf(p) == [at |-> "partial", path |-> p]
FinalOf(p) == [at |-> "final", path |-> p]
Nowhere(p) == [at |-> "nowhere", path |-> p]

Init ==
  /\ phase = "dirs"
  /\ policy \in Policies
  /\ cancelled = FALSE
  /\ nextDir = 1
  /\ dirState = [d \in Dirs |-> "queued"]
  /\ pc = [f \in Files |-> "waiting"]
  /\ state = [f \in Files |-> "queued"]
  /\ bytes = [f \in Files |-> 0]
  /\ target = Dest
  /\ tried = [f \in Files |-> 1]
  /\ attempt = [f \in Files |-> 0]
  /\ offset = [f \in Files |-> 0]
  /\ raised = [f \in Files |-> "none"]
  /\ writer = [f \in Files |-> Nowhere(Dest[f])]
  /\ partial = [p \in Paths |-> NoFile]
  /\ final = InitialContent
  /\ toCancel = {}

----------------------------------------------------------------------------
(* The destination file system. *)

\* Handles follow a file from one place to another; the handles on a file it
\* replaces lose theirs.
Moved(from, to) ==
  [f \in Files |-> IF writer[f] = from THEN to
                   ELSE IF writer[f] = to THEN Nowhere(to.path) ELSE writer[f]]

\* Block b written at position i of content c; a gap reads back as holes.
Written(c, i, b) ==
  IF i = Len(c) + 1 THEN Append(c, b)
  ELSE [k \in 1..(IF i > Len(c) THEN i ELSE Len(c)) |->
          IF k = i THEN b ELSE IF k <= Len(c) THEN c[k] ELSE Hole]

\* open(partial, "wb"): created or truncated.
OpenPartial(p) == partial' = [partial EXCEPT ![p] = <<>>]

WriteBlock(f) ==
  LET w == writer[f]
      Put(c) == Written(c, offset[f] + 1, f)
  IN /\ partial' = IF w.at = "partial" THEN [partial EXCEPT ![w.path] = Put(@)] ELSE partial
     /\ final' = IF w.at = "final" THEN [final EXCEPT ![w.path] = Put(@)] ELSE final

CanRename(p) ==
  /\ partial[p] # NoFile
  /\ RenameReplaces \/ final[p] = NoFile

RenamePartial(p) ==
  /\ final' = [final EXCEPT ![p] = partial[p]]
  /\ partial' = [partial EXCEPT ![p] = NoFile]
  /\ writer' = Moved(PartialOf(p), FinalOf(p))

\* Mutant: the clean-up removes dest_path instead of the partial file.
RemoveTarget(p) ==
  /\ final' = [final EXCEPT ![p] = NoFile]
  /\ UNCHANGED <<partial, writer>>

RemovePartial(p) ==
  /\ partial' = [partial EXCEPT ![p] = NoFile]
  /\ writer' = Moved(PartialOf(p), Nowhere(p))
  /\ UNCHANGED final

----------------------------------------------------------------------------
(* Pieces of _copy_file. *)

\* The task of f is resumed by the answer to the call named l.
At(f, l) ==
  /\ phase \in {"files", "unwinding"}
  /\ pc[f] = l
  /\ f \notin toCancel

Goto(f, l) == pc' = [pc EXCEPT ![f] = l]
Mark(f, s) == state' = [state EXCEPT ![f] = s]

\* The semaphore is held from its acquisition to the end of the task.
Holding(f) == pc[f] \notin Ended \cup {"waiting"}

\* Mutant: the test of _cancelled without its state.
TryAttemptUnmarked(f) ==
  IF cancelled THEN Goto(f, "cleanup") /\ UNCHANGED state
               ELSE Mark(f, "running") /\ Goto(f, "openRead")

\* The loop's test of _cancelled before an attempt, the first one included.
TryAttempt(f) ==
  IF cancelled THEN Mark(f, "cancelled") /\ Goto(f, "cleanup")
               ELSE Mark(f, "running") /\ Goto(f, "openRead")

Begin(f, p) ==
  /\ target' = [target EXCEPT ![f] = p]
  /\ TryAttempt(f)

Skip(f) == Mark(f, "skipped") /\ Goto(f, "end") /\ UNCHANGED target

Probe(f) == Goto(f, "probe") /\ UNCHANGED <<state, target>>

\* An exception the task does not catch: gather() swallows it.
Die(f) == Goto(f, "dead") /\ UNCHANGED <<state, target>>

\* Mutants: one retry too many; a failure that returns without the clean-up.
HandleOnceMore(f, e) ==
  IF e = "transient" /\ attempt[f] <= MaxRetries
  THEN Goto(f, "backoff") /\ UNCHANGED state
  ELSE Mark(f, "failed") /\ Goto(f, "cleanup")
HandleAndLeave(f, e) ==
  IF e = "transient" /\ attempt[f] < MaxRetries
  THEN Goto(f, "backoff") /\ UNCHANGED state
  ELSE Mark(f, "failed") /\ Goto(f, "end")

\* The except clauses of the attempt loop.
Handle(f, e) ==
  IF e = "interrupt" THEN Mark(f, "cancelled") /\ Goto(f, "cleanup")
  ELSE IF e = "transient" /\ attempt[f] < MaxRetries
       THEN Goto(f, "backoff") /\ UNCHANGED state
       ELSE Mark(f, "failed") /\ Goto(f, "cleanup")

----------------------------------------------------------------------------
(* _copy_file, _resolve_conflict, _rename_destination. *)

\* The semaphore wakes its waiters in order.
Acquire(f) ==
  /\ At(f, "waiting")
  /\ \A g \in Files : g < f => pc[g] # "waiting"
  /\ Cardinality({g \in Files : Holding(g)}) < Concurrency
  /\ IF cancelled THEN Mark(f, "cancelled") /\ Goto(f, "end")
                  ELSE Goto(f, "stat") /\ UNCHANGED state
  /\ UNCHANGED <<run, bytes, attemptVars, copyVars, disk>>

\* The answer to the conflict: the policy's, or the user's.
Resolve(f, choice) ==
  \/ choice = "overwrite" /\ Begin(f, Dest[f])
  \/ choice = "skip" /\ Skip(f)
  \/ choice = "rename" /\ Probe(f)

\* A stat that fails, for whatever reason, counts as "does not exist".  ASK is always
\* with a resolver, as transfer_flow() gives it; without one it would be SKIP.
StatDestination(f) ==
  /\ At(f, "stat")
  /\ \/ /\ final[Dest[f]] = NoFile \/ StatErrors
        /\ Begin(f, Dest[f])
     \/ /\ final[Dest[f]] # NoFile
        /\ \/ policy # "ask" /\ Resolve(f, policy)
           \/ policy = "ask" /\ Goto(f, "ask") /\ UNCHANGED <<state, target>>
     \/ Die(f)
  /\ UNCHANGED <<run, bytes, tried, attempt, copyVars, disk>>

AskUser(f) ==
  /\ At(f, "ask")
  /\ \/ \E choice \in {"overwrite", "skip", "rename"} : Resolve(f, choice)
     \/ Die(f)
  /\ UNCHANGED <<run, bytes, tried, attempt, copyVars, disk>>

ProbeCandidate(f) ==
  LET p == Candidates[f][tried[f]] IN
  /\ At(f, "probe")
  /\ \/ /\ final[p] = NoFile \/ StatErrors \/ tried[f] = MaxRename
        /\ Begin(f, p)
        /\ UNCHANGED tried
     \/ /\ final[p] # NoFile /\ tried[f] < MaxRename
        /\ tried' = [tried EXCEPT ![f] = @ + 1]
        /\ UNCHANGED <<pc, state, target>>
     \/ Die(f) /\ UNCHANGED tried
  /\ UNCHANGED <<run, bytes, attempt, copyVars, disk>>

----------------------------------------------------------------------------
(* _copy_once and the rest of the attempt loop. *)

OpenRead(f) ==
  /\ At(f, "openRead")
  /\ \/ Goto(f, "openWrite") /\ UNCHANGED state
     \/ \E e \in Faults : Handle(f, e)
  /\ UNCHANGED <<run, bytes, attemptVars, copyVars, disk>>

OpenWrite(f) ==
  /\ At(f, "openWrite")
  /\ \/ /\ OpenPartial(target[f])
        /\ writer' = [writer EXCEPT ![f] = PartialOf(target[f])]
        /\ offset' = [offset EXCEPT ![f] = 0]
        /\ Goto(f, "copy") /\ UNCHANGED state
     \/ /\ \E e \in Faults : Handle(f, e)
        /\ OpenPartial(target[f]) \/ UNCHANGED partial
        /\ UNCHANGED <<writer, offset>>
  /\ UNCHANGED <<run, bytes, attemptVars, raised, final>>

\* One block read and written, the end of the source, or an error of either.
CopyBlock(f) ==
  /\ At(f, "copy")
  /\ \/ /\ offset[f] < Size[f]
        /\ WriteBlock(f)
        /\ offset' = [offset EXCEPT ![f] = @ + 1]
        /\ bytes' = [bytes EXCEPT ![f] = @ + 1]
        /\ UNCHANGED <<pc, raised>>
     \/ /\ \/ offset[f] = Size[f] /\ UNCHANGED raised
           \/ \E e \in Faults : raised' = [raised EXCEPT ![f] = e]
        /\ Goto(f, "closing")
        /\ UNCHANGED <<partial, final, offset, bytes>>
  /\ UNCHANGED <<run, state, attemptVars, writer>>

\* Mutant: the error of the copy is lost in the finally clause.
CloseHandlesOnly(f) ==
  /\ At(f, "closing")
  /\ Goto(f, "rename")
  /\ writer' = [writer EXCEPT ![f] = Nowhere(target[f])]
  /\ raised' = [raised EXCEPT ![f] = "none"]
  /\ UNCHANGED <<run, state, bytes, attemptVars, offset, partial, final>>

\* The finally clause: an exception of its own replaces the one on its way,
\* and an exception of reader.close() leaves the writer open.
CloseHandles(f) ==
  /\ At(f, "closing")
  /\ raised' = [raised EXCEPT ![f] = "none"]
  /\ \/ /\ writer' = [writer EXCEPT ![f] = Nowhere(target[f])]
        /\ IF raised[f] = "none" THEN Goto(f, "rename") /\ UNCHANGED state
                                 ELSE Handle(f, raised[f])
     \/ /\ \E e \in Faults : Handle(f, e)
        /\ writer' \in {writer, [writer EXCEPT ![f] = Nowhere(target[f])]}
  /\ UNCHANGED <<run, bytes, attemptVars, offset, partial, final>>

\* The rename may fail, and may fail after it took effect (its answer lost).
Rename(f) ==
  /\ At(f, "rename")
  /\ \/ /\ CanRename(target[f]) /\ RenamePartial(target[f])
        /\ Mark(f, "done") /\ Goto(f, "end")
        /\ bytes' = [bytes EXCEPT ![f] = Size[f]]
     \/ /\ \E e \in Faults : Handle(f, e)
        /\ \/ CanRename(target[f]) /\ RenamePartial(target[f])
           \/ UNCHANGED disk
        /\ UNCHANGED bytes
  /\ UNCHANGED <<run, attemptVars, copyVars>>

\* The end of asyncio.sleep() between two attempts.
Backoff(f) ==
  /\ At(f, "backoff")
  /\ attempt' = [attempt EXCEPT ![f] = @ + 1]
  /\ bytes' = [bytes EXCEPT ![f] = 0]
  /\ TryAttempt(f)
  /\ UNCHANGED <<run, target, tried, copyVars, disk>>

Cleanup(f) ==
  /\ At(f, "cleanup")
  /\ \/ RemovePartial(target[f]) /\ Goto(f, "end")
     \/ partial[target[f]] # NoFile /\ Goto(f, "dirty") /\ UNCHANGED disk
  /\ UNCHANGED <<run, state, bytes, attemptVars, copyVars>>

----------------------------------------------------------------------------
(* run() *)

\* One directory, or its cancellation; an exception other than
\* FileSystemError ends run().
MakeDirectory ==
  /\ phase = "dirs" /\ nextDir <= NumDirs
  /\ \/ /\ nextDir' = nextDir + 1
        /\ \E s \in IF cancelled THEN {"cancelled"} ELSE {"done", "failed"} :
             dirState' = [dirState EXCEPT ![nextDir] = s]
        /\ UNCHANGED <<phase, cancelled>>
     \/ /\ ~cancelled
        /\ dirState' = [dirState EXCEPT ![nextDir] = "running"]
        /\ phase' = "aborted" /\ cancelled' = TRUE
        /\ UNCHANGED nextDir
  /\ UNCHANGED <<policy, toCancel, pc, state, bytes, attemptVars, copyVars, disk>>

StartFiles ==
  /\ phase = "dirs" /\ nextDir > NumDirs
  /\ phase' = "files"
  /\ UNCHANGED <<policy, cancelled, nextDir, dirState, toCancel,
                 pc, state, bytes, attemptVars, copyVars, disk>>

\* gather() has collected every task; the finally clause sets _cancelled to
\* stop the progress flusher.
Return ==
  /\ phase \in {"files", "unwinding"}
  /\ \A f \in Files : pc[f] \in Ended
  /\ phase' = IF phase = "files" THEN "returned" ELSE "aborted"
  /\ cancelled' = TRUE
  /\ UNCHANGED <<policy, nextDir, dirState, toCancel,
                 pc, state, bytes, attemptVars, copyVars, disk>>

\* cancel(), called by the user's key binding.
Cancel ==
  /\ phase \in {"dirs", "files"} /\ ~cancelled
  /\ cancelled' = TRUE
  /\ UNCHANGED <<phase, policy, nextDir, dirState, toCancel,
                 pc, state, bytes, attemptVars, copyVars, disk>>

\* The worker that awaits run() is cancelled, as when the application exits:
\* during the directories run() ends at once, later gather() cancels the tasks.
Interrupt ==
  \/ /\ phase = "dirs" /\ nextDir <= NumDirs /\ ~cancelled
     /\ dirState' = [dirState EXCEPT ![nextDir] = "running"]
     /\ phase' = "aborted" /\ cancelled' = TRUE
     /\ UNCHANGED <<policy, nextDir, toCancel, pc, state, bytes, attemptVars, copyVars, disk>>
  \/ /\ phase = "files" /\ \E f \in Files : pc[f] \notin Ended
     /\ phase' = "unwinding"
     /\ toCancel' = {f \in Files : pc[f] \notin Ended}
     /\ UNCHANGED <<policy, cancelled, nextDir, dirState,
                    pc, state, bytes, attemptVars, copyVars, disk>>

----------------------------------------------------------------------------
(* CancelledError arrives at the call a task is waiting for. *)

Thrown(f, calls) ==
  /\ f \in toCancel /\ pc[f] \in calls
  /\ toCancel' = toCancel \ {f}
  /\ UNCHANGED <<phase, policy, cancelled, nextDir, dirState, bytes, attemptVars, offset>>

\* Outside the try statement, the back-off included: no handler.
ThrownOutsideTry(f) ==
  /\ Thrown(f, {"waiting", "stat", "ask", "probe", "backoff"})
  /\ Goto(f, "dead")
  /\ UNCHANGED <<state, raised, disk>>

\* In the try statement; the call itself may still take effect.
ThrownInTry(f) ==
  /\ Thrown(f, {"openRead", "openWrite", "closing", "rename"})
  /\ Handle(f, "interrupt")
  /\ \/ UNCHANGED disk
     \/ pc[f] = "openWrite" /\ OpenPartial(target[f]) /\ UNCHANGED <<writer, final>>
     \/ pc[f] = "rename" /\ CanRename(target[f]) /\ RenamePartial(target[f])
  /\ raised' = [raised EXCEPT ![f] = "none"]

\* In the copy loop: _copy_once closes its handles first.
ThrownInCopy(f) ==
  /\ Thrown(f, {"copy"})
  /\ raised' = [raised EXCEPT ![f] = "interrupt"]
  /\ Goto(f, "closing")
  /\ UNCHANGED <<state, disk>>

ThrownInCleanup(f) ==
  /\ Thrown(f, {"cleanup"})
  /\ Goto(f, "dead")
  /\ RemovePartial(target[f]) \/ UNCHANGED disk
  /\ UNCHANGED <<state, raised>>

----------------------------------------------------------------------------

FileStep(f) ==
  \/ Acquire(f) \/ StatDestination(f) \/ AskUser(f) \/ ProbeCandidate(f)
  \/ OpenRead(f) \/ OpenWrite(f) \/ CopyBlock(f) \/ CloseHandles(f)
  \/ Rename(f) \/ Backoff(f) \/ Cleanup(f)
  \/ ThrownOutsideTry(f) \/ ThrownInTry(f) \/ ThrownInCopy(f) \/ ThrownInCleanup(f)

RunStep == MakeDirectory \/ StartFiles \/ Return

Finished == phase \in {"returned", "aborted"} /\ UNCHANGED vars

Next ==
  \/ \E f \in Files : FileStep(f)
  \/ RunStep
  \/ Cancel \/ Interrupt
  \/ Finished

Spec == Init /\ [][Next]_vars

\* The event loop runs every task that is ready, every file-system call is
\* answered or fails, and the user answers the dialog.  Nobody has to cancel.
Fairness == WF_vars(RunStep) /\ \A f \in Files : WF_vars(FileStep(f))
FairSpec == Spec /\ Fairness

\* run()'s TransferResult, by the states the items are left in.
InState(s) ==
  Cardinality({f \in Files : state[f] = s}) + Cardinality({d \in Dirs : dirState[d] = s})
Completed == InState("done")
Failed == InState("failed")
Skipped == InState("skipped")
CancelledItems == InState("cancelled")

----------------------------------------------------------------------------
(* Properties. *)

\* Every variable has its type; in particular no attempt is made beyond MaxRetries.
TypeOK ==
  /\ phase \in {"dirs", "files", "unwinding", "returned", "aborted"}
  /\ policy \in Policies
  /\ cancelled \in BOOLEAN
  /\ nextDir \in 1..(NumDirs + 1)
  /\ dirState \in [Dirs -> States]
  /\ pc \in [Files -> Ended \cup Calls]
  /\ state \in [Files -> States]
  /\ bytes \in [Files -> Nat]
  /\ target \in [Files -> Paths]
  /\ tried \in [Files -> 1..MaxRename]
  /\ attempt \in [Files -> 0..MaxRetries]
  /\ offset \in [Files -> Nat]
  /\ raised \in [Files -> Faults \cup {"none", "interrupt"}]
  /\ writer \in [Files -> [at : {"partial", "final", "nowhere"}, path : Paths]]
  /\ partial \in [Paths -> Content \cup {NoFile}]
  /\ final \in [Paths -> Content \cup {NoFile}]
  /\ toCancel \subseteq Files

\* A name at the destination holds what it held before the job or a complete
\* copy of a file that may have that name, whatever fails and whenever the
\* transfer is cancelled or interrupted (PARTIAL_PREFIX, and the rename that
\* ends an attempt).
NoTruncatedFile ==
  \A p \in Paths :
    \/ final[p] = InitialContent[p]
    \/ \E f \in Files : p \in Targets(f) /\ final[p] = Complete(f)

\* A file reported DONE is at the destination, complete, for as long as the job
\* runs: no later step of another task, of a retry or of a cleanup spoils it.
DoneMeansDelivered ==
  \A f \in Files : state[f] = "done" => final[target[f]] = Complete(f)

\* When run() returns, the only partial files left are those whose removal
\* failed: every way out of the attempt loop removes the partial file.
NoLeftoverPartial ==
  phase = "returned" =>
    \A p \in Paths : partial[p] # NoFile =>
                       \E f \in Files : target[f] = p /\ pc[f] = "dirty"

\* run()'s TransferResult counts every item once, except the files whose task
\* died before its first attempt.
EveryItemCounted ==
  phase = "returned" =>
    Completed + Failed + Skipped + CancelledItems
      + Cardinality({f \in Files : pc[f] = "dead"}) = NumDirs + NumFiles

\* The destination changes as AtomicCopy says: one complete file at a time, and
\* never by a file whose outcome was already reported.
Outcome ==
  [f \in Files |-> IF state[f] \in {"queued", "running"} THEN "open"
                   ELSE IF state[f] = "done" THEN "done" ELSE "notDone"]
Atomic == INSTANCE AtomicCopy WITH outcome <- Outcome
ImplementsAtomicCopy == Atomic!Spec

=============================================================================
