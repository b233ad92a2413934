------------------------------ MODULE MoveFlow ------------------------------
(***************************************************************************)
(* app.py, transfer_flow(): the worker that awaits TransferEngine.run()    *)
(* and, for a move, deletes the source files afterwards (_delete_source).  *)
(* The engine's own steps are TransferEngine's.                            *)
(***************************************************************************)
EXTENDS TransferEngine

VARIABLES
  flow,       \* where the worker is: "running", "deleting" or "ended"
  toDelete,   \* files _delete_source has still to remove, 1 to toDelete
  source,     \* files that are still at the source
  onto        \* both panes show the same directory: a file's destination is itself

flowVars == <<flow, toDelete, source, onto>>
moveVars == <<vars, flowVars>>

MoveInit ==
  /\ Init
  /\ flow = "running"
  /\ toDelete = NumFiles
  /\ source = Files
  /\ onto \in BOOLEAN
  /\ onto => \A f \in Files : Dest[f] \in Existing

EngineStep == Next /\ UNCHANGED flowVars

\* Mutant: whatever became of the items.
RunReturnedEmpty ==
  /\ phase = "returned" /\ flow = "running"
  /\ flow' \in {"deleting", "ended"}
  /\ UNCHANGED <<vars, toDelete, source, onto>>

\* run() returned: the sources are deleted if it is a move, which nothing before this
\* depends on, and any item, be it a directory, was completed.
RunReturned ==
  /\ phase = "returned" /\ flow = "running"
  /\ \/ flow' = "ended"
     \/ Completed > 0 /\ flow' = "deleting"
  /\ UNCHANGED <<vars, toDelete, source, onto>>

\* Mutant: nobody learns that run() raised.
RunAbortedUnseen == phase = "aborted" /\ flow = "running" /\ UNCHANGED moveVars

\* run() raised: the worker ends with it.
RunAborted ==
  /\ phase = "aborted" /\ flow = "running"
  /\ flow' = "ended"
  /\ UNCHANGED <<vars, toDelete, source, onto>>

\* The files in reverse order; a FileSystemError is passed over, any other
\* exception ends the worker.
DeleteFile ==
  /\ flow = "deleting" /\ toDelete > 0
  /\ toDelete' = toDelete - 1
  /\ \/ source' = source \ {toDelete} /\ UNCHANGED flow
     \/ UNCHANGED <<source, flow>>
     \/ flow' = "ended" /\ UNCHANGED source
  /\ UNCHANGED <<vars, onto>>

\* What the deletion leaves at name p of the destination: nothing, where p is the
\* name of a source that is gone and source and destination are one directory.
Left(p) ==
  IF onto /\ \E f \in Files \ source : Dest[f] = p THEN NoFile ELSE final[p]

\* Then the directories, which remove() refuses: it deletes files.
DeleteDirectories ==
  /\ flow = "deleting" /\ toDelete = 0
  /\ flow' = "ended"
  /\ UNCHANGED <<vars, toDelete, source, onto>>

FlowStep == RunReturned \/ RunAborted \/ DeleteFile \/ DeleteDirectories

MoveNext == EngineStep \/ FlowStep

MoveSpec == MoveInit /\ [][MoveNext]_moveVars

\* The engine's fairness, and the worker's.
FairMoveSpec == MoveSpec /\ Fairness /\ WF_moveVars(FlowStep)

----------------------------------------------------------------------------
(* Properties. *)

\* The worker's state has its type: no item beyond the first is asked for.
FlowTypeOK ==
  /\ flow \in {"running", "deleting", "ended"}
  /\ toDelete \in 0..NumFiles
  /\ source \subseteq Files
  /\ onto \in BOOLEAN

\* A source file is deleted only when the whole job is at rest: no task copies,
\* opens or renames any more, and something was completed.
DeletesAtRest ==
  source # Files => /\ phase = "returned" /\ Completed > 0
                    /\ \A f \in Files : pc[f] \in Ended

\* A move in which every file was reported DONE loses nothing: what is gone from
\* the source is complete at the destination (the successful copy of transfer_flow's
\* docstring). Not so where the pane's own directory is the destination.
WholeMoveLosesNothing ==
  (\A f \in Files : state[f] = "done") =>
    \A f \in Files \ source : Left(target[f]) = Complete(f)

\* A file is deleted only after it was copied successfully (transfer_flow's
\* docstring).
DeletesOnlyDelivered == \A f \in Files \ source : state[f] = "done"

\* The flow ends, whatever fails.
FlowEnds == <>(flow = "ended")

=============================================================================
