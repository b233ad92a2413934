--------------------------- MODULE TransferProofs ---------------------------
(***************************************************************************)
(* Theorems about TransferEngine, for every job and every tuning, and at   *)
(* the end about MoveFlow, the worker that runs the engine.                *)
(***************************************************************************)
EXTENDS MoveFlow, SequenceTheorems, FiniteSetTheorems, TLAPS

USE JobAssumption, EngineAssumption

----------------------------------------------------------------------------
(* Contents of files. *)

\* A function on 1..n is a sequence.
LEMMA SequenceOf ==
  ASSUME NEW S, NEW n \in Nat, NEW g \in [1..n -> S]
  PROVE  g \in Seq(S)
BY SeqDef

\* Writing a block to a file yields a content.
LEMMA WrittenType ==
  ASSUME NEW c \in Content, NEW i \in Nat, NEW f \in Files
  PROVE  Written(c, i, f) \in Content
<1> DEFINE S == Files \cup {Old, Hole}
           n == IF i > Len(c) THEN i ELSE Len(c)
           d == [k \in 1..n |-> IF k = i THEN f ELSE IF k <= Len(c) THEN c[k] ELSE Hole]
<1>1. c \in Seq(S) /\ Len(c) \in Nat
  BY LenProperties DEF Content
<1>2. n \in Nat
  BY <1>1
<1>3. d \in [1..n -> S]
  <2>1. ASSUME NEW k \in 1..n
        PROVE  (IF k = i THEN f ELSE IF k <= Len(c) THEN c[k] ELSE Hole) \in S
    <3>1. CASE k <= Len(c)
      BY <1>1, <1>2, <3>1, ElementOfSeq
    <3>2. CASE ~(k <= Len(c))
      BY <3>2
    <3> QED BY <3>1, <3>2
  <2> QED BY <2>1
<1>4. d \in Seq(S)
  <2> HIDE DEF d, n, S
  <2> QED BY <1>2, <1>3, SequenceOf
<1>5. Append(c, f) \in Seq(S)
  BY <1>1
<1> QED BY <1>4, <1>5 DEF Written, Content

\* Complete copies and the empty file are contents.
LEMMA CopyType ==
  ASSUME NEW f \in Files, NEW n \in Nat
  PROVE  [k \in 1..n |-> f] \in Content
<1>1. [k \in 1..n |-> f] \in [1..n -> Files \cup {Old, Hole}]
  OBVIOUS
<1> QED BY <1>1, SequenceOf DEF Content

\* The next block extends a copy in progress.
LEMMA CopyGrows ==
  ASSUME NEW f \in Files, NEW n \in Nat
  PROVE  Written([k \in 1..n |-> f], n + 1, f) = [k \in 1..(n + 1) |-> f]
<1> DEFINE c == [k \in 1..n |-> f]
           d == [k \in 1..(n + 1) |-> f]
<1>1. c \in Seq(Files) /\ d \in Seq(Files) /\ Len(c) = n /\ Len(d) = n + 1
  <2>1. c \in [1..n -> Files] /\ d \in [1..(n + 1) -> Files]
    OBVIOUS
  <2> QED BY <2>1, SequenceOf
<1>2. Append(c, f) \in Seq(Files) /\ Len(Append(c, f)) = n + 1
      /\ \A k \in 1..(n + 1) : Append(c, f)[k] = f
  BY <1>1
<1>3. Append(c, f) = d
  BY <1>1, <1>2, SeqEqual
<1> QED BY <1>1, <1>3 DEF Written

----------------------------------------------------------------------------
(* Type correctness.  A write changes the file its handle is on, so a handle *)
(* must be on a file that exists; a task that backs off has an attempt left. *)

HandlesAttached ==
  \A f \in Files :
    /\ writer[f].at = "partial" => partial[writer[f].path] # NoFile
    /\ writer[f].at = "final" => final[writer[f].path] # NoFile

RetriesLeft == \A f \in Files : pc[f] = "backoff" => attempt[f] < MaxRetries

TypeInv == TypeOK /\ HandlesAttached /\ RetriesLeft

Places == [at : {"partial", "final", "nowhere"}, path : Paths]

\* Every name the engine can give to a file is a path.
LEMMA TargetsArePaths ==
  ASSUME NEW f \in Files
  PROVE  Dest[f] \in Paths /\ \A i \in 1..MaxRename : Candidates[f][i] \in Paths
OBVIOUS

LEMMA InitTypeInv == Init => TypeInv
<1> SUFFICES ASSUME Init PROVE TypeInv
  OBVIOUS
<1>1. final \in [Paths -> Content \cup {NoFile}]
  <2>1. <<Old>> \in Content
    BY DEF Content
  <2> QED BY <2>1 DEF Init, InitialContent
<1>2. writer \in [Files -> Places]
  BY DEF Init, Nowhere, Places
<1>3. TypeOK
  <2>1. /\ phase \in {"dirs", "files", "unwinding", "returned", "aborted"}
        /\ policy \in Policies /\ cancelled \in BOOLEAN /\ toCancel \subseteq Files
    BY DEF Init
  <2>5. nextDir \in 1..(NumDirs + 1)
    BY DEF Init
  <2>6. dirState \in [Dirs -> States]
    BY DEF Init, States
  <2>2. /\ pc \in [Files -> Ended \cup Calls]
        /\ state \in [Files -> States]
        /\ raised \in [Files -> Faults \cup {"none", "interrupt"}]
    BY DEF Init, States, Calls
  <2>3. /\ bytes \in [Files -> Nat] /\ offset \in [Files -> Nat]
        /\ tried \in [Files -> 1..MaxRename]
        /\ attempt \in [Files -> 0..MaxRetries]
    BY DEF Init
  <2>4. target \in [Files -> Paths] /\ partial \in [Paths -> Content \cup {NoFile}]
    BY DEF Init
  <2> QED BY <1>1, <1>2, <2>1, <2>2, <2>3, <2>4, <2>5, <2>6 DEF TypeOK, Places
<1>4. HandlesAttached
  BY DEF Init, HandlesAttached, Nowhere
<1>5. RetriesLeft
  BY DEF Init, RetriesLeft
<1> QED BY <1>3, <1>4, <1>5 DEF TypeInv

\* The file operations keep contents and handles well-typed, and no handle on
\* a file that is gone.
LEMMA RenameTyped ==
  ASSUME TypeInv, NEW p \in Paths, CanRename(p), RenamePartial(p)
  PROVE  /\ writer' \in [Files -> Places]
         /\ partial' \in [Paths -> Content \cup {NoFile}]
         /\ final' \in [Paths -> Content \cup {NoFile}]
         /\ HandlesAttached'
  BY DEF TypeInv, TypeOK, HandlesAttached, Places, CanRename, RenamePartial, Moved,
         PartialOf, FinalOf, Nowhere

LEMMA RemoveTyped ==
  ASSUME TypeInv, NEW p \in Paths, RemovePartial(p)
  PROVE  /\ writer' \in [Files -> Places]
         /\ partial' \in [Paths -> Content \cup {NoFile}]
         /\ final' \in [Paths -> Content \cup {NoFile}]
         /\ HandlesAttached'
  BY DEF TypeInv, TypeOK, HandlesAttached, Places, RemovePartial, Moved,
         PartialOf, FinalOf, Nowhere

LEMMA OpenTyped ==
  ASSUME TypeInv, NEW p \in Paths, OpenPartial(p)
  PROVE  /\ partial' \in [Paths -> Content \cup {NoFile}]
         /\ partial'[p] # NoFile
         /\ \A q \in Paths : partial[q] # NoFile => partial'[q] # NoFile
<1>1. <<>> \in Content /\ NoFile \notin Content
  BY DEF Content
<1> QED BY <1>1 DEF TypeInv, TypeOK, OpenPartial

LEMMA WriteTyped ==
  ASSUME TypeInv, NEW f \in Files, WriteBlock(f)
  PROVE  /\ partial' \in [Paths -> Content \cup {NoFile}]
         /\ final' \in [Paths -> Content \cup {NoFile}]
         /\ \A q \in Paths : partial[q] # NoFile => partial'[q] # NoFile
         /\ \A q \in Paths : final[q] # NoFile => final'[q] # NoFile
<1> DEFINE w == writer[f]
<1>1. w \in Places /\ w.path \in Paths /\ offset[f] + 1 \in Nat
  BY DEF TypeInv, TypeOK, Places
<1>2. NoFile \notin Content
  OBVIOUS
<1>3. CASE w.at = "partial"
  <2>1. partial[w.path] \in Content
    BY <1>1, <1>3 DEF TypeInv, TypeOK, HandlesAttached
  <2>2. Written(partial[w.path], offset[f] + 1, f) \in Content
    BY <1>1, <2>1, WrittenType
  <2> QED BY <1>1, <1>2, <1>3, <2>2 DEF WriteBlock, TypeInv, TypeOK
<1>4. CASE w.at = "final"
  <2>1. final[w.path] \in Content
    BY <1>1, <1>4 DEF TypeInv, TypeOK, HandlesAttached
  <2>2. Written(final[w.path], offset[f] + 1, f) \in Content
    BY <1>1, <2>1, WrittenType
  <2> QED BY <1>1, <1>2, <1>4, <2>2 DEF WriteBlock, TypeInv, TypeOK
<1>5. CASE w.at = "nowhere"
  BY <1>5 DEF WriteBlock, TypeInv, TypeOK
<1> QED BY <1>1, <1>3, <1>4, <1>5 DEF Places

\* The bookkeeping of a task keeps its type.
LEMMA HandleTyped ==
  ASSUME TypeOK, NEW f \in Files, NEW e \in Faults \cup {"interrupt"}, Handle(f, e)
  PROVE  pc' \in [Files -> Ended \cup Calls] /\ state' \in [Files -> States]
  BY DEF TypeOK, Handle, Goto, Mark, Calls, States

LEMMA TryAttemptTyped ==
  ASSUME TypeOK, NEW f \in Files, TryAttempt(f)
  PROVE  pc' \in [Files -> Ended \cup Calls] /\ state' \in [Files -> States]
  BY DEF TypeOK, TryAttempt, Goto, Mark, Calls, States

LEMMA BeginTyped ==
  ASSUME TypeOK, NEW f \in Files, NEW p \in Paths, Begin(f, p)
  PROVE  /\ pc' \in [Files -> Ended \cup Calls] /\ state' \in [Files -> States]
         /\ target' \in [Files -> Paths]
  BY TryAttemptTyped DEF TypeOK, Begin

LEMMA ResolveTyped ==
  ASSUME TypeOK, NEW f \in Files, NEW choice, Resolve(f, choice)
  PROVE  /\ pc' \in [Files -> Ended \cup Calls] /\ state' \in [Files -> States]
         /\ target' \in [Files -> Paths]
  BY BeginTyped, TargetsArePaths
     DEF TypeOK, Resolve, Skip, Probe, Goto, Mark, Calls, States, Ended

\* A task backs off only when Handle found an attempt left.
LEMMA FileStepRetries ==
  ASSUME TypeInv, NEW f \in Files, FileStep(f)
  PROVE  RetriesLeft'
<1> USE DEF TypeInv, TypeOK, RetriesLeft
<1>1. ASSUME attempt' = attempt, NEW l \in (Calls \ {"backoff"}) \cup Ended,
             Goto(f, l) \/ pc' = pc
      PROVE  RetriesLeft'
  BY <1>1 DEF Goto, Calls, Ended
<1>2. ASSUME attempt' = attempt, NEW e \in Faults \cup {"interrupt"}, Handle(f, e)
      PROVE  RetriesLeft'
  BY <1>2 DEF Handle, Goto
<1>3. ASSUME attempt' = attempt, TryAttempt(f)
      PROVE  RetriesLeft'
  BY <1>3 DEF TryAttempt, Goto
<1>4. ASSUME attempt' = attempt, NEW choice, Resolve(f, choice)
      PROVE  RetriesLeft'
  BY <1>1, <1>3, <1>4 DEF Resolve, Begin, Skip, Probe, Calls, Ended
<1>5. CASE Acquire(f)
  BY <1>1, <1>5 DEF Acquire, attemptVars, Calls, Ended
<1>6. CASE StatDestination(f)
  BY <1>1, <1>3, <1>4, <1>6 DEF StatDestination, Begin, Skip, Die, Calls, Ended
<1>7. CASE AskUser(f)
  BY <1>1, <1>4, <1>7 DEF AskUser, Die, Calls, Ended
<1>8. CASE ProbeCandidate(f)
  BY <1>1, <1>3, <1>8 DEF ProbeCandidate, Begin, Die, Calls, Ended
<1>9. CASE OpenRead(f)
  BY <1>1, <1>2, <1>9 DEF OpenRead, attemptVars, Calls, Ended
<1>10. CASE OpenWrite(f)
  BY <1>1, <1>2, <1>10 DEF OpenWrite, attemptVars, Calls, Ended
<1>11. CASE CopyBlock(f)
  BY <1>1, <1>11 DEF CopyBlock, attemptVars, Calls, Ended
<1>12. CASE CloseHandles(f)
  <2>1. raised[f] # "none" => raised[f] \in Faults \cup {"interrupt"}
    OBVIOUS
  <2> QED BY <1>1, <1>2, <1>12, <2>1 DEF CloseHandles, attemptVars, Calls, Ended
<1>13. CASE Rename(f)
  BY <1>1, <1>2, <1>13 DEF Rename, attemptVars, Calls, Ended
<1>14. CASE Backoff(f)
  BY <1>14 DEF Backoff, TryAttempt, Goto
<1>15. CASE Cleanup(f)
  BY <1>1, <1>15 DEF Cleanup, attemptVars, Calls, Ended
<1>16. CASE ThrownOutsideTry(f) \/ ThrownInCopy(f) \/ ThrownInCleanup(f)
  BY <1>1, <1>16 DEF ThrownOutsideTry, ThrownInCopy, ThrownInCleanup, Thrown, attemptVars, Calls, Ended
<1>17. CASE ThrownInTry(f)
  BY <1>2, <1>17 DEF ThrownInTry, Thrown, attemptVars
<1> QED
  BY <1>5, <1>6, <1>7, <1>8, <1>9, <1>10, <1>11, <1>12, <1>13, <1>14, <1>15, <1>16, <1>17
  DEF FileStep

LEMMA FileStepTyped ==
  ASSUME TypeInv, NEW f \in Files, FileStep(f)
  PROVE  TypeOK' /\ HandlesAttached'
<1> USE DEF TypeInv
<1>1. CASE Acquire(f)
  <2>1. TypeOK'
    BY <1>1 DEF Acquire, TypeOK, At, Goto, Mark, Calls, States, Ended, run, attemptVars, copyVars, disk
  <2> QED BY <1>1, <2>1 DEF Acquire, HandlesAttached, disk
<1>2. CASE StatDestination(f)
  <2>1. /\ pc' \in [Files -> Ended \cup Calls] /\ state' \in [Files -> States]
        /\ target' \in [Files -> Paths]
    <3>1. CASE Begin(f, Dest[f])
      BY <3>1, BeginTyped, TargetsArePaths
    <3>2. CASE Resolve(f, policy)
      BY <3>2, ResolveTyped
    <3>3. CASE Skip(f) \/ Die(f)
      BY <3>3 DEF Skip, Die, Goto, Mark, TypeOK, Calls, States, Ended
    <3>4. CASE Goto(f, "ask") /\ state' = state /\ target' = target
      BY <3>4 DEF Goto, TypeOK, Calls
    <3> QED BY <1>2, <3>1, <3>2, <3>3, <3>4 DEF StatDestination
  <2> QED BY <1>2, <2>1 DEF StatDestination, TypeOK, HandlesAttached, run, copyVars, disk
<1>3. CASE AskUser(f)
  <2>1. /\ pc' \in [Files -> Ended \cup Calls] /\ state' \in [Files -> States]
        /\ target' \in [Files -> Paths]
    <3>1. CASE Die(f)
      BY <3>1 DEF Die, Goto, TypeOK, Ended
    <3> QED BY <1>3, <3>1, ResolveTyped DEF AskUser
  <2> QED BY <1>3, <2>1 DEF AskUser, TypeOK, HandlesAttached, run, copyVars, disk
<1>4. CASE ProbeCandidate(f)
  <2>1. tried[f] \in 1..MaxRename /\ Candidates[f][tried[f]] \in Paths
    BY TargetsArePaths DEF TypeOK
  <2>2. /\ pc' \in [Files -> Ended \cup Calls] /\ state' \in [Files -> States]
        /\ target' \in [Files -> Paths] /\ tried' \in [Files -> 1..MaxRename]
    <3>1. CASE Begin(f, Candidates[f][tried[f]]) /\ tried' = tried
      BY <2>1, <3>1, BeginTyped DEF TypeOK
    <3>2. CASE /\ tried[f] < MaxRename /\ tried' = [tried EXCEPT ![f] = @ + 1]
               /\ pc' = pc /\ state' = state /\ target' = target
      BY <2>1, <3>2 DEF TypeOK
    <3>3. CASE Die(f) /\ tried' = tried
      BY <3>3 DEF Die, Goto, TypeOK, Ended
    <3> QED BY <1>4, <3>1, <3>2, <3>3 DEF ProbeCandidate
  <2> QED BY <1>4, <2>2 DEF ProbeCandidate, TypeOK, HandlesAttached, run, copyVars, disk
<1>5. CASE OpenRead(f)
  <2>1. pc' \in [Files -> Ended \cup Calls] /\ state' \in [Files -> States]
    BY <1>5, HandleTyped DEF OpenRead, Goto, TypeOK, Calls
  <2> QED BY <1>5, <2>1 DEF OpenRead, TypeOK, HandlesAttached, run, attemptVars, copyVars, disk
<1>6. CASE OpenWrite(f)
  <2>1. pc' \in [Files -> Ended \cup Calls] /\ state' \in [Files -> States]
    BY <1>6, HandleTyped DEF OpenWrite, Goto, TypeOK, Calls
  <2>2. target[f] \in Paths
    BY DEF TypeOK
  <2>3. /\ partial' \in [Paths -> Content \cup {NoFile}]
        /\ \A q \in Paths : partial[q] # NoFile => partial'[q] # NoFile
    BY <1>6, <2>2, OpenTyped DEF OpenWrite, TypeOK
  <2>4. CASE /\ OpenPartial(target[f])
             /\ writer' = [writer EXCEPT ![f] = PartialOf(target[f])]
             /\ offset' = [offset EXCEPT ![f] = 0]
    <3>1. partial'[target[f]] # NoFile
      BY <2>2, <2>4, OpenTyped
    <3>2. TypeOK'
      BY <1>6, <2>1, <2>2, <2>3, <2>4 DEF OpenWrite, TypeOK, PartialOf, run, attemptVars
    <3>3. HandlesAttached'
      BY <1>6, <2>2, <2>3, <2>4, <3>1 DEF OpenWrite, TypeOK, HandlesAttached, PartialOf
    <3> QED BY <3>2, <3>3
  <2>5. CASE writer' = writer /\ offset' = offset
    <3>1. TypeOK'
      BY <1>6, <2>1, <2>3, <2>5 DEF OpenWrite, TypeOK, run, attemptVars
    <3>2. HandlesAttached'
      BY <1>6, <2>3, <2>5 DEF OpenWrite, TypeOK, HandlesAttached
    <3> QED BY <3>1, <3>2
  <2> QED BY <1>6, <2>4, <2>5 DEF OpenWrite
<1>7. CASE CopyBlock(f)
  <2>1. CASE WriteBlock(f) /\ offset' = [offset EXCEPT ![f] = @ + 1]
             /\ bytes' = [bytes EXCEPT ![f] = @ + 1] /\ pc' = pc /\ raised' = raised
    <3>1. TypeOK'
      BY <1>7, <2>1, WriteTyped DEF CopyBlock, TypeOK, run, attemptVars
    <3>2. HandlesAttached'
      BY <1>7, <2>1, WriteTyped DEF CopyBlock, TypeOK, HandlesAttached
    <3> QED BY <3>1, <3>2
  <2>2. CASE /\ raised' = raised \/ \E e \in Faults : raised' = [raised EXCEPT ![f] = e]
             /\ Goto(f, "closing")
             /\ UNCHANGED <<partial, final, offset, bytes>>
    <3>1. TypeOK'
      <4>1. raised' \in [Files -> Faults \cup {"none", "interrupt"}]
        BY <2>2 DEF TypeOK
      <4>2. pc' \in [Files -> Ended \cup Calls]
        BY <2>2 DEF TypeOK, Goto, Calls
      <4> QED BY <1>7, <2>2, <4>1, <4>2 DEF CopyBlock, TypeOK, run, attemptVars
    <3>2. HandlesAttached'
      BY <1>7, <2>2 DEF CopyBlock, HandlesAttached
    <3> QED BY <3>1, <3>2
  <2> QED BY <1>7, <2>1, <2>2 DEF CopyBlock
<1>8. CASE CloseHandles(f)
  <2>1. pc' \in [Files -> Ended \cup Calls] /\ state' \in [Files -> States]
    BY <1>8, HandleTyped DEF CloseHandles, Goto, TypeOK, Calls
  <2>2. writer' \in {writer, [writer EXCEPT ![f] = Nowhere(target[f])]}
    BY <1>8 DEF CloseHandles
  <2>3. TypeOK'
    <3>1. writer' \in [Files -> Places]
      <4>1. Nowhere(target[f]) \in Places /\ writer \in [Files -> Places]
        BY DEF TypeOK, Nowhere, Places
      <4> QED BY <2>2, <4>1
    <3>2. raised' \in [Files -> Faults \cup {"none", "interrupt"}]
      BY <1>8 DEF CloseHandles, TypeOK
    <3> QED BY <1>8, <2>1, <3>1, <3>2 DEF CloseHandles, TypeOK, Places, run, attemptVars
  <2>4. HandlesAttached'
    <3>1. partial' = partial /\ final' = final
      BY <1>8 DEF CloseHandles
    <3>2. ASSUME NEW g \in Files
          PROVE  writer'[g] = writer[g] \/ writer'[g].at = "nowhere"
      BY <2>2 DEF TypeOK, Nowhere
    <3> QED BY <3>1, <3>2 DEF HandlesAttached
  <2> QED BY <2>3, <2>4
<1>9. CASE Rename(f)
  <2>1. target[f] \in Paths /\ Size[f] \in Nat
    BY DEF TypeOK
  <2>2. pc' \in [Files -> Ended \cup Calls] /\ state' \in [Files -> States]
    BY <1>9, HandleTyped DEF Rename, Goto, Mark, TypeOK, Ended, States
  <2>3. bytes' \in [Files -> Nat]
    BY <1>9, <2>1 DEF Rename, TypeOK
  <2>4. CASE CanRename(target[f]) /\ RenamePartial(target[f])
    BY <1>9, <2>1, <2>2, <2>3, <2>4, RenameTyped DEF Rename, TypeOK, Places, run, attemptVars, copyVars
  <2>5. CASE UNCHANGED disk
    BY <1>9, <2>2, <2>3, <2>5 DEF Rename, TypeOK, HandlesAttached, run, attemptVars, copyVars, disk
  <2> QED BY <1>9, <2>4, <2>5 DEF Rename
<1>10. CASE Backoff(f)
  <2>1. pc' \in [Files -> Ended \cup Calls] /\ state' \in [Files -> States]
    BY <1>10, TryAttemptTyped DEF Backoff
  <2>2. attempt' \in [Files -> 0..MaxRetries]
    BY <1>10 DEF Backoff, At, TypeOK, RetriesLeft
  <2>3. bytes' \in [Files -> Nat]
    BY <1>10 DEF Backoff, TypeOK
  <2> QED BY <1>10, <2>1, <2>2, <2>3 DEF Backoff, TypeOK, HandlesAttached, run, copyVars, disk
<1>11. CASE Cleanup(f)
  <2>1. target[f] \in Paths
    BY DEF TypeOK
  <2>2. pc' \in [Files -> Ended \cup Calls]
    BY <1>11 DEF Cleanup, Goto, TypeOK, Ended
  <2>3. CASE RemovePartial(target[f])
    BY <1>11, <2>1, <2>2, <2>3, RemoveTyped DEF Cleanup, TypeOK, Places, run, attemptVars, copyVars
  <2>4. CASE UNCHANGED disk
    BY <1>11, <2>2, <2>4 DEF Cleanup, TypeOK, HandlesAttached, run, attemptVars, copyVars, disk
  <2> QED BY <1>11, <2>3, <2>4 DEF Cleanup
<1>12. CASE ThrownOutsideTry(f)
  BY <1>12 DEF ThrownOutsideTry, Thrown, Goto, TypeOK, HandlesAttached, attemptVars, disk, Ended
<1>13. CASE ThrownInCopy(f)
  BY <1>13 DEF ThrownInCopy, Thrown, Goto, TypeOK, HandlesAttached, attemptVars, disk, Calls
<1>14. CASE ThrownInTry(f)
  <2>1. target[f] \in Paths
    BY DEF TypeOK
  <2>2. pc' \in [Files -> Ended \cup Calls] /\ state' \in [Files -> States]
    BY <1>14, HandleTyped DEF ThrownInTry
  <2>3. raised' \in [Files -> Faults \cup {"none", "interrupt"}]
    BY <1>14 DEF ThrownInTry, TypeOK
  <2>4. CASE UNCHANGED disk
    BY <1>14, <2>2, <2>3, <2>4 DEF ThrownInTry, Thrown, TypeOK, HandlesAttached, attemptVars, disk
  <2>5. CASE OpenPartial(target[f]) /\ UNCHANGED <<writer, final>>
    <3>1. /\ partial' \in [Paths -> Content \cup {NoFile}]
          /\ \A q \in Paths : partial[q] # NoFile => partial'[q] # NoFile
      BY <2>1, <2>5, OpenTyped
    <3>2. TypeOK'
      BY <1>14, <2>2, <2>3, <2>5, <3>1 DEF ThrownInTry, Thrown, TypeOK, attemptVars
    <3>3. HandlesAttached'
      BY <2>5, <3>1 DEF TypeOK, HandlesAttached
    <3> QED BY <3>2, <3>3
  <2>6. CASE CanRename(target[f]) /\ RenamePartial(target[f])
    BY <1>14, <2>1, <2>2, <2>3, <2>6, RenameTyped DEF ThrownInTry, Thrown, TypeOK, Places, attemptVars
  <2> QED BY <1>14, <2>4, <2>5, <2>6 DEF ThrownInTry
<1>15. CASE ThrownInCleanup(f)
  <2>1. target[f] \in Paths
    BY DEF TypeOK
  <2>2. pc' \in [Files -> Ended \cup Calls]
    BY <1>15 DEF ThrownInCleanup, Goto, TypeOK, Ended
  <2>3. CASE RemovePartial(target[f])
    BY <1>15, <2>1, <2>2, <2>3, RemoveTyped DEF ThrownInCleanup, Thrown, TypeOK, Places, attemptVars
  <2>4. CASE UNCHANGED disk
    BY <1>15, <2>2, <2>4 DEF ThrownInCleanup, Thrown, TypeOK, HandlesAttached, attemptVars, disk
  <2> QED BY <1>15, <2>3, <2>4 DEF ThrownInCleanup
<1> QED
  BY <1>1, <1>2, <1>3, <1>4, <1>5, <1>6, <1>7, <1>8, <1>9, <1>10, <1>11, <1>12, <1>13, <1>14, <1>15
  DEF FileStep

\* The steps of run() and of the user touch no file and no handle.
LEMMA RunStepTyped ==
  ASSUME TypeInv, RunStep \/ Cancel \/ Interrupt \/ Finished
  PROVE  TypeInv'
<1>1. /\ UNCHANGED <<pc, state, bytes, attemptVars, copyVars, disk>>
      /\ policy' = policy
  BY DEF RunStep, MakeDirectory, StartFiles, Return, Cancel, Interrupt, Finished, vars, run
<1>2. /\ phase' \in {"dirs", "files", "unwinding", "returned", "aborted"}
      /\ cancelled' \in BOOLEAN /\ toCancel' \subseteq Files
      /\ nextDir' \in 1..(NumDirs + 1)
      /\ dirState' \in [Dirs -> States]
  <2> USE DEF TypeInv, TypeOK
  <2>1. CASE MakeDirectory
    <3>1. phase' \in {"dirs", "aborted"} /\ cancelled' \in BOOLEAN /\ toCancel' = toCancel
      BY <2>1 DEF MakeDirectory
    <3>2. nextDir' \in 1..(NumDirs + 1)
      BY <2>1 DEF MakeDirectory
    <3>3. \E s \in States : dirState' = [dirState EXCEPT ![nextDir] = s]
      BY <2>1 DEF MakeDirectory, States
    <3>4. dirState' \in [Dirs -> States]
      BY <3>3
    <3> QED BY <3>1, <3>2, <3>4
  <2>2. CASE StartFiles \/ Return \/ Cancel
    BY <2>2 DEF StartFiles, Return, Cancel
  <2>3. CASE Interrupt
    BY <2>3 DEF Interrupt, States
  <2>4. CASE Finished
    BY <2>4 DEF Finished, vars, run
  <2> QED BY <2>1, <2>2, <2>3, <2>4 DEF RunStep
<1>3. TypeOK'
  BY <1>1, <1>2 DEF TypeInv, TypeOK, attemptVars, copyVars, disk
<1>4. HandlesAttached' /\ RetriesLeft'
  BY <1>1 DEF TypeInv, HandlesAttached, RetriesLeft, attemptVars, disk
<1> QED BY <1>3, <1>4 DEF TypeInv

LEMMA TypeInvariant == Spec => []TypeInv
<1>1. Init => TypeInv
  BY InitTypeInv
<1>2. TypeInv /\ [Next]_vars => TypeInv'
  <2> SUFFICES ASSUME TypeInv, [Next]_vars PROVE TypeInv'
    OBVIOUS
  <2>1. ASSUME NEW f \in Files, FileStep(f) PROVE TypeInv'
    BY <2>1, FileStepTyped, FileStepRetries DEF TypeInv
  <2>2. CASE RunStep \/ Cancel \/ Interrupt \/ Finished
    BY <2>2, RunStepTyped
  <2>3. CASE UNCHANGED vars
    BY <2>3 DEF TypeInv, TypeOK, HandlesAttached, RetriesLeft, vars, run, attemptVars, copyVars, disk
  <2> QED BY <2>1, <2>2, <2>3 DEF Next
<1> QED BY <1>1, <1>2, PTL DEF Spec

\* Every variable keeps its type: in particular no handle writes to a file that
\* does not exist, and no attempt is made beyond MAX_RETRIES.
THEOREM TypeCorrect == Spec => []TypeOK
<1>1. TypeInv => TypeOK
  BY DEF TypeInv
<1> QED BY <1>1, TypeInvariant, PTL

----------------------------------------------------------------------------
(* The destination.  Given separate names, the partial file of a file that   *)
(* is being copied belongs to it alone: it holds exactly the blocks written, *)
(* and all of them by the time it is renamed.                                *)

CopyInvOf(f) ==
  /\ target[f] \in Targets(f)
  /\ pc[f] = "copy" =>
       /\ writer[f] = PartialOf(target[f])
       /\ offset[f] <= Size[f]
       /\ partial[target[f]] = [k \in 1..offset[f] |-> f]
  /\ pc[f] = "closing" /\ raised[f] = "none" => partial[target[f]] = Complete(f)
  /\ pc[f] = "rename" => partial[target[f]] = Complete(f)
  /\ state[f] = "done" => pc[f] = "end" /\ final[target[f]] = Complete(f)
  /\ pc[f] \in Calls \ {"cleanup"} => state[f] \in {"queued", "running"}

CopyInv == \A f \in Files : CopyInvOf(f)

\* What one task does to the files of the others: nothing.  It changes only
\* the two files of its own name, and a final one only by renaming.
LEMMA DiskFrame ==
  ASSUME TypeInv, CopyInv, NEW f \in Files, FileStep(f)
  PROVE  /\ \A p \in Paths \ {target[f]} : partial'[p] = partial[p] /\ final'[p] = final[p]
         /\ \/ final' = final
            \/ pc[f] = "rename" /\ final'[target[f]] = partial[target[f]]
         /\ \A g \in Files \ {f} : writer'[g] = writer[g] \/ writer[g].path = target[f]
<1> USE DEF TypeInv, TypeOK
<1>1. target[f] \in Paths
  OBVIOUS
<1>2. CASE UNCHANGED disk
  BY <1>2 DEF disk
<1>3. CASE OpenWrite(f)
  BY <1>1, <1>3 DEF OpenWrite, OpenPartial
<1>4. CASE CopyBlock(f)
  <2>1. pc[f] = "copy"
    BY <1>4 DEF CopyBlock, At
  <2>2. writer[f] = PartialOf(target[f])
    BY <2>1 DEF CopyInv, CopyInvOf
  <2>3. writer[f].at = "partial" /\ writer[f].path = target[f]
    BY <2>2 DEF PartialOf
  <2> QED BY <1>1, <1>4, <2>3 DEF CopyBlock, WriteBlock
<1>5. CASE CloseHandles(f)
  BY <1>5 DEF CloseHandles
<1>6. CASE RenamePartial(target[f]) /\ pc[f] = "rename"
  BY <1>1, <1>6 DEF RenamePartial, Moved, PartialOf, FinalOf
<1>7. CASE RemovePartial(target[f])
  BY <1>1, <1>7 DEF RemovePartial, Moved, PartialOf, Nowhere
<1>8. CASE OpenPartial(target[f]) /\ UNCHANGED <<writer, final>>
  BY <1>1, <1>8 DEF OpenPartial
<1> QED
  BY <1>2, <1>3, <1>4, <1>5, <1>6, <1>7, <1>8
  DEF FileStep, Acquire, StatDestination, AskUser, ProbeCandidate, OpenRead, Rename, Backoff,
      Cleanup, ThrownOutsideTry, ThrownInTry, ThrownInCopy, ThrownInCleanup, Thrown, At

\* ... and neither the local variables nor the item of another task.
LEMMA TaskFrame ==
  ASSUME TypeInv, NEW f \in Files, FileStep(f), NEW g \in Files \ {f}
  PROVE  /\ pc'[g] = pc[g] /\ state'[g] = state[g] /\ target'[g] = target[g]
         /\ offset'[g] = offset[g] /\ raised'[g] = raised[g]
<1> USE DEF TypeInv, TypeOK, Goto, Mark
<1>1. CASE Acquire(f)
  BY <1>1 DEF Acquire, attemptVars, copyVars
<1>2. CASE StatDestination(f) \/ AskUser(f) \/ ProbeCandidate(f)
  BY <1>2 DEF StatDestination, AskUser, ProbeCandidate, Resolve, Begin, TryAttempt, Skip, Probe,
              Die, copyVars
<1>3. CASE OpenRead(f) \/ OpenWrite(f) \/ CopyBlock(f) \/ CloseHandles(f) \/ Rename(f)
  BY <1>3 DEF OpenRead, OpenWrite, CopyBlock, CloseHandles, Rename, Handle, attemptVars, copyVars
<1>4. CASE Backoff(f) \/ Cleanup(f)
  BY <1>4 DEF Backoff, Cleanup, TryAttempt, attemptVars, copyVars
<1>5. CASE ThrownOutsideTry(f) \/ ThrownInTry(f) \/ ThrownInCopy(f) \/ ThrownInCleanup(f)
  BY <1>5 DEF ThrownOutsideTry, ThrownInTry, ThrownInCopy, ThrownInCleanup, Thrown, Handle, attemptVars
<1> QED BY <1>1, <1>2, <1>3, <1>4, <1>5 DEF FileStep

\* The facts of a task's own steps that do not touch the disk's contents.
LEMMA OwnTarget ==
  ASSUME TypeInv, CopyInv, NEW f \in Files, FileStep(f)
  PROVE  target'[f] \in Targets(f)
<1>1. target[f] \in Targets(f) /\ target \in [Files -> Paths]
  BY DEF CopyInv, CopyInvOf, TypeInv, TypeOK
<1>2. \A p : Begin(f, p) => target'[f] = p
  BY <1>1 DEF Begin
<1>3. CASE StatDestination(f) \/ AskUser(f)
  BY <1>1, <1>2, <1>3 DEF StatDestination, AskUser, Resolve, Skip, Probe, Die, Targets
<1>4. CASE ProbeCandidate(f)
  <2>1. tried[f] \in 1..MaxRename
    BY DEF TypeInv, TypeOK
  <2> QED BY <1>1, <1>2, <1>4, <2>1 DEF ProbeCandidate, Die, Targets
<1>5. CASE target' = target
  BY <1>1, <1>5
<1> QED
  BY <1>3, <1>4, <1>5
  DEF FileStep, Acquire, OpenRead, OpenWrite, CopyBlock, CloseHandles, Rename, Backoff, Cleanup,
      ThrownOutsideTry, ThrownInTry, ThrownInCopy, ThrownInCleanup, Thrown, attemptVars

\* The outcome of a task's own step: where it waits next and what its item shows.
LEMMA HandleOutcome ==
  ASSUME TypeInv, NEW f \in Files, NEW e, Handle(f, e)
  PROVE  \/ pc'[f] = "backoff" /\ state'[f] = state[f]
         \/ pc'[f] = "cleanup" /\ state'[f] \in {"cancelled", "failed"}
BY DEF Handle, Goto, Mark, TypeInv, TypeOK

LEMMA TryAttemptOutcome ==
  ASSUME TypeInv, NEW f \in Files, TryAttempt(f)
  PROVE  \/ pc'[f] = "openRead" /\ state'[f] = "running"
         \/ pc'[f] = "cleanup" /\ state'[f] = "cancelled"
BY DEF TryAttempt, Goto, Mark, TypeInv, TypeOK

\* A task's own step, for the steps after which it is not copying.
LEMMA QuietStep ==
  ASSUME TypeInv, CopyInv, NEW f \in Files, FileStep(f),
         pc'[f] \notin {"copy", "closing", "rename"}, state'[f] # "done",
         pc'[f] \in Calls \ {"cleanup"} => state'[f] \in {"queued", "running"}
  PROVE  CopyInvOf(f)'
BY OwnTarget DEF CopyInvOf, Targets

LEMMA OwnCopy ==
  ASSUME TypeInv, CopyInv, NEW f \in Files, FileStep(f)
  PROVE  CopyInvOf(f)'
<1> USE DEF Goto, Mark
<1>t. /\ pc \in [Files -> Ended \cup Calls] /\ state \in [Files -> States]
      /\ target \in [Files -> Paths] /\ target[f] \in Paths
      /\ raised \in [Files -> Faults \cup {"none", "interrupt"}]
      /\ offset \in [Files -> Nat] /\ offset[f] \in Nat /\ Size[f] \in Nat
      /\ partial \in [Paths -> Content \cup {NoFile}]
      /\ final \in [Paths -> Content \cup {NoFile}]
      /\ writer \in [Files -> Places]
  BY DEF TypeInv, TypeOK, Places
<1>c. CopyInvOf(f)
  BY DEF CopyInv
<1>n. state[f] = "done" => pc[f] = "end"
  BY <1>c DEF CopyInvOf
<1>o. pc[f] \in Calls \ {"cleanup"} => state[f] \in {"queued", "running"}
  BY <1>c DEF CopyInvOf
<1>1. CASE Acquire(f)
  <2>1. \/ pc'[f] = "end" /\ state'[f] = "cancelled"
        \/ pc'[f] = "stat" /\ state'[f] = state[f] /\ state[f] \in {"queued", "running"}
    BY <1>1, <1>t, <1>o DEF Acquire, At, Calls
  <2> QED BY <2>1, QuietStep DEF Calls
<1>2. CASE StatDestination(f) \/ AskUser(f) \/ ProbeCandidate(f)
  <2>1. pc[f] \in {"stat", "ask", "probe"} /\ state[f] \in {"queued", "running"}
    BY <1>2, <1>o DEF StatDestination, AskUser, ProbeCandidate, At, Calls
  <2>2. \/ TryAttempt(f)
        \/ pc'[f] \in {"end", "dead"} /\ state'[f] \in {state[f], "skipped"}
        \/ pc'[f] \in {"ask", "probe"} /\ state'[f] = state[f]
    BY <1>2, <1>t, <2>1
    DEF StatDestination, AskUser, ProbeCandidate, Resolve, Begin, Skip, Probe, Die, At
  <2>3. \/ pc'[f] \in {"openRead", "ask", "probe"} /\ state'[f] \in {"queued", "running"}
        \/ pc'[f] \in {"cleanup", "end", "dead"} /\ state'[f] # "done"
    BY <2>1, <2>2, TryAttemptOutcome
  <2> QED BY <2>3, QuietStep DEF Calls, Ended
<1>3. ASSUME NEW e, Handle(f, e), state[f] \in {"queued", "running"} PROVE CopyInvOf(f)'
  <2>1. \/ pc'[f] = "backoff" /\ state'[f] \in {"queued", "running"}
        \/ pc'[f] = "cleanup" /\ state'[f] \in {"cancelled", "failed"}
    BY <1>3, HandleOutcome
  <2> QED BY <2>1, QuietStep DEF Calls
<1>4. CASE OpenRead(f)
  <2>1. state[f] \in {"queued", "running"}
    BY <1>4, <1>o DEF OpenRead, At, Calls
  <2>2. CASE Goto(f, "openWrite") /\ UNCHANGED state
    <3>1. pc'[f] = "openWrite" /\ state'[f] = state[f]
      BY <1>t, <2>2
    <3> QED BY <2>1, <3>1, QuietStep
  <2> QED BY <1>3, <1>4, <2>1, <2>2 DEF OpenRead
<1>5. CASE OpenWrite(f)
  <2>1. state[f] \in {"queued", "running"}
    BY <1>5, <1>o DEF OpenWrite, At, Calls
  <2>2. CASE /\ OpenPartial(target[f])
             /\ writer' = [writer EXCEPT ![f] = PartialOf(target[f])]
             /\ offset' = [offset EXCEPT ![f] = 0]
             /\ Goto(f, "copy") /\ UNCHANGED state
    <3>1. /\ pc'[f] = "copy" /\ state'[f] = state[f] /\ offset'[f] = 0
          /\ writer'[f] = PartialOf(target[f]) /\ partial'[target[f]] = <<>>
      BY <1>t, <2>2 DEF OpenPartial
    <3>2. target'[f] = target[f]
      BY <1>5 DEF OpenWrite, attemptVars
    <3>3. <<>> = [k \in 1..0 |-> f]
      OBVIOUS
    <3>4. offset'[f] <= Size[f] /\ partial'[target'[f]] = [k \in 1..offset'[f] |-> f]
      BY <1>t, <3>1, <3>2, <3>3
    <3>5. writer'[f] = PartialOf(target'[f])
      BY <3>1, <3>2
    <3> QED BY <2>1, <3>1, <3>4, <3>5, OwnTarget DEF CopyInvOf, Targets, PartialOf
  <2> QED BY <1>3, <1>5, <2>1, <2>2 DEF OpenWrite
<1>6. CASE CopyBlock(f)
  <2>1. pc[f] = "copy" /\ state[f] \in {"queued", "running"} /\ state'[f] = state[f]
        /\ target'[f] = target[f] /\ writer' = writer
    BY <1>6, <1>o DEF CopyBlock, At, Calls, attemptVars
  <2>2. /\ writer[f] = PartialOf(target[f]) /\ offset[f] <= Size[f]
        /\ partial[target[f]] = [k \in 1..offset[f] |-> f]
    BY <1>c, <2>1 DEF CopyInvOf
  <2>3. CASE /\ offset[f] < Size[f]
             /\ WriteBlock(f)
             /\ offset' = [offset EXCEPT ![f] = @ + 1]
             /\ UNCHANGED <<pc, raised>>
    <3>1. writer[f].at = "partial" /\ writer[f].path = target[f]
      BY <2>2 DEF PartialOf
    <3>2. partial'[target[f]] = Written(partial[target[f]], offset[f] + 1, f)
      BY <1>t, <2>3, <3>1 DEF WriteBlock
    <3>3. partial'[target[f]] = [k \in 1..(offset[f] + 1) |-> f]
      BY <1>t, <2>2, <3>2, CopyGrows
    <3>4. offset'[f] = offset[f] + 1 /\ offset'[f] <= Size[f] /\ pc'[f] = "copy"
      BY <1>t, <2>1, <2>3
    <3> QED BY <2>1, <2>2, <3>3, <3>4, OwnTarget DEF CopyInvOf, Targets, PartialOf
  <2>4. CASE /\ \/ offset[f] = Size[f] /\ UNCHANGED raised
                \/ \E e \in Faults : raised' = [raised EXCEPT ![f] = e]
             /\ Goto(f, "closing")
             /\ UNCHANGED <<partial, final, offset>>
    <3>1. pc'[f] = "closing"
      BY <1>t, <2>4
    <3>2. raised'[f] = "none" => offset[f] = Size[f]
      BY <1>t, <2>4 DEF Faults
    <3>3. partial'[target[f]] = [k \in 1..offset[f] |-> f]
      BY <2>2, <2>4
    <3> QED BY <2>1, <3>1, <3>2, <3>3, OwnTarget DEF CopyInvOf, Targets, Complete
  <2> QED BY <1>6, <2>3, <2>4 DEF CopyBlock
<1>7. CASE CloseHandles(f)
  <2>1. pc[f] = "closing" /\ state[f] \in {"queued", "running"}
    BY <1>7, <1>o DEF CloseHandles, At, Calls
  <2>2. CASE raised[f] = "none" /\ Goto(f, "rename") /\ UNCHANGED state
    <3>1. pc'[f] = "rename" /\ state'[f] = state[f]
      BY <1>t, <2>2
    <3>2. partial[target[f]] = Complete(f)
      BY <1>c, <2>1, <2>2 DEF CopyInvOf
    <3>3. partial' = partial /\ target'[f] = target[f]
      BY <1>7 DEF CloseHandles, attemptVars
    <3> QED BY <2>1, <3>1, <3>2, <3>3, OwnTarget DEF CopyInvOf, Targets, Complete
  <2> QED BY <1>3, <1>7, <2>1, <2>2 DEF CloseHandles
<1>8. CASE Rename(f)
  <2>1. pc[f] = "rename" /\ state[f] \in {"queued", "running"} /\ target'[f] = target[f]
    BY <1>8, <1>o DEF Rename, At, Calls, attemptVars
  <2>2. CASE RenamePartial(target[f]) /\ Mark(f, "done") /\ Goto(f, "end")
    <3>1. pc'[f] = "end" /\ state'[f] = "done"
      BY <1>t, <2>2
    <3>2. final'[target[f]] = Complete(f)
      BY <1>c, <1>t, <2>1, <2>2 DEF CopyInvOf, RenamePartial
    <3> QED BY <2>1, <3>1, <3>2, OwnTarget DEF CopyInvOf, Targets, Complete, Calls
  <2> QED BY <1>3, <1>8, <2>1, <2>2 DEF Rename
<1>9. CASE Backoff(f)
  <2>1. TryAttempt(f)
    BY <1>9 DEF Backoff
  <2> QED BY <2>1, TryAttemptOutcome, QuietStep DEF Calls
<1>10. CASE Cleanup(f) \/ ThrownOutsideTry(f) \/ ThrownInCleanup(f)
  <2>1. pc'[f] \in Ended /\ state'[f] = state[f] /\ pc[f] \in Calls
    BY <1>10, <1>t DEF Cleanup, ThrownOutsideTry, ThrownInCleanup, Thrown, At, Ended, Calls
  <2>2. state'[f] # "done"
    BY <1>n, <2>1 DEF Calls
  <2> QED BY <2>1, <2>2, QuietStep DEF Ended, Calls
<1>11. CASE ThrownInTry(f)
  <2>1. state[f] \in {"queued", "running"}
    BY <1>11, <1>o DEF ThrownInTry, Thrown, Calls
  <2> QED BY <1>3, <1>11, <2>1 DEF ThrownInTry
<1>12. CASE ThrownInCopy(f)
  <2>1. pc'[f] = "closing" /\ state'[f] = state[f] /\ raised'[f] = "interrupt" /\ pc[f] = "copy"
    BY <1>12, <1>t DEF ThrownInCopy, Thrown
  <2> QED BY <1>o, <2>1, OwnTarget DEF CopyInvOf, Targets, Calls
<1> QED
  BY <1>1, <1>2, <1>4, <1>5, <1>6, <1>7, <1>8, <1>9, <1>10, <1>11, <1>12 DEF FileStep

\* The steps of the other tasks leave the copy alone.
LEMMA OthersKeepCopy ==
  ASSUME SeparateNames, TypeInv, CopyInv, NEW f \in Files, FileStep(f), NEW g \in Files \ {f}
  PROVE  CopyInvOf(g)'
<1>1. CopyInvOf(g) /\ target[g] \in Targets(g) /\ target[f] \in Targets(f)
  BY DEF CopyInv, CopyInvOf
<1>2. target[g] # target[f] /\ target[g] \in Paths
  BY <1>1 DEF SeparateNames, TypeInv, TypeOK
<1>3. /\ pc'[g] = pc[g] /\ state'[g] = state[g] /\ target'[g] = target[g]
      /\ offset'[g] = offset[g] /\ raised'[g] = raised[g]
  BY TaskFrame
<1>4. partial'[target[g]] = partial[target[g]] /\ final'[target[g]] = final[target[g]]
  BY <1>2, DiskFrame
<1>5. pc[g] = "copy" => writer'[g] = writer[g]
  <2>1. pc[g] = "copy" => writer[g].path = target[g]
    BY <1>1 DEF CopyInvOf, PartialOf
  <2> QED BY <1>2, <2>1, DiskFrame
<1> QED BY <1>1, <1>3, <1>4, <1>5 DEF CopyInvOf, PartialOf, Complete, Targets

LEMMA CopyInvStep ==
  ASSUME SeparateNames, TypeInv, CopyInv, [Next]_vars
  PROVE  CopyInv'
<1>1. ASSUME NEW f \in Files, FileStep(f) PROVE CopyInv'
  BY <1>1, OwnCopy, OthersKeepCopy DEF CopyInv
<1>2. CASE RunStep \/ Cancel \/ Interrupt \/ Finished \/ UNCHANGED vars
  <2>1. UNCHANGED <<pc, state, bytes, attemptVars, copyVars, disk>>
    BY <1>2 DEF RunStep, MakeDirectory, StartFiles, Return, Cancel, Interrupt, Finished, vars
  <2> QED
    BY <2>1 DEF CopyInv, CopyInvOf, PartialOf, Complete, Targets, attemptVars, copyVars, disk
<1> QED BY <1>1, <1>2 DEF Next

\* What the destination holds under its final names.
LEMMA FinalInvStep ==
  ASSUME TypeInv, CopyInv, NoTruncatedFile, [Next]_vars
  PROVE  NoTruncatedFile'
<1>1. CASE final' = final
  BY <1>1 DEF NoTruncatedFile, InitialContent, Targets, Complete
<1>2. ASSUME NEW f \in Files, FileStep(f), final' # final PROVE NoTruncatedFile'
  <2>1. pc[f] = "rename" /\ final'[target[f]] = partial[target[f]]
    BY <1>2, DiskFrame
  <2>2. target[f] \in Targets(f) /\ final'[target[f]] = Complete(f)
    BY <2>1 DEF CopyInv, CopyInvOf
  <2>3. \A p \in Paths \ {target[f]} : final'[p] = final[p]
    BY <1>2, DiskFrame
  <2>4. ASSUME NEW p \in Paths
        PROVE  \/ final'[p] = InitialContent[p]
               \/ \E g \in Files : p \in Targets(g) /\ final'[p] = Complete(g)
    <3>1. CASE p = target[f]
      BY <2>2, <3>1
    <3>2. CASE p # target[f]
      BY <2>3, <3>2 DEF NoTruncatedFile
    <3> QED BY <3>1, <3>2
  <2> QED BY <2>4 DEF NoTruncatedFile, InitialContent, Targets, Complete
<1> QED
  BY <1>1, <1>2
  DEF Next, RunStep, MakeDirectory, StartFiles, Return, Cancel, Interrupt, Finished, vars, disk

LEMMA CopyInvariant ==
  ASSUME SeparateNames
  PROVE  Spec => [](TypeInv /\ CopyInv /\ NoTruncatedFile)
<1>1. Init => CopyInv /\ NoTruncatedFile
  BY DEF Init, CopyInv, CopyInvOf, NoTruncatedFile, Targets, Calls
<1>2. CopyInv /\ NoTruncatedFile /\ TypeInv /\ [Next]_vars => (CopyInv /\ NoTruncatedFile)'
  BY CopyInvStep, FinalInvStep
<1> QED BY <1>1, <1>2, TypeInvariant, PTL DEF Spec

\* A name at the destination holds its old content or a complete copy of a
\* file that may have it, for every job whose names are separate, whatever
\* fails and whenever it is cancelled (_copy_file, _copy_once).
THEOREM DestinationIntact ==
  ASSUME SeparateNames
  PROVE  Spec => []NoTruncatedFile
BY CopyInvariant, PTL

\* What is reported DONE is at the destination and stays there.
THEOREM DoneIsDelivered ==
  ASSUME SeparateNames
  PROVE  Spec => []DoneMeansDelivered
<1>1. CopyInv => DoneMeansDelivered
  BY DEF CopyInv, CopyInvOf, DoneMeansDelivered
<1> QED BY <1>1, CopyInvariant, PTL

----------------------------------------------------------------------------
(* The engine implements AtomicCopy: every step leaves the destination and   *)
(* the outcomes alone, delivers one complete file or gives one up.           *)

\* A task's step reports nothing about the other files, and settles its own at
\* most once.
LEMMA OutcomeFrame ==
  ASSUME TypeInv, CopyInv, NEW f \in Files, FileStep(f)
  PROVE  \/ Outcome' = Outcome
         \/ /\ Outcome[f] = "open"
            /\ Outcome' = [Outcome EXCEPT ![f] = "notDone"]
         \/ /\ Outcome[f] = "open" /\ pc[f] = "rename"
            /\ final'[target[f]] = partial[target[f]]
            /\ Outcome' = [Outcome EXCEPT ![f] = "done"]
<1> DEFINE result(s) == IF s \in {"queued", "running"} THEN "open"
                        ELSE IF s = "done" THEN "done" ELSE "notDone"
<1>1. /\ Outcome = [g \in Files |-> result(state[g])]
      /\ Outcome' = [g \in Files |-> result(state'[g])]
  BY DEF Outcome
<1>2. \A g \in Files \ {f} : state'[g] = state[g]
  BY TaskFrame
<1>3. Outcome' = [Outcome EXCEPT ![f] = result(state'[f])]
  <2> HIDE DEF result
  <2> QED BY <1>1, <1>2
<1>t. state \in [Files -> States] /\ pc \in [Files -> Ended \cup Calls]
  BY DEF TypeInv, TypeOK
<1>4. \/ state'[f] = state[f]
      \/ state[f] \in {"queued", "running"}
         /\ state'[f] \in {"queued", "running", "failed", "skipped", "cancelled"}
      \/ /\ state[f] \in {"queued", "running"} /\ state'[f] = "done" /\ pc[f] = "rename"
         /\ final'[target[f]] = partial[target[f]]
  <2> USE DEF Goto, Mark
  <2>1. pc[f] \in Calls \ {"cleanup"} => state[f] \in {"queued", "running"}
    BY DEF CopyInv, CopyInvOf
  <2>2. ASSUME NEW e, Handle(f, e)
        PROVE  state'[f] \in {state[f], "cancelled", "failed"}
    BY <1>t, <2>2 DEF Handle
  <2>3. CASE Acquire(f)
    BY <1>t, <2>1, <2>3 DEF Acquire, At, Calls
  <2>4. CASE StatDestination(f) \/ AskUser(f) \/ ProbeCandidate(f) \/ Backoff(f)
    BY <1>t, <2>1, <2>4
    DEF StatDestination, AskUser, ProbeCandidate, Backoff, Resolve, Begin, TryAttempt, Skip, Probe,
        Die, At, Calls
  <2>5. CASE OpenRead(f) \/ OpenWrite(f) \/ CopyBlock(f) \/ CloseHandles(f)
    <3>1. state[f] \in {"queued", "running"}
      BY <2>1, <2>5 DEF OpenRead, OpenWrite, CopyBlock, CloseHandles, At, Calls
    <3>2. state'[f] \in {state[f], "cancelled", "failed"}
      BY <2>2, <2>5 DEF OpenRead, OpenWrite, CopyBlock, CloseHandles
    <3> QED BY <3>1, <3>2
  <2>6. CASE Rename(f)
    <3>1. pc[f] = "rename" /\ state[f] \in {"queued", "running"}
      BY <2>1, <2>6 DEF Rename, At, Calls
    <3>2. CASE RenamePartial(target[f]) /\ Mark(f, "done")
      BY <1>t, <3>1, <3>2 DEF RenamePartial, TypeInv, TypeOK
    <3> QED BY <2>2, <2>6, <3>1, <3>2 DEF Rename
  <2>7. CASE Cleanup(f) \/ ThrownOutsideTry(f) \/ ThrownInCopy(f) \/ ThrownInCleanup(f)
    BY <2>7 DEF Cleanup, ThrownOutsideTry, ThrownInCopy, ThrownInCleanup
  <2>8. CASE ThrownInTry(f)
    <3>1. state[f] \in {"queued", "running"}
      BY <2>1, <2>8 DEF ThrownInTry, Thrown, Calls
    <3>2. state'[f] \in {state[f], "cancelled", "failed"}
      BY <2>2, <2>8 DEF ThrownInTry
    <3> QED BY <3>1, <3>2
  <2> QED BY <2>3, <2>4, <2>5, <2>6, <2>7, <2>8 DEF FileStep
<1>5. Outcome[f] = result(state[f])
  BY <1>1
<1>6. CASE result(state'[f]) = result(state[f])
  <2> HIDE DEF result
  <2>1. Outcome' = Outcome
    BY <1>1, <1>2, <1>6
  <2> QED BY <2>1
<1> QED BY <1>3, <1>4, <1>5, <1>6

\* AtomicCopy's data are the engine's.
LEMMA AtomicData ==
  /\ Atomic!Files = Files /\ Atomic!InitialContent = InitialContent
  /\ \A f \in Files : Atomic!Targets(f) = Targets(f) /\ Atomic!Complete(f) = Complete(f)
BY DEF Atomic!Files, Files, Atomic!InitialContent, InitialContent, Atomic!Targets, Targets,
       Atomic!Complete, Complete, Atomic!Old, Old

LEMMA AtomicStep ==
  ASSUME TypeInv, CopyInv, [Next]_vars
  PROVE  [Atomic!Next]_<<final, Outcome>>
<1>1. ASSUME NEW f \in Files, FileStep(f) PROVE [Atomic!Next]_<<final, Outcome>>
  <2>1. CASE final' = final /\ Outcome' = Outcome
    BY <2>1
  <2>2. CASE final' = final /\ Outcome' = [Outcome EXCEPT ![f] = "notDone"] /\ Outcome[f] = "open"
    BY <2>2, AtomicData DEF Atomic!Next, Atomic!GiveUp
  <2>3. ASSUME pc[f] = "rename", final'[target[f]] = partial[target[f]]
        PROVE  [Atomic!Next]_<<final, Outcome>>
    <3>1. target[f] \in Targets(f) /\ final'[target[f]] = Complete(f)
      BY <2>3 DEF CopyInv, CopyInvOf
    <3>2. final' = [final EXCEPT ![target[f]] = Complete(f)]
      <4>1. final' \in [Paths -> Content \cup {NoFile}]
        BY <1>1, FileStepTyped DEF TypeOK
      <4>2. \A p \in Paths \ {target[f]} : final'[p] = final[p]
        BY <1>1, DiskFrame
      <4> QED BY <3>1, <4>1, <4>2 DEF TypeInv, TypeOK
    <3>3. Outcome[f] = "open"
      BY <2>3 DEF Outcome, CopyInv, CopyInvOf, Calls
    <3>4. Outcome' \in {Outcome, [Outcome EXCEPT ![f] = "done"], [Outcome EXCEPT ![f] = "notDone"]}
      BY <1>1, OutcomeFrame
    <3> QED BY <3>1, <3>2, <3>3, <3>4, AtomicData DEF Atomic!Next, Atomic!Deliver
  <2> QED BY <1>1, <2>1, <2>2, <2>3, DiskFrame, OutcomeFrame
<1>2. CASE RunStep \/ Cancel \/ Interrupt \/ Finished \/ UNCHANGED vars
  BY <1>2
  DEF RunStep, MakeDirectory, StartFiles, Return, Cancel, Interrupt, Finished, vars, disk, Outcome
<1> QED BY <1>1, <1>2 DEF Next

\* The destination changes as AtomicCopy says, for every job whose names are
\* separate: one complete file at a time, never for a file already reported.
THEOREM EngineIsAtomic ==
  ASSUME SeparateNames
  PROVE  Spec => ImplementsAtomicCopy
<1>1. Init => Atomic!Init
  BY AtomicData DEF Init, Outcome, Atomic!Init
<1>2. TypeInv /\ CopyInv /\ [Next]_vars => [Atomic!Next]_<<final, Outcome>>
  BY AtomicStep
<1> QED
  BY <1>1, <1>2, CopyInvariant, PTL DEF Spec, ImplementsAtomicCopy, Atomic!Spec, Atomic!avars

----------------------------------------------------------------------------
(* Partial files.  Until the worker is cancelled, every partial file at the *)
(* destination belongs to a task that has yet to rename or remove it, or to *)
(* one that could not.                                                      *)

Attempting == {"openRead", "openWrite", "copy", "closing", "rename", "backoff", "cleanup", "dirty"}

LeftInv ==
  /\ toCancel # {} => phase \in {"unwinding", "aborted"}
  /\ phase = "returned" => \A f \in Files : pc[f] \in Ended
  /\ phase \in {"dirs", "files", "returned"} =>
       \A p \in Paths : partial[p] # NoFile =>
         \E f \in Files : target[f] = p /\ pc[f] \in Attempting

\* A step of a task creates no partial file but its own, and leaves none behind.
LEMMA LeftFrame ==
  ASSUME TypeInv, NEW f \in Files, FileStep(f), toCancel = {}
  PROVE  /\ \A p \in Paths \ {target[f]} : partial'[p] # NoFile => partial[p] # NoFile
         /\ pc[f] \notin Attempting => partial' = partial
         /\ pc[f] \in Attempting => /\ target'[f] = target[f]
                                    /\ pc'[f] \in Attempting \/ partial'[target[f]] = NoFile
<1> USE DEF TypeInv, TypeOK, Attempting
<1>1. target[f] \in Paths
  OBVIOUS
<1>2. ASSUME NEW e, Handle(f, e) PROVE pc'[f] \in Attempting
  BY <1>2 DEF Handle, Goto
<1>3. CASE Acquire(f) \/ StatDestination(f) \/ AskUser(f) \/ ProbeCandidate(f)
  BY <1>3 DEF Acquire, StatDestination, AskUser, ProbeCandidate, At, disk
<1>4. CASE OpenRead(f)
  BY <1>2, <1>4 DEF OpenRead, Goto, attemptVars, disk
<1>5. CASE OpenWrite(f)
  <2>1. pc'[f] \in Attempting /\ pc[f] \in Attempting /\ target' = target
    BY <1>2, <1>5 DEF OpenWrite, Goto, At, attemptVars
  <2>2. \A p \in Paths \ {target[f]} : partial'[p] = partial[p]
    BY <1>5 DEF OpenWrite, OpenPartial
  <2> QED BY <2>1, <2>2
<1>6. CASE CopyBlock(f)
  <2>1. pc'[f] \in Attempting /\ pc[f] \in Attempting /\ target' = target
    BY <1>6 DEF CopyBlock, Goto, At, attemptVars
  <2>2. \A p \in Paths : partial'[p] # NoFile => partial[p] # NoFile
    BY <1>6 DEF CopyBlock, WriteBlock, HandlesAttached
  <2> QED BY <2>1, <2>2
<1>7. CASE CloseHandles(f)
  BY <1>2, <1>7 DEF CloseHandles, Goto, At, attemptVars
<1>8. CASE Rename(f)
  <2>1. target' = target /\ pc[f] \in Attempting
    BY <1>8 DEF Rename, At, attemptVars
  <2>2. CASE RenamePartial(target[f])
    BY <1>1, <2>1, <2>2 DEF RenamePartial
  <2>3. CASE UNCHANGED disk /\ \E e \in Faults : Handle(f, e)
    BY <1>2, <2>1, <2>3 DEF disk
  <2> QED BY <1>8, <2>2, <2>3 DEF Rename
<1>9. CASE Backoff(f)
  BY <1>9 DEF Backoff, TryAttempt, Goto, At, disk
<1>10. CASE Cleanup(f)
  BY <1>1, <1>10 DEF Cleanup, RemovePartial, Goto, At, attemptVars, disk
<1>11. CASE ThrownOutsideTry(f) \/ ThrownInTry(f) \/ ThrownInCopy(f) \/ ThrownInCleanup(f)
  BY <1>11 DEF ThrownOutsideTry, ThrownInTry, ThrownInCopy, ThrownInCleanup, Thrown
<1> QED
  BY <1>3, <1>4, <1>5, <1>6, <1>7, <1>8, <1>9, <1>10, <1>11 DEF FileStep

LEMMA LeftNext == TypeInv /\ LeftInv /\ [Next]_vars => LeftInv'
<1> SUFFICES ASSUME TypeInv, LeftInv, [Next]_vars PROVE LeftInv'
  OBVIOUS
<1>1. ASSUME NEW f \in Files, FileStep(f) PROVE LeftInv'
  <2>1. phase \in {"files", "unwinding"} \/ toCancel # {}
    BY <1>1
    DEF FileStep, Acquire, StatDestination, AskUser, ProbeCandidate, OpenRead, OpenWrite, CopyBlock,
        CloseHandles, Rename, Backoff, Cleanup, ThrownOutsideTry, ThrownInTry, ThrownInCopy,
        ThrownInCleanup, Thrown, At, run
  <2>2. phase' = phase /\ toCancel' \subseteq toCancel
    BY <1>1
    DEF FileStep, Acquire, StatDestination, AskUser, ProbeCandidate, OpenRead, OpenWrite, CopyBlock,
        CloseHandles, Rename, Backoff, Cleanup, ThrownOutsideTry, ThrownInTry, ThrownInCopy,
        ThrownInCleanup, Thrown, At, run
  <2>3. CASE phase \in {"unwinding", "aborted"}
    BY <2>2, <2>3 DEF LeftInv
  <2>4. CASE phase \notin {"unwinding", "aborted"}
    <3>1. toCancel = {} /\ phase = "files"
      BY <2>1, <2>4 DEF LeftInv
    <3>2. \A g \in Files \ {f} : pc'[g] = pc[g] /\ target'[g] = target[g]
      BY <1>1, TaskFrame
    <3>3. ASSUME NEW p \in Paths, partial'[p] # NoFile
          PROVE  \E g \in Files : target'[g] = p /\ pc'[g] \in Attempting
      <4>1. ASSUME partial[p] # NoFile, p # target[f] \/ pc[f] \notin Attempting
            PROVE  \E g \in Files : target'[g] = p /\ pc'[g] \in Attempting
        <5>1. PICK g \in Files : target[g] = p /\ pc[g] \in Attempting
          BY <3>1, <4>1 DEF LeftInv
        <5> QED BY <3>2, <4>1, <5>1
      <4>2. CASE p # target[f] \/ pc[f] \notin Attempting
        BY <1>1, <3>1, <3>3, <4>1, <4>2, LeftFrame
      <4>3. CASE p = target[f] /\ pc[f] \in Attempting
        BY <1>1, <3>1, <3>3, <4>3, LeftFrame
      <4> QED BY <4>2, <4>3
    <3> QED BY <2>2, <3>1, <3>3 DEF LeftInv
  <2> QED BY <2>3, <2>4
<1>2. CASE RunStep \/ Cancel \/ Interrupt \/ Finished \/ UNCHANGED vars
  <2>1. UNCHANGED <<pc, target, partial>>
    BY <1>2 DEF RunStep, MakeDirectory, StartFiles, Return, Cancel, Interrupt, Finished, vars, run,
                attemptVars, disk
  <2>2. \/ toCancel' = toCancel /\ phase' = phase
        \/ toCancel' = toCancel /\ phase \in {"dirs", "files"} /\ phase' \in {"files", "aborted"}
        \/ phase' \in {"unwinding", "aborted"}
        \/ /\ toCancel' = toCancel /\ phase = "files" /\ phase' = "returned"
           /\ \A f \in Files : pc[f] \in Ended
    BY <1>2 DEF RunStep, MakeDirectory, StartFiles, Return, Cancel, Interrupt, Finished, vars, run
  <2> QED BY <2>1, <2>2 DEF LeftInv
<1> QED BY <1>1, <1>2 DEF Next

\* When run() returns, the only partial files left are those whose removal
\* failed, for every job, names that clash included (_copy_file).
THEOREM PartialFilesAreRemoved == Spec => []NoLeftoverPartial
<1>1. Init => LeftInv
  BY DEF Init, LeftInv
<1>2. LeftInv => NoLeftoverPartial
  BY DEF LeftInv, NoLeftoverPartial, Attempting, Ended
<1> QED BY <1>1, <1>2, LeftNext, TypeInvariant, PTL DEF Spec

----------------------------------------------------------------------------
(* The result of run(): every item is left in one of the states it counts. *)

Settled == {"done", "failed", "skipped", "cancelled"}

\* Where the task of f is and what its item shows.
ItemInv(f) ==
  /\ pc[f] \in {"waiting", "stat", "ask", "probe"} => state[f] = "queued"
  /\ pc[f] \in {"cleanup", "dirty"} => state[f] \in {"failed", "cancelled"}
  /\ pc[f] = "end" => state[f] \in Settled
  /\ pc[f] = "dead" /\ phase \in {"dirs", "files", "returned"} => state[f] = "queued"

\* A run that returns was not interrupted, has been through the directories and has
\* waited for every task.
CountInv ==
  /\ \A f \in Files : ItemInv(f)
  /\ \A d \in Dirs : d < nextDir => dirState[d] \in Settled
  /\ phase \in {"dirs", "files", "returned"} => toCancel = {}
  /\ phase \in {"files", "returned"} => nextDir > NumDirs
  /\ phase = "returned" => \A f \in Files : pc[f] \in Ended

\* A step of a task leaves its own item in order.
LEMMA OwnItem ==
  ASSUME TypeInv, CountInv, NEW f \in Files, FileStep(f)
  PROVE  ItemInv(f)'
<1> USE DEF Goto, Mark
<1>0. ItemInv(f) /\ pc \in [Files -> Ended \cup Calls] /\ state \in [Files -> States]
  BY DEF CountInv, TypeInv, TypeOK
<1>1. ASSUME TryAttempt(f) PROVE ItemInv(f)'
  BY <1>0, <1>1, TryAttemptOutcome DEF ItemInv
<1>2. ASSUME NEW e, Handle(f, e), state[f] = "running" \/ pc[f] \in Calls PROVE ItemInv(f)'
  BY <1>0, <1>2, HandleOutcome DEF ItemInv
<1>3. ASSUME NEW choice, Resolve(f, choice), pc[f] \in {"stat", "ask"} PROVE ItemInv(f)'
  BY <1>0, <1>1, <1>3 DEF Resolve, Begin, Skip, Probe, ItemInv, Settled
<1>4. CASE Acquire(f)
  BY <1>0, <1>4 DEF Acquire, At, ItemInv, Settled
<1>5. CASE StatDestination(f)
  BY <1>0, <1>1, <1>3, <1>5 DEF StatDestination, At, Begin, Skip, Die, ItemInv, Settled, run
<1>6. CASE AskUser(f)
  BY <1>0, <1>3, <1>6 DEF AskUser, At, Die, ItemInv, run
<1>7. CASE ProbeCandidate(f)
  BY <1>0, <1>1, <1>7 DEF ProbeCandidate, At, Begin, Die, ItemInv, run
<1>8. CASE OpenRead(f) \/ OpenWrite(f) \/ Rename(f)
  BY <1>0, <1>2, <1>8 DEF OpenRead, OpenWrite, Rename, At, ItemInv, Settled, run, Calls
<1>9. CASE CopyBlock(f) \/ CloseHandles(f)
  BY <1>0, <1>2, <1>9 DEF CopyBlock, CloseHandles, At, ItemInv, run, Calls
<1>10. CASE Backoff(f)
  BY <1>0, <1>1, <1>10 DEF Backoff
<1>11. CASE Cleanup(f)
  BY <1>0, <1>11 DEF Cleanup, At, ItemInv, Settled, run
<1>12. CASE ThrownOutsideTry(f) \/ ThrownInCleanup(f) \/ ThrownInCopy(f)
  BY <1>0, <1>12 DEF ThrownOutsideTry, ThrownInCleanup, ThrownInCopy, Thrown, ItemInv, CountInv
<1>13. CASE ThrownInTry(f)
  BY <1>0, <1>2, <1>13 DEF ThrownInTry, Thrown, Calls
<1> QED
  BY <1>4, <1>5, <1>6, <1>7, <1>8, <1>9, <1>10, <1>11, <1>12, <1>13 DEF FileStep

\* The steps of a task change nothing of run() but the pending interruptions.
LEMMA RunFrame ==
  ASSUME NEW f \in Files, FileStep(f)
  PROVE  /\ UNCHANGED <<phase, nextDir, dirState>>
         /\ phase \in {"files", "unwinding"} \/ toCancel # {}
         /\ toCancel' \subseteq toCancel
BY DEF FileStep, At, Acquire, StatDestination, AskUser, ProbeCandidate, OpenRead, OpenWrite,
       CopyBlock, CloseHandles, Rename, Backoff, Cleanup, ThrownOutsideTry, ThrownInTry,
       ThrownInCopy, ThrownInCleanup, Thrown, run

LEMMA CountNext == TypeInv /\ CountInv /\ [Next]_vars => CountInv'
<1> SUFFICES ASSUME TypeInv, CountInv, [Next]_vars PROVE CountInv'
  OBVIOUS
<1>1. ASSUME NEW f \in Files, FileStep(f) PROVE CountInv'
  <2>1. /\ UNCHANGED <<phase, nextDir, dirState>> /\ toCancel' \subseteq toCancel
        /\ phase \in {"files", "unwinding"} \/ toCancel # {}
    BY <1>1, RunFrame
  <2>2. ASSUME NEW g \in Files PROVE ItemInv(g)'
    <3>1. CASE g = f
      BY <1>1, <3>1, OwnItem
    <3>2. CASE g # f
      <4>1. pc'[g] = pc[g] /\ state'[g] = state[g] /\ phase' = phase
        BY <1>1, <2>1, <3>2, TaskFrame
      <4> QED BY <4>1 DEF CountInv, ItemInv
    <3> QED BY <3>1, <3>2
  <2>3. phase # "returned"
    BY <2>1 DEF CountInv
  <2> QED
    BY <2>1, <2>2, <2>3 DEF CountInv
<1>2. CASE UNCHANGED vars
  BY <1>2 DEF vars, run, CountInv, ItemInv
<1>3. CASE MakeDirectory
  <2>1. /\ UNCHANGED <<pc, state, toCancel>> /\ phase = "dirs" /\ phase' \in {"dirs", "aborted"}
        /\ nextDir \in 1..(NumDirs + 1) /\ nextDir <= NumDirs /\ dirState \in [Dirs -> States]
    BY <1>3 DEF MakeDirectory, TypeInv, TypeOK
  <2>2. \A d \in Dirs : d < nextDir' => dirState'[d] \in Settled
    <3>1. CASE /\ nextDir' = nextDir + 1
               /\ \E s \in Settled : dirState' = [dirState EXCEPT ![nextDir] = s]
      BY <2>1, <3>1 DEF CountInv, Dirs
    <3>2. CASE nextDir' = nextDir /\ dirState' = [dirState EXCEPT ![nextDir] = "running"]
      BY <2>1, <3>2 DEF CountInv, Dirs
    <3> QED BY <1>3, <3>1, <3>2 DEF MakeDirectory, Settled
  <2> QED
    BY <2>1, <2>2 DEF CountInv, ItemInv
<1>4. CASE StartFiles
  BY <1>4 DEF StartFiles, CountInv, ItemInv
<1>5. CASE Return
  BY <1>5 DEF Return, CountInv, ItemInv
<1>6. CASE Cancel
  BY <1>6 DEF Cancel, CountInv, ItemInv
<1>7. CASE Interrupt
  <2>1. /\ UNCHANGED <<nextDir, pc, state>> /\ phase' \in {"unwinding", "aborted"}
        /\ \/ dirState' = dirState
           \/ dirState' = [dirState EXCEPT ![nextDir] = "running"]
    BY <1>7 DEF Interrupt
  <2>2. \A d \in Dirs : d < nextDir => dirState'[d] \in Settled
    <3>1. /\ nextDir \in Nat /\ dirState \in [Dirs -> States]
          /\ \A d \in Dirs : d \in Nat /\ (d < nextDir => dirState[d] \in Settled)
      BY DEF CountInv, TypeInv, TypeOK, Dirs
    <3> QED BY <2>1, <3>1
  <2> QED
    BY <2>1, <2>2 DEF CountInv, ItemInv
<1>8. CASE Finished
  BY <1>2, <1>8 DEF Finished
<1> QED
  BY <1>1, <1>2, <1>3, <1>4, <1>5, <1>6, <1>7, <1>8 DEF Next, RunStep

\* The cardinality of two finite sets without a common element.
LEMMA DisjointUnion ==
  ASSUME NEW S, NEW T, IsFiniteSet(S), IsFiniteSet(T), S \cap T = {}
  PROVE  /\ IsFiniteSet(S \cup T) /\ Cardinality(S) \in Nat /\ Cardinality(T) \in Nat
         /\ Cardinality(S \cup T) = Cardinality(S) + Cardinality(T)
<1>1. /\ Cardinality(S \cup T) = Cardinality(S) + Cardinality(T) - Cardinality(S \cap T)
      /\ IsFiniteSet(S \cup T)
  BY FS_Union
<1>2. Cardinality(S \cap T) = 0 /\ Cardinality(S) \in Nat /\ Cardinality(T) \in Nat
  BY FS_EmptySet, FS_CardinalityType
<1> QED
  BY <1>1, <1>2

\* How many items of S show the state s.
LeftIn(S, shows, s) == Cardinality({x \in S : shows[x] = s})

\* Items are counted once by the four states they can be left in; those that show
\* another state are counted apart.
LEMMA CountByState ==
  ASSUME NEW S, IsFiniteSet(S), NEW shows, NEW others \in SUBSET S,
         \A x \in S : shows[x] \in Settled <=> x \notin others
  PROVE  /\ \A s \in Settled : LeftIn(S, shows, s) \in Nat
         /\ Cardinality(others) \in Nat
         /\ Cardinality(S) = LeftIn(S, shows, "done") + LeftIn(S, shows, "failed")
                               + LeftIn(S, shows, "skipped") + LeftIn(S, shows, "cancelled")
                               + Cardinality(others)
<1> DEFINE A == {x \in S : shows[x] = "done"}
           B == {x \in S : shows[x] = "failed"}
           C == {x \in S : shows[x] = "skipped"}
           D == {x \in S : shows[x] = "cancelled"}
<1>1. /\ A \in SUBSET S /\ B \in SUBSET S /\ C \in SUBSET S /\ D \in SUBSET S
      /\ A \cap B = {} /\ (A \cup B) \cap C = {} /\ (A \cup B \cup C) \cap D = {}
  OBVIOUS
<1>2. /\ (A \cup B \cup C \cup D) \cap others = {}
      /\ A \cup B \cup C \cup D \cup others = S
  BY DEF Settled
<1>3. /\ Cardinality(A) \in Nat /\ Cardinality(B) \in Nat /\ Cardinality(C) \in Nat
      /\ Cardinality(D) \in Nat /\ Cardinality(others) \in Nat
      /\ Cardinality(S) = Cardinality(A) + Cardinality(B) + Cardinality(C) + Cardinality(D)
                            + Cardinality(others)
  <2> HIDE DEF A, B, C, D
  <2>1. /\ IsFiniteSet(A) /\ IsFiniteSet(B) /\ IsFiniteSet(C) /\ IsFiniteSet(D)
        /\ IsFiniteSet(others)
    BY <1>1, FS_Subset
  <2>2. /\ IsFiniteSet(A \cup B) /\ Cardinality(A) \in Nat /\ Cardinality(B) \in Nat
        /\ Cardinality(A \cup B) = Cardinality(A) + Cardinality(B)
    BY <1>1, <2>1, DisjointUnion
  <2>3. /\ IsFiniteSet(A \cup B \cup C) /\ Cardinality(C) \in Nat
        /\ Cardinality(A \cup B \cup C) = Cardinality(A \cup B) + Cardinality(C)
    BY <1>1, <2>1, <2>2, DisjointUnion
  <2>4. /\ IsFiniteSet(A \cup B \cup C \cup D) /\ Cardinality(D) \in Nat
        /\ Cardinality(A \cup B \cup C \cup D) = Cardinality(A \cup B \cup C) + Cardinality(D)
    BY <1>1, <2>1, <2>3, DisjointUnion
  <2>5. /\ Cardinality(others) \in Nat
        /\ Cardinality(S) = Cardinality(A \cup B \cup C \cup D) + Cardinality(others)
    BY <1>2, <2>1, <2>4, DisjointUnion
  <2> QED
    BY <2>2, <2>3, <2>4, <2>5
<1>4. /\ LeftIn(S, shows, "done") = Cardinality(A) /\ LeftIn(S, shows, "failed") = Cardinality(B)
      /\ LeftIn(S, shows, "skipped") = Cardinality(C)
      /\ LeftIn(S, shows, "cancelled") = Cardinality(D)
  BY DEF LeftIn
<1> HIDE DEF A, B, C, D
<1> QED
  BY <1>3, <1>4 DEF Settled

\* In a run that has returned the four counts of the result and the tasks that died
\* add up.
LEMMA CountsAddUp == TypeInv /\ CountInv => EveryItemCounted
<1> SUFFICES ASSUME TypeInv, CountInv, phase = "returned"
             PROVE  Completed + Failed + Skipped + CancelledItems
                      + Cardinality({f \in Files : pc[f] = "dead"}) = NumDirs + NumFiles
  BY DEF EveryItemCounted
<1> DEFINE F(s) == LeftIn(Files, state, s)
           D(s) == LeftIn(Dirs, dirState, s)
           dead == {f \in Files : pc[f] = "dead"}
<1>1. dead \in SUBSET Files /\ \A f \in Files : state[f] \in Settled <=> f \notin dead
  BY DEF CountInv, ItemInv, Ended, Settled
<1>2. {} \in SUBSET Dirs /\ \A d \in Dirs : dirState[d] \in Settled <=> d \notin {}
  BY DEF CountInv, TypeInv, TypeOK, Dirs
<1>3. /\ IsFiniteSet(Files) /\ Cardinality(Files) = NumFiles
      /\ IsFiniteSet(Dirs) /\ Cardinality(Dirs) = NumDirs
  BY FS_Interval DEF Files, Dirs
<1>4. /\ \A s \in Settled : F(s) \in Nat
      /\ Cardinality(dead) \in Nat
      /\ NumFiles = F("done") + F("failed") + F("skipped") + F("cancelled") + Cardinality(dead)
  <2> HIDE DEF dead
  <2> QED BY <1>1, <1>3, CountByState
<1>5. /\ \A s \in Settled : D(s) \in Nat
      /\ NumDirs = D("done") + D("failed") + D("skipped") + D("cancelled")
  <2>1. /\ \A s \in Settled : D(s) \in Nat
        /\ NumDirs = D("done") + D("failed") + D("skipped") + D("cancelled") + Cardinality({})
    BY <1>2, <1>3, CountByState
  <2>2. Cardinality({}) = 0
    BY FS_EmptySet
  <2> HIDE DEF D
  <2> QED BY <2>1, <2>2 DEF Settled
<1>6. \A s : InState(s) = F(s) + D(s)
  BY DEF InState, LeftIn
<1>7. Cardinality(dead) = Cardinality({f \in Files : pc[f] = "dead"})
  OBVIOUS
<1> DEFINE f1 == F("done")  f2 == F("failed")  f3 == F("skipped")  f4 == F("cancelled")
           d1 == D("done")  d2 == D("failed")  d3 == D("skipped")  d4 == D("cancelled")
           f5 == Cardinality(dead)
<1>8. /\ f1 \in Nat /\ f2 \in Nat /\ f3 \in Nat /\ f4 \in Nat /\ f5 \in Nat
      /\ d1 \in Nat /\ d2 \in Nat /\ d3 \in Nat /\ d4 \in Nat
  BY <1>4, <1>5 DEF Settled
<1>9. NumFiles = f1 + f2 + f3 + f4 + f5 /\ NumDirs = d1 + d2 + d3 + d4
  BY <1>4, <1>5
<1>10. Completed + Failed + Skipped + CancelledItems
         = (f1 + d1) + (f2 + d2) + (f3 + d3) + (f4 + d4)
  BY <1>6 DEF Completed, Failed, Skipped, CancelledItems
<1> HIDE DEF f1, f2, f3, f4, f5, d1, d2, d3, d4
<1>11. Completed + Failed + Skipped + CancelledItems + f5 = NumDirs + NumFiles
  BY <1>8, <1>9, <1>10
<1> QED
  BY <1>7, <1>11 DEF f5

\* run()'s TransferResult counts every item of the job once, whatever fails and
\* whenever it is cancelled, except the files whose task died before its first
\* attempt (gather(return_exceptions=True), the except clauses of _copy_file).
THEOREM ResultCountsEveryItem == Spec => []EveryItemCounted
<1>1. Init => CountInv
  BY DEF Init, CountInv, ItemInv, Dirs
<1> QED
  BY <1>1, CountNext, CountsAddUp, TypeInvariant, PTL DEF Spec

----------------------------------------------------------------------------
(* The worker that runs the engine: transfer_flow() and _delete_source().   *)

\* The worker watches the engine and never disturbs it.
LEMMA MoveRunsEngine == MoveSpec => Spec
<1>1. MoveInit => Init
  BY DEF MoveInit
<1>2. [MoveNext]_moveVars => [Next]_vars
  BY DEF MoveNext, EngineStep, FlowStep, RunReturned, RunAborted, DeleteFile,
     DeleteDirectories, moveVars
<1> QED
  BY <1>1, <1>2, PTL DEF MoveSpec, Spec

----------------------------------------------------------------------------
(* When run() has returned, every task is at its end, and stays there.        *)

AtRest == phase = "returned" /\ \A f \in Files : pc[f] \in Ended

\* A task at its end makes no further step.
LEMMA RestingTask ==
  ASSUME AtRest, NEW f \in Files, FileStep(f) PROVE FALSE
<1>1. pc[f] \in Ended /\ phase = "returned"
  BY DEF AtRest
<1>2. ASSUME NEW l, At(f, l) PROVE FALSE
  BY <1>1, <1>2 DEF At
<1>3. ASSUME NEW c, Thrown(f, c) PROVE pc[f] \in c
  BY <1>3 DEF Thrown
<1>4. ~ \/ Acquire(f) \/ StatDestination(f) \/ AskUser(f) \/ ProbeCandidate(f)
        \/ OpenRead(f) \/ OpenWrite(f) \/ CopyBlock(f) \/ CloseHandles(f)
        \/ Rename(f) \/ Backoff(f) \/ Cleanup(f)
  BY <1>2 DEF Acquire, StatDestination, AskUser, ProbeCandidate, OpenRead, OpenWrite,
     CopyBlock, CloseHandles, Rename, Backoff, Cleanup
<1>5. ~(ThrownOutsideTry(f) \/ ThrownInTry(f) \/ ThrownInCopy(f) \/ ThrownInCleanup(f))
  BY <1>1, <1>3 DEF ThrownOutsideTry, ThrownInTry, ThrownInCopy, ThrownInCleanup, Ended
<1> QED
  BY <1>4, <1>5 DEF FileStep

\* The engine at rest does not move.
LEMMA RestStep == AtRest /\ [Next]_vars => UNCHANGED vars
<1> SUFFICES ASSUME AtRest, Next PROVE UNCHANGED vars
  OBVIOUS
<1>1. ~(RunStep \/ Cancel \/ Interrupt)
  BY DEF AtRest, RunStep, MakeDirectory, StartFiles, Return, Cancel, Interrupt
<1> QED
  BY <1>1, RestingTask DEF Next, Finished

LEMMA RestInvariant == Spec => [](phase = "returned" => AtRest)
<1>1. Init => (phase = "returned" => AtRest)
  BY DEF Init
<1>2. (phase = "returned" => AtRest) /\ TypeInv /\ [Next]_vars
        => (phase = "returned" => AtRest)'
  <2> SUFFICES ASSUME phase = "returned" => AtRest, [Next]_vars, phase' = "returned"
               PROVE  AtRest'
    BY DEF AtRest
  <2>1. CASE phase = "returned"
    BY <2>1, RestStep DEF AtRest, vars, run
  <2>2. CASE phase # "returned"
    <3>1. ASSUME NEW f \in Files, FileStep(f) PROVE phase' = phase
      BY <3>1 DEF FileStep, Acquire, StatDestination, AskUser, ProbeCandidate, OpenRead,
         OpenWrite, CopyBlock, CloseHandles, Rename, Backoff, Cleanup,
         ThrownOutsideTry, ThrownInTry, ThrownInCopy, ThrownInCleanup, Thrown, run
    <3>2. Return
      BY <2>2, <3>1 DEF Next, RunStep, MakeDirectory, StartFiles, Cancel, Interrupt,
         Finished, vars, run
    <3> QED
      BY <3>2 DEF Return, AtRest
  <2> QED
    BY <2>1, <2>2
<1> QED
  BY <1>1, <1>2, TypeInvariant, PTL DEF Spec

----------------------------------------------------------------------------
(* The worker.                                                                *)

FlowInv ==
  /\ FlowTypeOK
  /\ phase = "returned" => AtRest
  /\ flow = "running" => source = Files
  /\ flow = "deleting" => phase = "returned" /\ Completed > 0
  /\ source # Files => phase = "returned" /\ Completed > 0

LEMMA FlowInvariant == MoveSpec => []FlowInv
<1>1. MoveInit => FlowInv
  BY JobAssumption DEF MoveInit, Init, FlowInv, FlowTypeOK
<1>2. FlowInv /\ (phase = "returned" => AtRest)' /\ [MoveNext]_moveVars => FlowInv'
  <2> SUFFICES ASSUME FlowInv, (phase = "returned" => AtRest)', [MoveNext]_moveVars
               PROVE  FlowInv'
    OBVIOUS
  <2>1. UNCHANGED vars => UNCHANGED <<phase, Completed>>
    BY DEF vars, run, Completed, InState
  <2>2. CASE EngineStep
    <3>1. FlowTypeOK' /\ (flow' = "running" => source' = Files)
      BY <2>2 DEF EngineStep, flowVars, FlowInv, FlowTypeOK
    <3>2. CASE phase = "returned"
      BY <2>2, <3>1, <3>2, <2>1, RestStep DEF EngineStep, flowVars, FlowInv
    <3>3. CASE phase # "returned"
      BY <2>2, <3>1, <3>3 DEF EngineStep, flowVars, FlowInv
    <3> QED
      BY <3>2, <3>3
  <2>3. CASE RunReturned \/ RunAborted
    BY <2>3, <2>1 DEF RunReturned, RunAborted, FlowInv, FlowTypeOK
  <2>4. CASE DeleteFile
    BY <2>4, <2>1, JobAssumption DEF DeleteFile, FlowInv, FlowTypeOK
  <2>5. CASE DeleteDirectories
    BY <2>5, <2>1 DEF DeleteDirectories, FlowInv, FlowTypeOK
  <2>6. CASE UNCHANGED moveVars
    BY <2>6, <2>1 DEF moveVars, flowVars, FlowInv, FlowTypeOK
  <2> QED
    BY <2>2, <2>3, <2>4, <2>5, <2>6 DEF MoveNext, FlowStep
<1> QED
  BY <1>1, <1>2, MoveRunsEngine, RestInvariant, PTL DEF MoveSpec

\* No source file is deleted before the whole job is at rest with something
\* completed, whatever fails or is cancelled in it.
THEOREM DeletionWaits == MoveSpec => []DeletesAtRest
<1>1. FlowInv => DeletesAtRest
  BY DEF FlowInv, DeletesAtRest, AtRest
<1> QED
  BY <1>1, FlowInvariant, PTL

=============================================================================
