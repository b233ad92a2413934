----------------------------- MODULE AtomicCopy -----------------------------
(***************************************************************************)
(* What the transfer engine promises about the destination: a file of the  *)
(* job appears under its final name in one step and complete, or not at    *)
(* all; once its outcome is settled the engine leaves it alone.            *)
(***************************************************************************)
EXTENDS TransferJob

VARIABLES
  final,    \* final[p]: content of the file named p at the destination
  outcome   \* outcome[f]: "open" until the engine settles file f

avars == <<final, outcome>>

Init ==
  /\ final = InitialContent
  /\ outcome = [f \in Files |-> "open"]

\* A complete copy appears.  The engine may not learn of it (a reply lost on
\* the way, a cancelled await), and then settles the file otherwise later.
Deliver(f) ==
  /\ outcome[f] = "open"
  /\ \E p \in Targets(f) : final' = [final EXCEPT ![p] = Complete(f)]
  /\ outcome' \in {outcome, [outcome EXCEPT ![f] = "done"],
                   [outcome EXCEPT ![f] = "notDone"]}

\* The engine gives up on file f: skipped, failed or cancelled.
GiveUp(f) ==
  /\ outcome[f] = "open"
  /\ outcome' = [outcome EXCEPT ![f] = "notDone"]
  /\ UNCHANGED final

Next == \E f \in Files : Deliver(f) \/ GiveUp(f)

Spec == Init /\ [][Next]_avars

=============================================================================
