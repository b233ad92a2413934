----------------------------- MODULE SecretStore -----------------------------
(***************************************************************************)
(* What the vault promises to those who put secrets in it: a secret that   *)
(* was put is there, under the master password of the day, until somebody  *)
(* who has the vault open takes it out or replaces it.  There is no file   *)
(* and no statement here, no migration and no crash.                       *)
(***************************************************************************)
CONSTANTS Profiles, Passwords, None

VARIABLES
  master,   \* the password that opens the vault; None before it is founded
  known,    \* the profiles
  kept,     \* those whose secret the master password gives
  access    \* this process: "closed", "locked" or "unlocked"

svars == <<master, known, kept, access>>

Init ==
  /\ \/ master = None /\ known = {} /\ kept = {}
     \/ master \in Passwords /\ known \in SUBSET Profiles /\ kept \in SUBSET known
  /\ access = "closed"

Found(w) ==
  /\ master = None /\ access = "closed"
  /\ master' = w /\ access' = "unlocked"
  /\ UNCHANGED <<known, kept>>

\* The process opens, unlocks, locks or closes the vault, or dies: nothing in it
\* changes.  Unlocking needs the password of a vault that was opened before.
Open ==
  /\ access = "closed" /\ access' = "locked"
  /\ UNCHANGED <<master, known, kept>>

Unlock ==
  /\ access # "closed" /\ master \in Passwords /\ access' = "unlocked"
  /\ UNCHANGED <<master, known, kept>>

Lock ==
  /\ access' \in {"locked", "closed"} /\ (access = "closed" => access' = "closed")
  /\ UNCHANGED <<master, known, kept>>

\* Another master password gives all that the old one gave.
ChangeMaster(old, new) ==
  /\ access # "closed" /\ master = old
  /\ master' = new /\ access' = "unlocked"
  /\ UNCHANGED <<known, kept>>

Save(p) ==
  /\ access # "closed" /\ p \notin known
  /\ known' = known \cup {p}
  /\ UNCHANGED <<master, kept, access>>

Put(p) ==
  /\ access = "unlocked" /\ p \in known
  /\ kept' = kept \cup {p}
  /\ UNCHANGED <<master, known, access>>

\* On request, and before a new secret is put: if that fails the old one is gone.
TakeOut(p) ==
  /\ access # "closed"
  /\ kept' = kept \ {p}
  /\ UNCHANGED <<master, known, access>>

\* A profile goes after its secret.
Delete(p) ==
  /\ access # "closed" /\ p \notin kept
  /\ known' = known \ {p}
  /\ UNCHANGED <<master, kept, access>>

Next ==
  \/ \E w \in Passwords : Found(w)
  \/ Open \/ Unlock \/ Lock
  \/ \E old, new \in Passwords : ChangeMaster(old, new)
  \/ \E p \in Profiles : Save(p) \/ Put(p) \/ TakeOut(p) \/ Delete(p)

Spec == Init /\ [][Next]_svars

=============================================================================
