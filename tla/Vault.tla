------------------------------- MODULE Vault -------------------------------
(***************************************************************************)
(* The credential vault (store/vault.py) and its migration from schema 1   *)
(* to 2 (store/schema.py).  Every SQL statement outside a transaction is   *)
(* committed by itself, so an operation of several statements is a step    *)
(* for each, and the process may stop, or the next statement fail, between *)
(* any two.  A ciphertext is named by the data key it is encrypted under;  *)
(* a profile has one kind of secret and at most one forward.               *)
(***************************************************************************)
EXTENDS Integers

CONSTANTS
  Profiles,    \* ids the sequence of the table hands out
  Passwords,   \* master passwords
  Keys,        \* data keys (DEK)
  NewColumns,  \* columns that schema 2 adds to the profiles table
  None

ASSUME VaultAssumption ==
  /\ NewColumns \in Nat \ {0}
  /\ None \notin Keys
  /\ Keys # {}

VARIABLES
  file,      \* the database: absent, created and without tables, or with them
  meta,      \* the row of vault_meta: version, wrapping password, wrapped key
  columns,   \* how many of the new columns there are
  fwdTable,  \* the forwards table exists
  profiles,  \* rows of profiles
  issued,    \* ids handed out so far
  secrets,   \* the key of the stored secret of each profile
  forwards,  \* profiles with a row in forwards
  backup,    \* vault.duckdb.v1.bak: none, torn, or whole, and the secrets it gives back
  vault,     \* the process has the vault open
  dek,       \* _dek
  op         \* the operation under way: its next statement and its argument

schemaVars == <<columns, fwdTable>>
rowVars == <<profiles, issued, secrets, forwards>>
memVars == <<vault, dek>>
vars == <<file, meta, schemaVars, rowVars, backup, memVars, op>>

Idle == [at |-> "idle", of |-> None]
NoMeta == [version |-> 0, password |-> None, key |-> None]
NoSecrets == [p \in Profiles |-> None]
NoBackup == [state |-> "none", secrets |-> NoSecrets]
Torn == [NoBackup EXCEPT !.state = "torn"]
\* copy2() takes the file alone: what is only in the log beside it is not copied.
CopyOfFile(logged) ==
  [state |-> "whole", secrets |-> [p \in Profiles |-> IF p \in logged THEN None ELSE secrets[p]]]

FreshFile ==
  /\ file = "absent" /\ meta = NoMeta
  /\ columns = 0 /\ fwdTable = FALSE
  /\ profiles = {} /\ secrets = NoSecrets

\* A vault of the first release.
OldFile ==
  /\ file = "tables"
  /\ \E w \in Passwords, k \in Keys :
       meta = [version |-> 1, password |-> w, key |-> k]
  /\ columns = 0 /\ fwdTable = FALSE
  /\ profiles \in SUBSET Profiles
  /\ secrets \in [Profiles -> {None, meta.key}]
  /\ \A p \in Profiles : secrets[p] # None => p \in profiles

\* One whose creation broke off before its meta row.
OldUnfinished ==
  /\ file = "tables" /\ meta = NoMeta
  /\ columns = 0 /\ fwdTable = FALSE
  /\ profiles = {} /\ secrets = NoSecrets

Init ==
  /\ FreshFile \/ OldFile \/ OldUnfinished
  /\ issued = profiles /\ forwards = {}
  /\ backup = NoBackup
  /\ vault = FALSE /\ dek = None
  /\ op = Idle

Starts == op = Idle
Goto(at, x) == op' = [at |-> at, of |-> x]
Done == op' = Idle

----------------------------------------------------------------------------
(* create(), open() and the migration. *)

\* duckdb.connect() makes the file.
Create(w) ==
  /\ Starts /\ ~vault /\ file = "absent"
  /\ file' = "bare"
  /\ Goto("create_schema", w)
  /\ UNCHANGED <<meta, schemaVars, rowVars, backup, memVars>>

CreateSchema ==
  /\ op.at = "create_schema"
  /\ file' = "tables"
  /\ columns' = NewColumns /\ fwdTable' = TRUE
  /\ Goto("insert_meta", op.of)
  /\ UNCHANGED <<meta, rowVars, backup, memVars>>

InsertMeta ==
  /\ op.at = "insert_meta"
  /\ \E k \in Keys :
       /\ meta' = [version |-> 2, password |-> op.of, key |-> k]
       /\ dek' = k
  /\ vault' = TRUE
  /\ Done
  /\ UNCHANGED <<file, schemaVars, rowVars, backup>>

\* A vault of this release, or one without a meta row; create_schema() adds the
\* tables it lacks.
OpenCurrent ==
  /\ Starts /\ ~vault /\ file = "tables" /\ meta.version # 1
  /\ fwdTable' = TRUE
  /\ vault' = TRUE
  /\ UNCHANGED <<file, meta, columns, rowVars, backup, dek, op>>

\* An old vault is copied, unless a copy is there; the copy may break off.  A log is
\* left beside the file when the last process that used it was killed.
OpenOld ==
  /\ Starts /\ ~vault /\ meta.version = 1
  /\ \/ /\ backup = NoBackup
        /\ \/ /\ \E logged \in SUBSET Profiles : backup' = CopyOfFile(logged)
              /\ Goto("alter", None)
           \/ backup' = Torn /\ UNCHANGED op
     \/ /\ backup # NoBackup
        /\ Goto("alter", None)
        /\ UNCHANGED backup
  /\ UNCHANGED <<file, meta, schemaVars, rowVars, memVars>>

\* Mutant: a column that is there is added again.
AddColumnAnyway ==
  /\ op.at = "alter"
  /\ columns' = columns + 1
  /\ UNCHANGED <<file, meta, fwdTable, rowVars, backup, memVars, op>>

AddColumn ==
  /\ op.at = "alter" /\ columns < NewColumns
  /\ columns' = columns + 1
  /\ UNCHANGED <<file, meta, fwdTable, rowVars, backup, memVars, op>>

\* Mutant: the version is written before the last column is there.
CommitVersionEarly ==
  /\ op.at = "alter" /\ columns >= NewColumns - 1
  /\ fwdTable' = TRUE
  /\ meta' = [meta EXCEPT !.version = 2]
  /\ vault' = TRUE
  /\ Done
  /\ UNCHANGED <<file, columns, rowVars, backup, dek>>

\* The forwards table and the version, in one transaction.
CommitVersion ==
  /\ op.at = "alter" /\ columns = NewColumns
  /\ fwdTable' = TRUE
  /\ meta' = [meta EXCEPT !.version = 2]
  /\ vault' = TRUE
  /\ Done
  /\ UNCHANGED <<file, columns, rowVars, backup, dek>>

----------------------------------------------------------------------------
(* Unlocking. *)

Unlock(w) ==
  /\ Starts /\ vault /\ meta # NoMeta /\ meta.password = w
  /\ dek' = meta.key
  /\ UNCHANGED <<file, meta, schemaVars, rowVars, backup, vault, op>>

Lock ==
  /\ Starts /\ vault
  /\ dek' = None
  /\ UNCHANGED <<file, meta, schemaVars, rowVars, backup, vault, op>>

Close ==
  /\ Starts /\ vault
  /\ vault' = FALSE /\ dek' = None
  /\ UNCHANGED <<file, meta, schemaVars, rowVars, backup, op>>

\* Mutant: the new password comes with a new data key.
ChangeMasterPasswordAndKey(w, new) ==
  /\ Starts /\ vault /\ meta # NoMeta /\ meta.password = w
  /\ \E k \in Keys :
       /\ meta' = [meta EXCEPT !.password = new, !.key = k]
       /\ dek' = k
  /\ UNCHANGED <<file, schemaVars, rowVars, backup, vault, op>>

ChangeMasterPassword(w, new) ==
  /\ Starts /\ vault /\ meta # NoMeta /\ meta.password = w
  /\ meta' = [meta EXCEPT !.password = new]
  /\ dek' = meta.key
  /\ UNCHANGED <<file, schemaVars, rowVars, backup, vault, op>>

----------------------------------------------------------------------------
(* Profiles, secrets and forwards. *)

\* The statement names the columns of schema 2.
SaveProfile(p) ==
  /\ Starts /\ vault /\ columns = NewColumns /\ p \notin issued
  /\ profiles' = profiles \cup {p} /\ issued' = issued \cup {p}
  /\ UNCHANGED <<file, meta, schemaVars, secrets, forwards, backup, memVars, op>>

\* The callers store secrets of profiles they have just saved.
PutSecret(p) ==
  /\ Starts /\ dek # None /\ p \in profiles
  /\ secrets' = [secrets EXCEPT ![p] = None]
  /\ Goto("insert_secret", p)
  /\ UNCHANGED <<file, meta, schemaVars, profiles, issued, forwards, backup, memVars>>

InsertSecret ==
  /\ op.at = "insert_secret"
  /\ secrets' = [secrets EXCEPT ![op.of] = dek]
  /\ Done
  /\ UNCHANGED <<file, meta, schemaVars, profiles, issued, forwards, backup, memVars>>

DeleteSecret(p) ==
  /\ Starts /\ vault
  /\ secrets' = [secrets EXCEPT ![p] = None]
  /\ UNCHANGED <<file, meta, schemaVars, profiles, issued, forwards, backup, memVars, op>>

DeleteProfile(p) ==
  /\ Starts /\ vault /\ p \in profiles
  /\ forwards' = forwards \ {p}
  /\ Goto("delete_secrets", p)
  /\ UNCHANGED <<file, meta, schemaVars, profiles, issued, secrets, backup, memVars>>

\* Mutant: the profile's row goes before its secrets.
DeleteRowFirst ==
  /\ op.at = "delete_secrets"
  /\ profiles' = profiles \ {op.of}
  /\ Goto("delete_profile", op.of)
  /\ UNCHANGED <<file, meta, schemaVars, issued, secrets, forwards, backup, memVars>>

DeleteSecrets ==
  /\ op.at = "delete_secrets"
  /\ secrets' = [secrets EXCEPT ![op.of] = None]
  /\ Goto("delete_profile", op.of)
  /\ UNCHANGED <<file, meta, schemaVars, profiles, issued, forwards, backup, memVars>>

DeleteRow ==
  /\ op.at = "delete_profile"
  /\ profiles' = profiles \ {op.of}
  /\ Done
  /\ UNCHANGED <<file, meta, schemaVars, issued, secrets, forwards, backup, memVars>>

\* For the profile of an SSH session, which may have been deleted meanwhile.
SaveForward(p) ==
  /\ Starts /\ dek # None /\ p \in issued
  /\ forwards' = forwards \cup {p}
  /\ UNCHANGED <<file, meta, schemaVars, profiles, issued, secrets, backup, memVars, op>>

DeleteForward(p) ==
  /\ Starts /\ dek # None
  /\ forwards' = forwards \ {p}
  /\ UNCHANGED <<file, meta, schemaVars, profiles, issued, secrets, backup, memVars, op>>

----------------------------------------------------------------------------
(* Failures. *)

\* The next statement raises; what was committed stays.
StatementFails ==
  /\ op # Idle
  /\ Done
  /\ UNCHANGED <<file, meta, schemaVars, rowVars, backup, memVars>>

Crash ==
  /\ Done /\ vault' = FALSE /\ dek' = None
  /\ UNCHANGED <<file, meta, schemaVars, rowVars, backup>>

----------------------------------------------------------------------------

Opening ==
  \/ \E w \in Passwords : Create(w)
  \/ CreateSchema \/ InsertMeta
  \/ OpenCurrent \/ OpenOld \/ AddColumn \/ CommitVersion

Locking ==
  \/ \E w \in Passwords : Unlock(w)
  \/ Lock \/ Close
  \/ \E w, new \in Passwords : ChangeMasterPassword(w, new)

Rows ==
  \/ \E p \in Profiles :
       \/ SaveProfile(p) \/ PutSecret(p) \/ DeleteSecret(p) \/ DeleteProfile(p)
       \/ SaveForward(p) \/ DeleteForward(p)
  \/ InsertSecret \/ DeleteSecrets \/ DeleteRow

Next == Opening \/ Locking \/ Rows \/ StatementFails \/ Crash

Spec == Init /\ [][Next]_vars

----------------------------------------------------------------------------
(* Properties. *)

\* Every variable has its type.
TypeOK ==
  /\ file \in {"absent", "bare", "tables"}
  /\ meta \in [version : 0..2, password : Passwords \cup {None}, key : Keys \cup {None}]
  /\ columns \in 0..NewColumns /\ fwdTable \in BOOLEAN
  /\ issued \subseteq Profiles /\ profiles \subseteq issued /\ forwards \subseteq issued
  /\ secrets \in [Profiles -> Keys \cup {None}]
  /\ backup \in [state : {"none", "torn", "whole"}, secrets : [Profiles -> Keys \cup {None}]]
  /\ vault \in BOOLEAN /\ dek \in Keys \cup {None}
  /\ op \in [at : {"idle", "create_schema", "insert_meta", "alter", "insert_secret",
                   "delete_secrets", "delete_profile"},
             of : Passwords \cup Profiles \cup {None}]

\* Whatever happens, the one key that the master password unwraps decrypts every
\* stored secret, and it is the key that an unlocked vault holds.
SecretsReadable ==
  /\ \A p \in Profiles : secrets[p] # None => meta # NoMeta /\ secrets[p] = meta.key
  /\ dek # None => vault /\ meta # NoMeta /\ dek = meta.key

\* A vault that says it is of schema 2 has all of it, and only such a vault, or one
\* that was never initialised and can keep no secret, is in use.
MigrationWhole ==
  /\ meta.version = 2 => columns = NewColumns /\ fwdTable
  /\ vault => meta.version # 1 /\ fwdTable
  /\ dek # None => meta.version = 2

\* The copy is made before any statement runs, and is mandatory (migrate() in
\* schema.py): an altered old vault has a whole one.  A torn copy will do.
BackupIsWhole == meta.version = 1 /\ columns > 0 => backup.state = "whole"

\* The backup is a faithful copy of what the user had (open() in vault.py): it gives
\* every secret back.  A secret that is only in the log is not in it.
BackupIsFaithful == meta.version = 1 /\ backup.state = "whole" => backup.secrets = secrets

\* Seen from outside there are no statements, no migration and no crash: a secret
\* leaves the vault only by the hand of a process that has it open, and before its
\* profile does; no change of password, however it ends, loses one.
Kept == {p \in Profiles : secrets[p] # None /\ secrets[p] = meta.key}
Access == IF dek # None THEN "unlocked" ELSE IF vault THEN "locked" ELSE "closed"
Store == INSTANCE SecretStore
           WITH master <- meta.password, known <- profiles, kept <- Kept, access <- Access
ImplementsSecretStore == Store!Spec

=============================================================================
