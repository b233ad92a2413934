---------------------------- MODULE VaultProofs ----------------------------
(* Proofs about the credential vault, for any number of profiles and columns. *)
EXTENDS Vault, TLAPS

\* No stored secret belongs to a profile that is gone.
NoOrphanSecrets == \A p \in Profiles : secrets[p] # None => p \in profiles

\* What holds between the statements of an operation.
OpInv ==
  /\ op.at = "idle" => op = Idle
  /\ op.at = "create_schema" =>
       /\ file = "bare" /\ meta = NoMeta /\ ~vault /\ dek = None
       /\ op.of \in Passwords
  /\ op.at = "insert_meta" =>
       /\ file = "tables" /\ meta = NoMeta /\ ~vault /\ dek = None
       /\ op.of \in Passwords /\ columns = NewColumns /\ fwdTable
  /\ op.at = "alter" => meta.version = 1 /\ ~vault /\ dek = None
  /\ op.at = "insert_secret" =>
       dek # None /\ op.of \in profiles /\ meta.version = 2
  /\ op.at \in {"delete_secrets", "delete_profile"} =>
       vault /\ op.of \in profiles
  /\ op.at = "delete_profile" => secrets[op.of] = None

\* What the file looks like while it is not a vault of this release.
FileInv ==
  /\ meta # NoMeta => file = "tables" /\ meta.version \in {1, 2} /\ meta.key # None
  /\ vault => file = "tables"
  /\ dek # None => meta # NoMeta

VaultInv ==
  /\ TypeOK /\ OpInv /\ FileInv
  /\ SecretsReadable /\ MigrationWhole /\ NoOrphanSecrets

LEMMA VaultInit == Init => VaultInv
<1> SUFFICES ASSUME Init PROVE VaultInv
  OBVIOUS
<1> USE VaultAssumption DEF Init, FreshFile, OldFile, OldUnfinished, Idle, NoMeta, NoSecrets, NoBackup
<1>a. /\ backup \in [state : {"none", "torn", "whole"}, secrets : [Profiles -> Keys \cup {None}]]
      /\ op \in [at : {"idle", "create_schema", "insert_meta", "alter", "insert_secret",
                      "delete_secrets", "delete_profile"},
                of : Passwords \cup Profiles \cup {None}]
  OBVIOUS
<1>b. columns \in 0..NewColumns /\ fwdTable \in BOOLEAN /\ vault \in BOOLEAN
  <2>1. columns = 0 /\ fwdTable = FALSE /\ vault = FALSE
    OBVIOUS
  <2>2. 0 \in 0..NewColumns
    OBVIOUS
  <2> QED
    BY <2>1, <2>2
<1>1. CASE FreshFile
  <2>1. TypeOK
    BY <1>1, <1>a, <1>b DEF TypeOK
  <2>2. OpInv /\ FileInv /\ SecretsReadable /\ MigrationWhole /\ NoOrphanSecrets
    BY <1>1 DEF OpInv, FileInv, SecretsReadable, MigrationWhole, NoOrphanSecrets
  <2> QED
    BY <2>1, <2>2 DEF VaultInv
<1>2. CASE OldFile
  <2>1. meta.version = 1 /\ meta # NoMeta /\ meta.key \in Keys /\ meta.password \in Passwords
    BY <1>2
  <2>2. TypeOK
    BY <1>2, <2>1, <1>a, <1>b DEF TypeOK
  <2>3. OpInv /\ FileInv
    BY <1>2, <2>1 DEF OpInv, FileInv
  <2>4. SecretsReadable /\ MigrationWhole /\ NoOrphanSecrets
    BY <1>2, <2>1 DEF SecretsReadable, MigrationWhole, NoOrphanSecrets
  <2> QED
    BY <2>2, <2>3, <2>4 DEF VaultInv
<1>3. CASE OldUnfinished
  <2>1. TypeOK
    BY <1>3, <1>a, <1>b DEF TypeOK
  <2>2. OpInv /\ FileInv /\ SecretsReadable /\ MigrationWhole /\ NoOrphanSecrets
    BY <1>3 DEF OpInv, FileInv, SecretsReadable, MigrationWhole, NoOrphanSecrets
  <2> QED
    BY <2>1, <2>2 DEF VaultInv
<1> QED
  BY <1>1, <1>2, <1>3

\* create(), open() and the migration keep the invariant.
LEMMA OpeningStep ==
  ASSUME VaultInv, Opening PROVE VaultInv'
<1> USE VaultAssumption DEF VaultInv, Starts, Goto, Done, Idle, NoMeta, schemaVars, rowVars, memVars
<1>1. CASE \E w \in Passwords : Create(w)
  <2>1. TypeOK'
    BY <1>1 DEF Create, TypeOK, OpInv
  <2>2. OpInv' /\ FileInv'
    BY <1>1 DEF Create, TypeOK, OpInv, FileInv, SecretsReadable, MigrationWhole
  <2>3. SecretsReadable' /\ NoOrphanSecrets'
    BY <1>1 DEF Create, TypeOK, OpInv, FileInv, SecretsReadable, NoOrphanSecrets
  <2>4. MigrationWhole'
    BY <1>1 DEF Create, TypeOK, OpInv, FileInv, SecretsReadable, MigrationWhole
  <2> QED
    BY <2>1, <2>2, <2>3, <2>4
<1>2. CASE CreateSchema
  <2>1. TypeOK'
    BY <1>2 DEF CreateSchema, TypeOK, OpInv
  <2>2. OpInv' /\ FileInv'
    BY <1>2 DEF CreateSchema, TypeOK, OpInv, FileInv, SecretsReadable, MigrationWhole
  <2>3. SecretsReadable' /\ NoOrphanSecrets'
    BY <1>2 DEF CreateSchema, TypeOK, OpInv, FileInv, SecretsReadable, NoOrphanSecrets
  <2>4. MigrationWhole'
    BY <1>2 DEF CreateSchema, TypeOK, OpInv, FileInv, SecretsReadable, MigrationWhole
  <2> QED
    BY <2>1, <2>2, <2>3, <2>4
<1>3. CASE InsertMeta
  <2>1. TypeOK'
    BY <1>3 DEF InsertMeta, TypeOK, OpInv
  <2>2. OpInv' /\ FileInv'
    BY <1>3 DEF InsertMeta, TypeOK, OpInv, FileInv, SecretsReadable, MigrationWhole
  <2>3. SecretsReadable' /\ NoOrphanSecrets'
    BY <1>3 DEF InsertMeta, TypeOK, OpInv, FileInv, SecretsReadable, NoOrphanSecrets
  <2>4. MigrationWhole'
    BY <1>3 DEF InsertMeta, TypeOK, OpInv, FileInv, SecretsReadable, MigrationWhole
  <2> QED
    BY <2>1, <2>2, <2>3, <2>4
<1>4. CASE OpenCurrent
  <2>1. TypeOK'
    BY <1>4 DEF OpenCurrent, TypeOK, OpInv
  <2>2. OpInv' /\ FileInv'
    BY <1>4 DEF OpenCurrent, TypeOK, OpInv, FileInv, SecretsReadable, MigrationWhole
  <2>3. SecretsReadable' /\ NoOrphanSecrets'
    BY <1>4 DEF OpenCurrent, TypeOK, OpInv, FileInv, SecretsReadable, NoOrphanSecrets
  <2>4. MigrationWhole'
    BY <1>4 DEF OpenCurrent, TypeOK, OpInv, FileInv, SecretsReadable, MigrationWhole
  <2> QED
    BY <2>1, <2>2, <2>3, <2>4
<1>5. CASE OpenOld
  <2>1. TypeOK'
    BY <1>5 DEF OpenOld, TypeOK, OpInv, NoBackup, NoSecrets, CopyOfFile, Torn
  <2>2. OpInv' /\ FileInv'
    BY <1>5 DEF OpenOld, TypeOK, OpInv, FileInv, SecretsReadable, MigrationWhole, NoBackup, NoSecrets, CopyOfFile, Torn
  <2>3. SecretsReadable' /\ NoOrphanSecrets'
    BY <1>5 DEF OpenOld, TypeOK, OpInv, FileInv, SecretsReadable, NoOrphanSecrets
  <2>4. MigrationWhole'
    BY <1>5 DEF OpenOld, TypeOK, OpInv, FileInv, SecretsReadable, MigrationWhole, NoBackup, NoSecrets, CopyOfFile, Torn
  <2> QED
    BY <2>1, <2>2, <2>3, <2>4
<1>6. CASE AddColumn
  <2>1. TypeOK'
    BY <1>6 DEF AddColumn, TypeOK, OpInv
  <2>2. OpInv' /\ FileInv'
    BY <1>6 DEF AddColumn, TypeOK, OpInv, FileInv, SecretsReadable, MigrationWhole
  <2>3. SecretsReadable' /\ NoOrphanSecrets'
    BY <1>6 DEF AddColumn, TypeOK, OpInv, FileInv, SecretsReadable, NoOrphanSecrets
  <2>4. MigrationWhole'
    BY <1>6 DEF AddColumn, TypeOK, OpInv, FileInv, SecretsReadable, MigrationWhole
  <2> QED
    BY <2>1, <2>2, <2>3, <2>4
<1>7. CASE CommitVersion
  <2>1. TypeOK'
    BY <1>7 DEF CommitVersion, TypeOK, OpInv
  <2>2. OpInv' /\ FileInv'
    BY <1>7 DEF CommitVersion, TypeOK, OpInv, FileInv, SecretsReadable, MigrationWhole
  <2>3. SecretsReadable' /\ NoOrphanSecrets'
    BY <1>7 DEF CommitVersion, TypeOK, OpInv, FileInv, SecretsReadable, NoOrphanSecrets
  <2>4. MigrationWhole'
    BY <1>7 DEF CommitVersion, TypeOK, OpInv, FileInv, SecretsReadable, MigrationWhole
  <2> QED
    BY <2>1, <2>2, <2>3, <2>4
<1> QED
  BY <1>1, <1>2, <1>3, <1>4, <1>5, <1>6, <1>7 DEF Opening

\* Unlocking, locking and a change of the password keep the invariant.
LEMMA LockingStep ==
  ASSUME VaultInv, Locking PROVE VaultInv'
<1> USE VaultAssumption DEF VaultInv, Starts, Goto, Done, Idle, NoMeta, schemaVars, rowVars, memVars
<1>1. CASE \E w \in Passwords : Unlock(w)
  <2>1. TypeOK'
    BY <1>1 DEF Unlock, TypeOK, OpInv
  <2>2. OpInv' /\ FileInv'
    BY <1>1 DEF Unlock, TypeOK, OpInv, FileInv, SecretsReadable, MigrationWhole
  <2>3. SecretsReadable' /\ NoOrphanSecrets'
    BY <1>1 DEF Unlock, TypeOK, OpInv, FileInv, SecretsReadable, NoOrphanSecrets
  <2>4. MigrationWhole'
    BY <1>1 DEF Unlock, TypeOK, OpInv, FileInv, SecretsReadable, MigrationWhole
  <2> QED
    BY <2>1, <2>2, <2>3, <2>4
<1>2. CASE Lock
  <2>1. TypeOK'
    BY <1>2 DEF Lock, TypeOK, OpInv
  <2>2. OpInv' /\ FileInv'
    BY <1>2 DEF Lock, TypeOK, OpInv, FileInv, SecretsReadable, MigrationWhole
  <2>3. SecretsReadable' /\ NoOrphanSecrets'
    BY <1>2 DEF Lock, TypeOK, OpInv, FileInv, SecretsReadable, NoOrphanSecrets
  <2>4. MigrationWhole'
    BY <1>2 DEF Lock, TypeOK, OpInv, FileInv, SecretsReadable, MigrationWhole
  <2> QED
    BY <2>1, <2>2, <2>3, <2>4
<1>3. CASE Close
  <2>1. TypeOK'
    BY <1>3 DEF Close, TypeOK, OpInv
  <2>2. OpInv' /\ FileInv'
    BY <1>3 DEF Close, TypeOK, OpInv, FileInv, SecretsReadable, MigrationWhole
  <2>3. SecretsReadable' /\ NoOrphanSecrets'
    BY <1>3 DEF Close, TypeOK, OpInv, FileInv, SecretsReadable, NoOrphanSecrets
  <2>4. MigrationWhole'
    BY <1>3 DEF Close, TypeOK, OpInv, FileInv, SecretsReadable, MigrationWhole
  <2> QED
    BY <2>1, <2>2, <2>3, <2>4
<1>4. CASE \E w, new \in Passwords : ChangeMasterPassword(w, new)
  <2>1. TypeOK'
    BY <1>4 DEF ChangeMasterPassword, TypeOK, OpInv
  <2>2. OpInv' /\ FileInv'
    BY <1>4 DEF ChangeMasterPassword, TypeOK, OpInv, FileInv, SecretsReadable, MigrationWhole
  <2>3. SecretsReadable' /\ NoOrphanSecrets'
    BY <1>4 DEF ChangeMasterPassword, TypeOK, OpInv, FileInv, SecretsReadable, NoOrphanSecrets
  <2>4. MigrationWhole'
    BY <1>4 DEF ChangeMasterPassword, TypeOK, OpInv, FileInv, SecretsReadable, MigrationWhole
  <2> QED
    BY <2>1, <2>2, <2>3, <2>4
<1> QED
  BY <1>1, <1>2, <1>3, <1>4 DEF Locking

\* The statements on profiles, secrets and forwards keep the invariant.
LEMMA RowsStep ==
  ASSUME VaultInv, Rows PROVE VaultInv'
<1> USE VaultAssumption DEF VaultInv, Starts, Goto, Done, Idle, NoMeta, schemaVars, rowVars, memVars
<1>1. CASE \E p \in Profiles : SaveProfile(p)
  <2>1. TypeOK'
    BY <1>1 DEF SaveProfile, TypeOK, OpInv
  <2>2. OpInv' /\ FileInv'
    BY <1>1 DEF SaveProfile, TypeOK, OpInv, FileInv, SecretsReadable, MigrationWhole
  <2>3. SecretsReadable' /\ NoOrphanSecrets'
    BY <1>1 DEF SaveProfile, TypeOK, OpInv, FileInv, SecretsReadable, NoOrphanSecrets
  <2>4. MigrationWhole'
    BY <1>1 DEF SaveProfile, TypeOK, OpInv, FileInv, SecretsReadable, MigrationWhole
  <2> QED
    BY <2>1, <2>2, <2>3, <2>4
<1>2. CASE \E p \in Profiles : PutSecret(p)
  <2>1. TypeOK'
    BY <1>2 DEF PutSecret, TypeOK, OpInv
  <2>2. OpInv' /\ FileInv'
    BY <1>2 DEF PutSecret, TypeOK, OpInv, FileInv, SecretsReadable, MigrationWhole
  <2>3. SecretsReadable' /\ NoOrphanSecrets'
    BY <1>2 DEF PutSecret, TypeOK, OpInv, FileInv, SecretsReadable, NoOrphanSecrets
  <2>4. MigrationWhole'
    BY <1>2 DEF PutSecret, TypeOK, OpInv, FileInv, SecretsReadable, MigrationWhole
  <2> QED
    BY <2>1, <2>2, <2>3, <2>4
<1>3. CASE \E p \in Profiles : DeleteSecret(p)
  <2>1. TypeOK'
    BY <1>3 DEF DeleteSecret, TypeOK, OpInv
  <2>2. OpInv' /\ FileInv'
    BY <1>3 DEF DeleteSecret, TypeOK, OpInv, FileInv, SecretsReadable, MigrationWhole
  <2>3. SecretsReadable' /\ NoOrphanSecrets'
    BY <1>3 DEF DeleteSecret, TypeOK, OpInv, FileInv, SecretsReadable, NoOrphanSecrets
  <2>4. MigrationWhole'
    BY <1>3 DEF DeleteSecret, TypeOK, OpInv, FileInv, SecretsReadable, MigrationWhole
  <2> QED
    BY <2>1, <2>2, <2>3, <2>4
<1>4. CASE \E p \in Profiles : DeleteProfile(p)
  <2>1. TypeOK'
    BY <1>4 DEF DeleteProfile, TypeOK, OpInv
  <2>2. OpInv' /\ FileInv'
    BY <1>4 DEF DeleteProfile, TypeOK, OpInv, FileInv, SecretsReadable, MigrationWhole
  <2>3. SecretsReadable' /\ NoOrphanSecrets'
    BY <1>4 DEF DeleteProfile, TypeOK, OpInv, FileInv, SecretsReadable, NoOrphanSecrets
  <2>4. MigrationWhole'
    BY <1>4 DEF DeleteProfile, TypeOK, OpInv, FileInv, SecretsReadable, MigrationWhole
  <2> QED
    BY <2>1, <2>2, <2>3, <2>4
<1>5. CASE \E p \in Profiles : SaveForward(p)
  <2>1. TypeOK'
    BY <1>5 DEF SaveForward, TypeOK, OpInv
  <2>2. OpInv' /\ FileInv'
    BY <1>5 DEF SaveForward, TypeOK, OpInv, FileInv, SecretsReadable, MigrationWhole
  <2>3. SecretsReadable' /\ NoOrphanSecrets'
    BY <1>5 DEF SaveForward, TypeOK, OpInv, FileInv, SecretsReadable, NoOrphanSecrets
  <2>4. MigrationWhole'
    BY <1>5 DEF SaveForward, TypeOK, OpInv, FileInv, SecretsReadable, MigrationWhole
  <2> QED
    BY <2>1, <2>2, <2>3, <2>4
<1>6. CASE \E p \in Profiles : DeleteForward(p)
  <2>1. TypeOK'
    BY <1>6 DEF DeleteForward, TypeOK, OpInv
  <2>2. OpInv' /\ FileInv'
    BY <1>6 DEF DeleteForward, TypeOK, OpInv, FileInv, SecretsReadable, MigrationWhole
  <2>3. SecretsReadable' /\ NoOrphanSecrets'
    BY <1>6 DEF DeleteForward, TypeOK, OpInv, FileInv, SecretsReadable, NoOrphanSecrets
  <2>4. MigrationWhole'
    BY <1>6 DEF DeleteForward, TypeOK, OpInv, FileInv, SecretsReadable, MigrationWhole
  <2> QED
    BY <2>1, <2>2, <2>3, <2>4
<1>7. CASE InsertSecret
  <2>1. TypeOK'
    BY <1>7 DEF InsertSecret, TypeOK, OpInv
  <2>2. OpInv' /\ FileInv'
    BY <1>7 DEF InsertSecret, TypeOK, OpInv, FileInv, SecretsReadable, MigrationWhole
  <2>3. SecretsReadable' /\ NoOrphanSecrets'
    BY <1>7 DEF InsertSecret, TypeOK, OpInv, FileInv, SecretsReadable, NoOrphanSecrets
  <2>4. MigrationWhole'
    BY <1>7 DEF InsertSecret, TypeOK, OpInv, FileInv, SecretsReadable, MigrationWhole
  <2> QED
    BY <2>1, <2>2, <2>3, <2>4
<1>8. CASE DeleteSecrets
  <2>1. TypeOK'
    BY <1>8 DEF DeleteSecrets, TypeOK, OpInv
  <2>2. OpInv' /\ FileInv'
    BY <1>8 DEF DeleteSecrets, TypeOK, OpInv, FileInv, SecretsReadable, MigrationWhole
  <2>3. SecretsReadable' /\ NoOrphanSecrets'
    BY <1>8 DEF DeleteSecrets, TypeOK, OpInv, FileInv, SecretsReadable, NoOrphanSecrets
  <2>4. MigrationWhole'
    BY <1>8 DEF DeleteSecrets, TypeOK, OpInv, FileInv, SecretsReadable, MigrationWhole
  <2> QED
    BY <2>1, <2>2, <2>3, <2>4
<1>9. CASE DeleteRow
  <2>1. TypeOK'
    BY <1>9 DEF DeleteRow, TypeOK, OpInv
  <2>2. OpInv' /\ FileInv'
    BY <1>9 DEF DeleteRow, TypeOK, OpInv, FileInv, SecretsReadable, MigrationWhole
  <2>3. SecretsReadable' /\ NoOrphanSecrets'
    BY <1>9 DEF DeleteRow, TypeOK, OpInv, FileInv, SecretsReadable, NoOrphanSecrets
  <2>4. MigrationWhole'
    BY <1>9 DEF DeleteRow, TypeOK, OpInv, FileInv, SecretsReadable, MigrationWhole
  <2> QED
    BY <2>1, <2>2, <2>3, <2>4
<1> QED
  BY <1>1, <1>2, <1>3, <1>4, <1>5, <1>6, <1>7, <1>8, <1>9 DEF Rows

\* A statement that fails and a process that stops keep the invariant.
LEMMA FailureStep ==
  ASSUME VaultInv, (StatementFails \/ Crash) PROVE VaultInv'
<1> USE VaultAssumption DEF VaultInv, Starts, Goto, Done, Idle, NoMeta, schemaVars, rowVars, memVars
<1>1. CASE StatementFails
  <2>1. TypeOK'
    BY <1>1 DEF StatementFails, TypeOK, OpInv
  <2>2. OpInv' /\ FileInv'
    BY <1>1 DEF StatementFails, TypeOK, OpInv, FileInv, SecretsReadable, MigrationWhole
  <2>3. SecretsReadable' /\ NoOrphanSecrets'
    BY <1>1 DEF StatementFails, TypeOK, OpInv, FileInv, SecretsReadable, NoOrphanSecrets
  <2>4. MigrationWhole'
    BY <1>1 DEF StatementFails, TypeOK, OpInv, FileInv, SecretsReadable, MigrationWhole
  <2> QED
    BY <2>1, <2>2, <2>3, <2>4
<1>2. CASE Crash
  <2>1. TypeOK'
    BY <1>2 DEF Crash, TypeOK, OpInv
  <2>2. OpInv' /\ FileInv'
    BY <1>2 DEF Crash, TypeOK, OpInv, FileInv, SecretsReadable, MigrationWhole
  <2>3. SecretsReadable' /\ NoOrphanSecrets'
    BY <1>2 DEF Crash, TypeOK, OpInv, FileInv, SecretsReadable, NoOrphanSecrets
  <2>4. MigrationWhole'
    BY <1>2 DEF Crash, TypeOK, OpInv, FileInv, SecretsReadable, MigrationWhole
  <2> QED
    BY <2>1, <2>2, <2>3, <2>4
<1> QED
  BY <1>1, <1>2

THEOREM VaultInvariant == Spec => []VaultInv
<1>1. VaultInv /\ [Next]_vars => VaultInv'
  <2> SUFFICES ASSUME VaultInv, [Next]_vars PROVE VaultInv'
    OBVIOUS
  <2>1. CASE Next
    BY <2>1, OpeningStep, LockingStep, RowsStep, FailureStep DEF Next
  <2>2. CASE UNCHANGED vars
    BY <2>2 DEF VaultInv, TypeOK, OpInv, FileInv, SecretsReadable, MigrationWhole,
       NoOrphanSecrets, vars, schemaVars, rowVars, memVars
  <2> QED
    BY <2>1, <2>2
<1> QED
  BY VaultInit, <1>1, PTL DEF Spec

\* The file, the rows and the operation under way keep their type, through
\* failures and crashes between any two statements (Vault).
THEOREM VaultTypes == Spec => []TypeOK
  BY VaultInvariant, PTL DEF VaultInv

\* For any number of new columns and wherever the process stops: a vault whose
\* version is 2 has every column and the forwards table, and no other is in use.
THEOREM MigrationIsWhole == Spec => []MigrationWhole
  BY VaultInvariant, PTL DEF VaultInv

\* The data key of the meta row decrypts every stored secret, through every
\* change of the password, migration and crash.
THEOREM SecretsStayReadable == Spec => []SecretsReadable
  BY VaultInvariant, PTL DEF VaultInv

\* A profile's secrets are gone before its row is, wherever a deletion breaks off.
THEOREM SecretsGoFirst == Spec => []NoOrphanSecrets
  BY VaultInvariant, PTL DEF VaultInv

----------------------------------------------------------------------------
(* Vault implements SecretStore. *)

svars == <<meta.password, profiles, Kept, Access>>

LEMMA StoreInit == Init => Store!Init
<1> SUFFICES ASSUME Init PROVE Store!Init
  OBVIOUS
<1>1. Access = "closed"
  BY DEF Init, Access
<1>2. CASE FreshFile
  <2>1. meta.password = None /\ profiles = {} /\ Kept = {}
    BY <1>2 DEF FreshFile, NoMeta, NoSecrets, Kept
  <2> QED BY <1>1, <2>1 DEF Store!Init
<1>3. CASE OldFile
  <2>1. meta.password \in Passwords /\ profiles \in SUBSET Profiles /\ Kept \in SUBSET profiles
    BY <1>3 DEF OldFile, Kept
  <2> QED BY <1>1, <2>1 DEF Store!Init
<1>4. CASE OldUnfinished
  <2>1. meta.password = None /\ profiles = {} /\ Kept = {}
    BY <1>4 DEF OldUnfinished, NoMeta, NoSecrets, Kept
  <2> QED BY <1>1, <2>1 DEF Store!Init
<1> QED BY <1>2, <1>3, <1>4 DEF Init

\* A step that moves neither the keys nor a secret leaves what is kept.
LEMMA KeptFrame ==
  ASSUME UNCHANGED <<meta, secrets>> PROVE UNCHANGED <<meta.password, Kept>>
BY DEF Kept

\* create(), open() and the migration are foundation, opening or nothing.
LEMMA OpeningStores ==
  ASSUME VaultInv, Opening PROVE [Store!Next]_svars
<1> USE VaultAssumption DEF VaultInv, Goto, Done, schemaVars, rowVars, memVars
<1>1. CASE \/ \E w \in Passwords : Create(w)
           \/ CreateSchema \/ OpenOld \/ AddColumn
  <2>1. UNCHANGED <<meta, secrets, profiles, vault, dek>>
    BY <1>1 DEF Create, CreateSchema, OpenOld, AddColumn
  <2> QED BY <2>1, KeptFrame DEF svars, Access
<1>2. CASE InsertMeta
  <2>1. meta = NoMeta /\ op.of \in Passwords /\ Access = "closed"
    BY <1>2 DEF InsertMeta, OpInv, Access
  <2>2. Kept = {} /\ Kept' = {}
    BY <1>2, <2>1 DEF InsertMeta, SecretsReadable, Kept
  <2>3. meta.password = None /\ meta'.password = op.of /\ Access' = "unlocked"
    BY <1>2, <2>1 DEF InsertMeta, NoMeta, Access
  <2>4. Store!Found(op.of)
    BY <1>2, <2>1, <2>2, <2>3 DEF InsertMeta, Store!Found
  <2> QED BY <2>1, <2>4 DEF Store!Next
<1>3. CASE OpenCurrent \/ CommitVersion
  <2>1. ~vault /\ dek = None /\ vault' = TRUE /\ dek' = None
    BY <1>3 DEF OpenCurrent, CommitVersion, OpInv, SecretsReadable
  <2>2. UNCHANGED <<meta.password, meta.key, secrets, profiles>>
    BY <1>3 DEF OpenCurrent, CommitVersion, TypeOK
  <2>3. Store!Open
    BY <2>1, <2>2 DEF Store!Open, Kept, Access
  <2> QED BY <2>3 DEF Store!Next
<1> QED BY <1>1, <1>2, <1>3 DEF Opening

\* A change of the password keeps the data key, and so all that it decrypts.
LEMMA LockingStores ==
  ASSUME VaultInv, Locking PROVE [Store!Next]_svars
<1> USE VaultAssumption DEF VaultInv, schemaVars, rowVars, memVars
<1>1. ASSUME NEW w \in Passwords, Unlock(w) PROVE Store!Unlock
  <2>1. vault /\ meta.password \in Passwords /\ dek' # None
    BY <1>1 DEF Unlock, FileInv
  <2>2. UNCHANGED <<meta, secrets, profiles>>
    BY <1>1 DEF Unlock
  <2> QED BY <2>1, <2>2, KeptFrame DEF Store!Unlock, Access
<1>2. CASE Lock \/ Close
  <2>1. UNCHANGED <<meta, secrets, profiles>> /\ dek' = None /\ vault
    BY <1>2 DEF Lock, Close
  <2>2. Store!Lock
    BY <2>1, KeptFrame DEF Store!Lock, Access
  <2> QED BY <2>2 DEF Store!Next
<1>3. ASSUME NEW w \in Passwords, NEW new \in Passwords, ChangeMasterPassword(w, new)
      PROVE  Store!ChangeMaster(w, new)
  <2>1. meta' = [meta EXCEPT !.password = new] /\ meta.password = w /\ vault
    BY <1>3 DEF ChangeMasterPassword
  <2>2. meta'.password = new /\ meta'.key = meta.key /\ dek' = meta.key /\ meta.key # None
    BY <1>3, <2>1 DEF ChangeMasterPassword, TypeOK, FileInv
  <2>3. UNCHANGED <<Kept, profiles>>
    BY <1>3, <2>2 DEF ChangeMasterPassword, Kept
  <2> QED BY <2>1, <2>2, <2>3 DEF Store!ChangeMaster, Access
<1> QED BY <1>1, <1>2, <1>3 DEF Locking, Store!Next

\* The statements on rows: a secret is put under the key the password unwraps, and
\* taken out before its profile.
LEMMA RowsStore ==
  ASSUME VaultInv, Rows PROVE [Store!Next]_svars
<1> USE VaultAssumption DEF VaultInv, Starts, Goto, Done, schemaVars, rowVars, memVars
<1>1. ASSUME NEW p \in Profiles, SaveProfile(p) PROVE Store!Save(p)
  <2>1. UNCHANGED <<meta, secrets, vault, dek>> /\ vault /\ p \notin profiles
    BY <1>1 DEF SaveProfile, TypeOK
  <2> QED BY <1>1, <2>1, KeptFrame DEF SaveProfile, Store!Save, Access
<1>2. ASSUME NEW p \in Profiles, secrets' = [secrets EXCEPT ![p] = None],
             UNCHANGED <<meta, profiles, vault, dek>>, vault
      PROVE  Store!TakeOut(p)
  <2>1. Kept' = Kept \ {p}
    BY <1>2 DEF Kept, TypeOK
  <2> QED BY <1>2, <2>1 DEF Store!TakeOut, Access
<1>3. ASSUME NEW p \in Profiles, PutSecret(p) PROVE Store!TakeOut(p)
  BY <1>2, <1>3 DEF PutSecret, SecretsReadable
<1>4. ASSUME NEW p \in Profiles, DeleteSecret(p) PROVE Store!TakeOut(p)
  BY <1>2, <1>4 DEF DeleteSecret
<1>5. ASSUME NEW p \in Profiles, DeleteProfile(p) \/ SaveForward(p) \/ DeleteForward(p)
      PROVE  UNCHANGED svars
  <2>1. UNCHANGED <<meta, secrets, profiles, vault, dek>>
    BY <1>5 DEF DeleteProfile, SaveForward, DeleteForward
  <2> QED BY <2>1, KeptFrame DEF svars, Access
<1>6. ASSUME InsertSecret PROVE op.of \in Profiles /\ Store!Put(op.of)
  <2>1. op.of \in profiles /\ op.of \in Profiles /\ dek # None /\ dek = meta.key
    BY <1>6 DEF InsertSecret, OpInv, SecretsReadable, TypeOK
  <2>2. Kept' = Kept \cup {op.of}
    BY <1>6, <2>1 DEF InsertSecret, Kept, TypeOK
  <2> QED BY <1>6, <2>1, <2>2 DEF InsertSecret, Store!Put, Access
<1>7. ASSUME DeleteSecrets PROVE op.of \in Profiles /\ Store!TakeOut(op.of)
  <2>1. op.of \in Profiles /\ vault
    BY <1>7 DEF DeleteSecrets, OpInv, TypeOK
  <2> QED BY <1>2, <1>7, <2>1 DEF DeleteSecrets
<1>8. ASSUME DeleteRow PROVE op.of \in Profiles /\ Store!Delete(op.of)
  <2>1. op.of \in Profiles /\ vault /\ op.of \notin Kept
    BY <1>8 DEF DeleteRow, OpInv, TypeOK, Kept
  <2>2. UNCHANGED <<meta, secrets, vault, dek>> /\ profiles' = profiles \ {op.of}
    BY <1>8 DEF DeleteRow
  <2> QED BY <2>1, <2>2, KeptFrame DEF Store!Delete, Access
<1> QED
  BY <1>1, <1>3, <1>4, <1>5, <1>6, <1>7, <1>8 DEF Rows, Store!Next

\* A process that dies, or whose statement fails, locks at most its own door.
LEMMA FailureStores ==
  ASSUME StatementFails \/ Crash PROVE [Store!Next]_svars
<1> USE DEF schemaVars, rowVars, memVars
<1>1. CASE StatementFails
  BY <1>1, KeptFrame DEF StatementFails, svars, Access
<1>2. CASE Crash
  <2>1. Store!Lock
    BY <1>2, KeptFrame DEF Crash, Store!Lock, Access
  <2> QED BY <2>1 DEF Store!Next
<1> QED BY <1>1, <1>2

LEMMA StoreStep ==
  ASSUME VaultInv, [Next]_vars PROVE [Store!Next]_svars
<1>1. CASE Next
  BY <1>1, OpeningStores, LockingStores, RowsStore, FailureStores DEF Next
<1>2. CASE UNCHANGED vars
  BY <1>2, KeptFrame DEF vars, schemaVars, rowVars, memVars, svars, Access
<1> QED BY <1>1, <1>2

\* For any number of profiles, passwords and columns: whatever statement fails and
\* wherever the process stops, a secret leaves the vault only by the hand of a process
\* that has it open, and before its profile (vault.py, schema.py).
THEOREM VaultIsSecretStore == Spec => ImplementsSecretStore
<1>1. [Store!Next]_svars => [Store!Next]_(Store!svars)
  BY DEF svars, Store!svars
<1> QED
  BY <1>1, VaultInvariant, StoreInit, StoreStep, PTL
     DEF Spec, ImplementsSecretStore, Store!Spec

=============================================================================
