---------------------------- MODULE ConnectFlow ----------------------------
(***************************************************************************)
(* How a connection is opened: connect_flow(), profiles_flow() and         *)
(* connect_profile() of app.py with the dialogs they wait for,             *)
(* resolve_credential() and open_connection() of net/connect.py,           *)
(* SSHSession.connect() of net/ssh.py and the trust decision of            *)
(* net/hostkeys.py, for one host.                                          *)
(*                                                                         *)
(* Each flow is a worker on the event loop: an action is what it does from *)
(* one await to the next.  Dialogs are modal: only the topmost is          *)
(* answered, and while one is up the keys that begin a flow or lock the    *)
(* vault do nothing.  The credential cache (net/credential_cache.py) is    *)
(* not in the repository; it is modelled from its use.                     *)
(***************************************************************************)
EXTENDS Naturals, Sequences, FiniteSets

CONSTANTS
  Flows,     \* workers that may run at once
  HostKeys,  \* keys the server may present
  Ids,       \* profile ids the vault hands out; bound on the saved profiles
  Methods,   \* subset of {"password", "key", "openKey", "agent"}
  FirstKey,
  NoId

ASSUME ConnectAssumption ==
  /\ FirstKey \in HostKeys /\ NoId \notin Ids
  /\ IsFiniteSet(Ids) /\ IsFiniteSet(Flows)
  /\ Methods \subseteq {"password", "key", "openKey", "agent"}

VARIABLES
  method,     \* how the host's profiles authenticate
  serverKey,  \* the key the server presents
  known,      \* keys of the host in known_hosts
  file,       \* a vault file exists
  vault,      \* state of the Vault in _vault
  opened,     \* how many Vault objects were stored in _vault
  stored,     \* stored[i]: secret of profile i in the vault
  deleted,    \* history: profiles the user deleted
  cache,      \* credential cache of the host
  screens,    \* the stack of modal dialogs, by the flow that waits for each
  flow,       \* flow[f]: what flow f does and holds
  crashed     \* a worker died of an exception, and the application with it

vaultVars == <<file, vault, opened, stored, deleted>>
vars == <<method, serverKey, known, vaultVars, cache, screens, flow, crashed>>

\* "none" is a credential that holds no secret, "absent" no credential at all.
Secrets == {"none", "good", "bad"}

Idle == [pc |-> "idle", typed |-> "absent", save |-> FALSE, id |-> NoId,
         useVault |-> FALSE, cred |-> "none"]

Init ==
  /\ method \in Methods
  /\ serverKey = FirstKey /\ known = {}
  /\ file \in BOOLEAN /\ vault = "unopened" /\ opened = 0
  /\ stored = [i \in Ids |-> "absent"] /\ deleted = {}
  /\ cache = "absent" /\ screens = <<>>
  /\ flow = [f \in Flows |-> Idle]
  /\ crashed = FALSE

Go(f, pc) == flow' = [flow EXCEPT ![f].pc = pc]
End(f) == flow' = [flow EXCEPT ![f] = Idle]
\* An exception nobody catches ends the worker and the process with all it held.
Crash ==
  /\ crashed' = TRUE
  /\ flow' = [f \in Flows |-> Idle] /\ screens' = <<>> /\ cache' = "absent"
  /\ vault' = "unopened" /\ opened' = 0
  /\ UNCHANGED <<method, serverKey, known, file, stored, deleted>>

At(f, pc) == ~crashed /\ flow[f].pc = pc

\* push_screen_wait(): the dialog goes on top; only the topmost can be dismissed.
Push(f) == screens' = Append(screens, f)
OnTop(f) == screens # <<>> /\ screens[Len(screens)] = f
Pop == screens' = SubSeq(screens, 1, Len(screens) - 1)

----------------------------------------------------------------------------
(* Keys, and what the user does outside a dialog. *)

\* F9 or ctrl+o.  A second key may be handled before the first dialog is up.
Begin(f) ==
  /\ At(f, "idle") /\ screens = <<>>
  /\ \E pc \in {"connect", "profiles"} : Go(f, pc)
  /\ UNCHANGED <<method, serverKey, known, vaultVars, cache, screens, crashed>>

\* The vault and the cache forget their secrets; so does an empty cache.
LockVault ==
  /\ ~crashed /\ screens = <<>> /\ vault # "unopened"
  /\ vault' = "locked" /\ cache' = "absent"
  /\ UNCHANGED <<method, serverKey, known, file, opened, stored, deleted, screens, flow, crashed>>

\* The server is rebuilt with another key, perhaps while a prompt shows the old one.
Rebuild(k) ==
  /\ ~crashed /\ k # serverKey
  /\ serverKey' = k
  /\ UNCHANGED <<method, known, vaultVars, cache, screens, flow, crashed>>

----------------------------------------------------------------------------
(* connect_flow(): dialog, vault, profile. *)

ConnectDialog(f) ==
  /\ At(f, "connect")
  /\ Push(f) /\ Go(f, "dialog")
  /\ UNCHANGED <<method, serverKey, known, vaultVars, cache, crashed>>

\* Bound: profiles are saved while there are ids for them.
RoomToSave ==
  Cardinality({f \in Flows : flow[f].save /\ flow[f].id = NoId})
    < Cardinality({i \in Ids : stored[i] = "absent" /\ i \notin deleted})

\* _submit() accepts a form that names a host and a user (and a key file).
\* Without "save" an unlocked vault is used all the same; with it the flow needs
\* an unlocked one.
Submit(f, typed, save) ==
  /\ At(f, "dialog") /\ OnTop(f) /\ Pop
  /\ save => RoomToSave
  /\ flow' = [flow EXCEPT ![f] =
       [@ EXCEPT !.pc = IF save THEN "ensure" ELSE "resolve",
                 !.typed = typed, !.save = save,
                 !.useVault = (vault = "open")]]
  /\ UNCHANGED <<method, serverKey, known, vaultVars, cache, crashed>>

\* A dialog, message or prompt that is cancelled where that ends the flow.
Cancel(f) ==
  /\ ~crashed /\ flow[f].pc \in {"dialog", "list", "message", "trust", "secret"}
  /\ flow[f].pc = "secret" => method = "password"
  /\ OnTop(f) /\ Pop /\ End(f)
  /\ UNCHANGED <<method, serverKey, known, vaultVars, cache, crashed>>

WithVault(f) ==
  flow' = [flow EXCEPT ![f].pc = IF flow[f].save THEN "persist" ELSE "resolve",
                       ![f].useVault = TRUE]

\* Whoever asked to save does not connect; the picker goes on, with the vault
\* only if another flow has unlocked it.
WithoutVault(f) ==
  \/ /\ flow[f].save /\ End(f)
  \/ /\ ~flow[f].save
     /\ flow' = [flow EXCEPT ![f].pc = "resolve", ![f].useVault = (vault = "open")]

\* ensure_vault(): nothing to ask when the vault is unlocked.
EnsureVault(f) ==
  /\ At(f, "ensure")
  /\ \/ vault = "open" /\ WithVault(f) /\ UNCHANGED screens
     \/ /\ vault # "open"
        /\ Push(f) /\ Go(f, "master")
  /\ UNCHANGED <<method, serverKey, known, vaultVars, cache, crashed>>

\* Mutant: a cancelled unlock connects and does not save.
CancelledConnects(f) ==
  /\ At(f, "master") /\ OnTop(f) /\ Pop
  /\ Go(f, "resolve")
  /\ UNCHANGED <<method, serverKey, known, vaultVars, cache, crashed>>

MasterCancelled(f) ==
  /\ At(f, "master") /\ OnTop(f) /\ Pop
  /\ WithoutVault(f)
  /\ UNCHANGED <<method, serverKey, known, vaultVars, cache, crashed>>

\* Mutant: whether a vault was opened is read before the prompt.
OpenAgain(f) ==
  /\ At(f, "master") /\ OnTop(f) /\ Pop
  /\ opened' = opened + 1
  /\ vault' = "open" /\ file' = TRUE
  /\ WithVault(f)
  /\ UNCHANGED <<method, serverKey, known, stored, deleted, cache, crashed>>

\* open_or_create() the first time, unlock() afterwards.
MasterAccepted(f) ==
  /\ At(f, "master") /\ OnTop(f) /\ Pop
  /\ opened' = IF vault = "unopened" THEN opened + 1 ELSE opened
  /\ vault' = "open" /\ file' = TRUE
  /\ WithVault(f)
  /\ UNCHANGED <<method, serverKey, known, stored, deleted, cache, crashed>>

\* DuckDB's own errors are neither OSError nor RuntimeError: nobody catches them.
VaultBroken(f) ==
  /\ \/ At(f, "master") /\ OnTop(f)
     \/ At(f, "profiles") /\ file /\ vault = "unopened"
  /\ Crash

\* A wrong password, or a file that the system does not let us open, is reported
\* by a message, after which ensure_vault() returns None.
MasterRefused(f) ==
  /\ At(f, "master") /\ OnTop(f)
  /\ Go(f, "refused")
  /\ UNCHANGED <<method, serverKey, known, vaultVars, cache, screens, crashed>>

RefusalRead(f) ==
  /\ At(f, "refused") /\ OnTop(f) /\ Pop
  /\ WithoutVault(f)
  /\ UNCHANGED <<method, serverKey, known, vaultVars, cache, crashed>>

\* persist_profile(): the row gives the id, then the secret that was typed.
PersistProfile(f, i) ==
  /\ At(f, "persist") /\ stored[i] = "absent" /\ i \notin deleted
  /\ stored' = [stored EXCEPT ![i] = flow[f].typed]
  /\ flow' = [flow EXCEPT ![f].pc = "resolve", ![f].id = i]
  /\ UNCHANGED <<method, serverKey, known, file, vault, opened, deleted, cache, screens, crashed>>

----------------------------------------------------------------------------
(* profiles_flow(). *)

\* The picker needs the vault open, not unlocked.
ProfileList(f) ==
  /\ At(f, "profiles")
  /\ Push(f)
  /\ \/ /\ ~file /\ Go(f, "message") /\ UNCHANGED <<vault, opened>>
     \/ /\ file /\ vault = "unopened" /\ Go(f, "message") /\ UNCHANGED <<vault, opened>>
     \/ /\ file /\ Go(f, "list")
        /\ vault' = IF vault = "unopened" THEN "locked" ELSE vault
        /\ opened' = IF vault = "unopened" THEN opened + 1 ELSE opened
  /\ UNCHANGED <<method, serverKey, known, file, stored, deleted, cache, crashed>>

\* A profile is picked; an agent needs no secret and no unlocked vault.
PickProfile(f, i) ==
  /\ At(f, "list") /\ OnTop(f) /\ stored[i] # "absent" /\ Pop
  /\ flow' = [flow EXCEPT ![f] =
       [@ EXCEPT !.pc = IF method = "agent" \/ vault = "open" THEN "resolve" ELSE "ensure",
                 !.id = i, !.useVault = (vault = "open")]]
  /\ UNCHANGED <<method, serverKey, known, vaultVars, cache, crashed>>

DeleteProfile(f, i) ==
  /\ At(f, "list") /\ OnTop(f) /\ stored[i] # "absent"
  /\ stored' = [stored EXCEPT ![i] = "absent"] /\ deleted' = deleted \cup {i}
  /\ UNCHANGED <<method, serverKey, known, file, vault, opened, cache, screens, flow, crashed>>

----------------------------------------------------------------------------
(* resolve_credential(). *)

\* typed or cache.get(): a dialog always hands a credential, maybe an empty one.
Held(f) == IF flow[f].typed = "absent" THEN cache ELSE flow[f].typed

\* _stored(): a locked vault, or a deleted row, holds nothing.
Stored(f) ==
  IF flow[f].useVault /\ vault = "open" /\ flow[f].id # NoId /\ stored[flow[f].id] # "absent"
  THEN stored[flow[f].id] ELSE "none"

Found(f) == IF Held(f) \in {"good", "bad"} THEN Held(f) ELSE Stored(f)

\* cache.put() before the connection is tried, with a wrong secret as well.
Proceed(f, secret, prompted) ==
  /\ flow' = [flow EXCEPT ![f].pc = "connecting", ![f].cred = secret]
  /\ cache' = IF prompted \/ Held(f) # "absent" THEN secret ELSE cache

\* The agent needs no secret; what is found is used; a key that is not encrypted
\* needs none; otherwise the user is asked.
Resolve(f) ==
  /\ At(f, "resolve")
  /\ \/ /\ method = "agent"
        /\ flow' = [flow EXCEPT ![f].pc = "connecting", ![f].cred = "good"]
        /\ UNCHANGED <<cache, screens>>
     \/ /\ method # "agent"
        /\ Found(f) # "none" \/ method = "openKey"
        /\ Proceed(f, Found(f), FALSE)
        /\ UNCHANGED screens
     \/ /\ method \in {"password", "key"} /\ Found(f) = "none"
        /\ Push(f) /\ Go(f, "secret")
        /\ UNCHANGED cache
  /\ UNCHANGED <<method, serverKey, known, vaultVars, crashed>>

\* A key without its passphrase is tried all the same, and refused by
\* load_private_key().
SecretAnswered(f, secret) ==
  /\ At(f, "secret") /\ OnTop(f) /\ Pop
  /\ secret = "none" => method = "key"
  /\ Proceed(f, secret, TRUE)
  /\ UNCHANGED <<method, serverKey, known, vaultVars, crashed>>

----------------------------------------------------------------------------
(* open_connection() and the trust decision. *)

Accepts(f) == flow[f].cred = "good" \/ method = "openKey"

\* The server's key is known and the credential accepted: attach().
Connected(f) ==
  /\ At(f, "connecting") /\ serverKey \in known /\ Accepts(f)
  /\ End(f)
  /\ UNCHANGED <<method, serverKey, known, vaultVars, cache, screens, crashed>>

\* The SFTP channel fails on the new connection: OpenConnectionError, which
\* nobody catches.
ChannelRefused(f) ==
  /\ At(f, "connecting") /\ serverKey \in known /\ Accepts(f)
  /\ Crash

\* A NetworkError: unreachable, timed out, rejected, a key that does not load.
Failed(f) ==
  /\ At(f, "connecting") \/ At(f, "classify")
  /\ End(f)
  /\ UNCHANGED <<method, serverKey, known, vaultVars, cache, screens, crashed>>

\* The credential is dropped with the failed attempt.
Classify(f) == flow' = [flow EXCEPT ![f].pc = "classify", ![f].cred = "none"]

\* has_known_entry()
HasKnownEntry == known # {}

\* classify_failure(): a host with another key is HostKeyChanged, a NetworkError;
\* the key of an unknown one is fetched.
Unverifiable(f) ==
  /\ At(f, "connecting") /\ serverKey \notin known
  /\ IF HasKnownEntry THEN End(f) ELSE Classify(f)
  /\ UNCHANGED <<method, serverKey, known, vaultVars, cache, screens, crashed>>

\* HostKeyUnknown: offer_host_key() shows the fingerprint.
OfferHostKey(f) ==
  /\ At(f, "classify")
  /\ Push(f) /\ Go(f, "trust")
  /\ UNCHANGED <<method, serverKey, known, vaultVars, cache, crashed>>

\* Mutant: the prompt stays on the screen.
TrustedStays(f) ==
  /\ At(f, "trust") /\ OnTop(f) /\ UNCHANGED screens
  /\ Go(f, "refetch")
  /\ UNCHANGED <<method, serverKey, known, vaultVars, cache, crashed>>

Trusted(f) ==
  /\ At(f, "trust") /\ OnTop(f) /\ Pop
  /\ Go(f, "refetch")
  /\ UNCHANGED <<method, serverKey, known, vaultVars, cache, crashed>>

\* Mutant: the key is not written.
RetryOnly(f) ==
  /\ At(f, "refetch")
  /\ Go(f, "resolve")
  /\ UNCHANGED <<method, serverKey, known, vaultVars, cache, screens, crashed>>

\* The key is fetched again and appended, whatever was shown and whatever the file
\* holds by now; connect_profile() calls itself.
RememberHostKey(f) ==
  /\ At(f, "refetch")
  /\ known' = known \cup {serverKey}
  /\ Go(f, "resolve")
  /\ UNCHANGED <<method, serverKey, vaultVars, cache, screens, crashed>>

\* A NetworkError raised inside "except HostKeyUnknown" passes by the
\* "except NetworkError" beside it.
RefetchFails(f) ==
  /\ At(f, "refetch")
  /\ Crash

----------------------------------------------------------------------------

\* What the flow does by itself.
Work(f) ==
  \/ ConnectDialog(f) \/ ProfileList(f) \/ EnsureVault(f) \/ VaultBroken(f)
  \/ \E i \in Ids : PersistProfile(f, i)
  \/ Resolve(f)
  \/ Connected(f) \/ ChannelRefused(f) \/ Failed(f) \/ Unverifiable(f)
  \/ OfferHostKey(f) \/ RememberHostKey(f) \/ RefetchFails(f)

\* What the user answers in its dialogs.
Answer(f) ==
  \/ \E t \in Secrets, save \in BOOLEAN : Submit(f, t, save)
  \/ Cancel(f) \/ MasterCancelled(f) \/ MasterAccepted(f) \/ MasterRefused(f) \/ RefusalRead(f)
  \/ \E i \in Ids : PickProfile(f, i)
  \/ \E s \in Secrets : SecretAnswered(f, s)
  \/ Trusted(f)

Next ==
  \/ \E f \in Flows : Begin(f) \/ Work(f) \/ Answer(f) \/ \E i \in Ids : DeleteProfile(f, i)
  \/ LockVault
  \/ \E k \in HostKeys : Rebuild(k)
  \/ crashed /\ UNCHANGED vars

Spec == Init /\ [][Next]_vars

\* A call to the network is answered or fails, and the user answers dialogs.
FairSpec == Spec /\ \A f \in Flows : WF_vars(Work(f)) /\ WF_vars(Answer(f))

----------------------------------------------------------------------------
(* Properties. *)

Waiting == {"dialog", "master", "refused", "message", "list", "secret", "trust"}
Working == {"idle", "connect", "profiles", "ensure", "persist", "resolve", "connecting",
            "classify", "refetch"}

\* Every part of the state has its type, and the stack of dialogs holds each
\* flow that waits for the user exactly once, and no other.
TypeOK ==
  /\ method \in Methods
  /\ serverKey \in HostKeys /\ known \subseteq HostKeys
  /\ file \in BOOLEAN /\ vault \in {"unopened", "locked", "open"} /\ opened \in Nat
  /\ stored \in [Ids -> Secrets \cup {"absent"}] /\ deleted \subseteq Ids
  /\ cache \in Secrets \cup {"absent"} /\ crashed \in BOOLEAN
  /\ flow \in [Flows -> [pc : Waiting \cup Working, typed : Secrets \cup {"absent"},
                         save : BOOLEAN, id : Ids \cup {NoId},
                         useVault : BOOLEAN, cred : Secrets]]
  /\ screens \in Seq(Flows)
  /\ \A f \in Flows : flow[f].pc \in Waiting <=> \E n \in 1..Len(screens) : screens[n] = f
  /\ \A m, n \in 1..Len(screens) : screens[m] = screens[n] => m = n

\* Two flows that ask for the master password at once, the first time, do not
\* open two vaults: lock() would reach only one of them.
OneVault == opened <= 1 /\ (vault = "unopened" => opened = 0)

\* A connection that was to be saved is not even tried before its profile and
\* its secret are in the vault (where the user may delete them again).
SavedFirst ==
  \A f \in Flows : flow[f].save /\ flow[f].pc \in {"resolve", "secret", "connecting", "trust"} =>
    /\ flow[f].id # NoId
    /\ flow[f].id \in deleted \/ stored[flow[f].id] = flow[f].typed

\* "Changed key: a hard failure with no 'accept anyway' path" (hostkeys.py): nothing
\* is added to known_hosts for a host that has a key there.  A prompt that is still
\* up when another has been accepted adds a second key.
ChangedKeyStops == [][known # {} => known' = known]_vars

\* Every flow ends: trusting a key leads to one more try, not to another prompt.
ConnectEnds == \A f \in Flows : []<>(flow[f].pc = "idle")

\* The documented order puts the secret of the vault before the cached one.
VaultBeatsCache ==
  [][\A f \in Flows :
       /\ flow[f].pc = "resolve" /\ flow'[f].pc = "connecting"
       /\ flow[f].typed = "absent" /\ method # "agent" /\ Stored(f) # "none"
       => flow'[f].cred = Stored(f)]_vars

=============================================================================
