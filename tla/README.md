# A TLA+ model of surftp

surftp is a two-pane file manager for the terminal: local disk on one side,
SFTP, SCP or FTP servers on the other, remote shells below, and a vault for the
credentials. It is written in Python on Textual: one asyncio event loop runs
every worker (`@work`), each open shell adds a reader thread and a child process.

This directory models the parts of it that decide something over several steps,
checks them with TLC on small instances, and proves the most important
properties with TLAPS for every instance. `PROJECT.json` lists which definition
stands for which lines, and each hazard of the code at its line with the
property that covers it.

## The system

| component | state it keeps | operations | what it talks to |
|---|---|---|---|
| transfer engine (`transfer/engine.py`, `types.py`) | state and progress of each item, `_cancelled`, semaphore, partial files at the destination | `run`, `_copy_file` (conflict, attempts, back-off, clean-up), `cancel` | two file systems (awaited calls), a conflict dialog, progress callback |
| planner, tuning (`planner.py`, `tuning.py`) | none | `plan_transfer`, `tuning_for` | a file system's `walk` |
| transfer worker (`app.py` 720-828) | `_current_engine` | `transfer_flow`, `_delete_source`, `action_cancel_transfer` | engine, panes |
| shell session (`shell/session.py`, `emulator.py`, `app.py` 871-952) | `_unacked`, `_exited`, two pipes, the emulator's screen | drain, `next_message`, `resize`, `close` | SSH channel, child process, reader thread, event loop |
| session tabs (`widgets/sessions.py`) | panes and active tab of each side, each pane's connection | `open_session`, `close_active_session`, `activate`, `on_unmount` | `attach`, `disconnect_flow`, `close_everything` of `app.py`; the current engine |
| panes and focus (`widgets/pane.py`, `app.py` 132-210) | path, hidden flag and listing of a pane; `_active_side`, `_focus_intent` | `load_directory`, `go_parent`, `open_selected`, `toggle_hidden`, `refresh_listing`; focus actions, `on_descendant_focus` | Textual's focus and its events, a file system's `list_directory` |
| vault (`store/vault.py`, `crypto.py`) | DuckDB file, `_dek` | create, open, unlock, lock, profiles, secrets, forwards, new master password | `ensure_vault`, `persist_profile`, profile picker |
| migration (`store/schema.py`) | schema version, columns, backup file | `migrate` | the vault's file |
| connecting (`app.py` 238-470, `net/connect.py`, `hostkeys.py`, dialogs) | stack of dialogs, `_vault`, credential cache, `known_hosts` | `connect_flow`, `profiles_flow`, `ensure_vault`, `resolve_credential`, `open_connection`, `offer_host_key`, `remember_host_key` | the user, the server, the vault |
| SSH sessions (`net/ssh.py`, `net/connect.py`, `widgets/bottom.py`, `app.py` 472-720 and 860-1000) | shared connections and their references, `_ssh_sessions`, `_shells`, shell tabs, forwards | attach, browse, disconnect, `shell_flow`, `close_shell`, `start_forward`, `stop_forward`, `close_everything` | connection manager (`net/manager.py`, imported but not in the repository) |
| remote file systems (`net/sftp.py`, `scp.py`, `ftp.py`) | FTP client | list, stat, open, mkdir, remove, rename | asyncssh, aioftp |

What is hard here: tasks of one transfer that interleave at every call to a
server; failures and lost answers at each of them, with retries; cancellation by
key and by the end of the application; workers of the one loop that read state,
await, and use it; dialogs that stack; connections that several users share; the
two threads, the child and the two bounded pipes of a shell; a database file that
survives crashes between statements.

What makes each component correct:

- engine: a final name shows its old content or a complete copy; DONE means
  delivered; a retry does nothing twice; no partial file stays; every item is
  counted; `run` ends (names must be separate: finding).
- planner: everything readable is planned once, parents first; a directory that
  is DONE exists (it need not).
- move: only what was delivered is deleted (it is not: finding), and only when
  nothing copies any more.
- shell: no byte is lost, a held-back frame is painted, `close` leaves nothing
  behind; the window bounds what is in flight, and the event loop is never blocked
  for good (neither holds; the latter is a finding).
- tabs: no tab without its connection or connection without its tab, no
  connection given up twice; no tab closed under a transfer, nothing missed by the
  shutdown (neither holds).
- panes: a pane shows the directory it is in; keys act where the focus is (not
  always).
- vault: secrets stay readable through password changes, migrations and crashes;
  a vault is of one version; no orphans; a faithful backup precedes the first
  change (it need not).
- connecting: one vault; what is to be saved is saved before it is used; every
  flow ends; the vault's secret comes before a cached one (it does not: finding); a
  changed host key is never accepted (it can be).
- SSH sessions: a session that is listed is open, a bound port can be stopped; a
  connection lives as long as somebody holds it and no longer, no shell and no
  port outlives what could stop it (the latter three do not hold).

## The modules

- **TransferJob**: the data of a job. Files are numbers, names are values, and a
  file's content is a sequence of blocks tagged with the file they come from, so
  a truncated or mixed file differs from a complete copy.
- **AtomicCopy**: what the engine promises, with no partial files and no
  retries: a complete copy appears under its final name in one step, or nothing
  does; a settled item stays settled.
- **TransferEngine**: `run` and its tasks. `pc[f]` is the call that the task of
  file *f* awaits; an action is the answer to that call with all the code that
  runs until the next await. One event loop makes that exact: nothing else runs
  in between. `Faults` are the exceptions a call may raise (transient, permanent,
  foreign to `FileSystemError`); the rename may fail after it took effect.
  `Thrown...` are the arrivals of `CancelledError` when the worker is cancelled.
  Open handles follow a renamed or removed file (`Moved`), as on POSIX.
- **MoveFlow**: `transfer_flow` around the engine: it extends TransferEngine, and
  its steps leave the engine's variables alone. Nothing in the code keeps the two
  panes apart: with both on one directory (`onto`) the sources are the destination,
  and deleting the one deletes the other.
- **MirrorTree**: the directories of a job, from the walk of the source to their
  creation: `plan_transfer`, the first loop of `run`, and `make_directory` in two
  kinds, at once (`makedirs`) and level by level (FTP). TransferEngine takes the
  creation of a directory as one answer; this module opens it up. A call of aioftp's
  `make_directory` makes what is missing of the whole path (`MKD`) and succeeds on
  what is there; a refusal may come after some levels were made (`Refused`). `Above` is the
  smallest set that holds a place's parent and all parents of what it holds: not a
  recursion, so that it can be reasoned about. `MirrorAssumption` says that the
  source is a finite tree and that a listing names what is in a directory once.
- **ShellSession**: three actors, two bounded pipes, one counter. A send on a full
  pipe has no step, so it blocks its sender; a sender on the event loop holds
  `loop`. Each update of `_unacked` is a load and a store, and the other thread may
  always run in between. The bytes in a pipe are counted as a set (`BytesOf`), one
  element for each byte of each message.
- **SessionTabs**: tabs and connections, with the workers that open, disconnect,
  transfer and shut down as processes that interleave at their awaits. An
  exception in a worker ends the application, as Textual does (`crashed`). A tab is
  taken out at its index (`TakeOut`), as `list.index` and `list.pop` do; the two Local
  panes are named `"left"` and `"right"`, and no session is. The shutdown walks each
  side's panes as they were when it came to that side, and `on_unmount` passes once
  over the list itself (`visited`), while workers may still add to it.
- **Panes**: the tracked side and tab against Textual's focus, which is applied
  later (`asks`) and reported by events (`events`), which may arrive in any order;
  and the listing of a pane,
  whose workers (`loads`, `climbs`) are cancelled by a newer `load_directory`.
- **Vault**: the file and the process. A statement outside a transaction is a
  step; `op` is the next statement of the operation under way; `Crash` and
  `StatementFails` may come before it. A ciphertext is named by the data key it
  is encrypted under. The copy of the file takes time: one that is broken off
  stays as a torn backup, and one of a vault whose last process was killed may lack
  the rows that are only in DuckDB's log.
- **SecretStore**: what the vault promises, with no file, no statements, no migration
  and no crash: what was put stays, under the master password of the day, until
  somebody who has the vault open takes it out. Vault implements it: `Kept` are the
  secrets that the data key of the meta row decrypts, `Access` is what the process
  holds; a migration is an opening, a crash a closing, and a statement that fails
  nothing at all.
- **ConnectFlow**: the flows that open a connection, as processes that
  interleave at their awaits. `screens` is the stack of modal dialogs, named by
  the flow that waits for each: only the topmost can be answered. It follows the
  credential through typed, cached, stored and prompted, and the host key from
  the failed connection to `known_hosts` and the second attempt. Where an
  exception passes every handler, the application ends.
- **SshSessions**: who holds a connection (`refs` against `owner`, `sessions` and
  the workers under way) and what runs on it (shells, forwards). `rows` is what
  the Connections panel lists, which may be older than `link`. A worker that starts
  a shell has a child before its channel is open (`starting`), and one that starts a
  forward has a port before it has the handle (`binding`); neither looks again at
  the connection when its await is over.
- **MC...**: instances for TLC, where a `.cfg` cannot hold the value.
- **TransferProofs**: the theorems about TransferEngine and MoveFlow.
- The other **...Proofs**: the theorems about the module named before.

TransferJob, TransferEngine and MoveFlow compose by extension. The other modules
meet at interfaces that each models from its own side: the vault is a state and
a secret per profile in ConnectFlow and a file of statements in Vault; a
connection that ConnectFlow hands over is what SshSessions counts and SessionTabs
gives a tab.

Mutants: definitions marked "Mutant" are not part of the model. Each is the
definition next to it with a plausible mistake; put in its place, it makes the
property named in `PROJECT.json` fail, which shows that the property looks at
the code and not past it.

## The runs

| run | instance | what it shows |
|---|---|---|
| `transfer` | two files, a directory, a name and its first alternative taken, two slots, one retry, all three answers to a conflict, stat errors | the destination is intact, DONE is delivered, no partial file stays and every item is counted, through every interleaving of failures, retries, cancellation and interruption; AtomicCopy is implemented; deletion waits for rest; the worker ends |
| `engine_clash` (violation) | files `a` and `a.1`, RENAME | two tasks share one partial file |
| `move_loss` (violation) | as `transfer`, one slot | the source of a file that was not copied is deleted |
| `mirror` | three directories in a directory, two files, both kinds of `make_directory` | the plan is the readable tree; FTP stays within the path it was asked for |
| `shell` | 3 bytes of output, window 2, chunk 2, a resize, 2 messages to the child, 8 to the parent | output conserved and painted, close complete |
| `shell_deadlock` (violation) | 6 bytes in chunks of 1, window 4, pipes of 2 and 3 | the event loop, the child and the reader thread wait in a circle |
| `tabs` | two sessions, limit 1, two disconnects, one transfer | tabs and connections agree; a pane gives its connection up once |
| `panes` | one tab left, two right, a bottom panel; four directories, two `go_parent` workers; three requests and events waiting | listings and late answers do not mislead |
| `vault` | two profiles, passwords and keys, the eight columns of schema 2 | creation, migration, deletion, password changes with crashes between any two statements; SecretStore is implemented |
| `connect` | two flows, two host keys, one profile id, a password, a key with a passphrase or an agent | one vault is opened, saving comes first, every flow ends |
| `connect_cache` (violation) | the same, with a password | the cache is used before the vault |
| `ssh` | two connections, a pane, two shells, two workers, one forward | a listed session is open; a bound port of an open connection can be stopped |

Bounds. Two files and two slots are the smallest instance in which tasks meet;
three would only repeat pairs, since tasks share nothing but names and slots. One
retry shows a second attempt and the limit. A block per file is enough for a
truncated copy, the empty one. The application always asks about a conflict; the
policy `overwrite` stands for one that needs no answer. `b` is not at the destination,
so the panes show different directories; `MoveFlowOnto.cfg` has them show one.
In `mirror` the directory `t/a/b` is two levels below the selected one, so that
FTP's way up and down has a level between. Three bytes against a window of two
fill it beyond its limit, drain it and fill it again; the pipe to the child (2)
fills. The pipe to the parent (8) is larger than anything in flight in `shell`: that
excludes the circular wait, under which neither of its liveness properties could
hold and which `shell_deadlock` shows with smaller pipes. Two sessions
against a limit of one put a session over it; the code's limit of 8 is a
constant. In `panes`, `MaxPending` = 3 lets a click, a key and an event wait
together, which is what the intent is for; the listing of one pane is followed,
since panes share nothing but the active side. In `connect`, `Ids` bounds the
profiles that are saved (`RoomToSave`: a flow saves only while an id is left for
it); a key without a passphrase is left to the proofs, since it differs only in
asking for nothing. In `ssh`, two connections are one shared and one dedicated, or two of
either; `Input` stops new requests once the application quits, not those under
way; `FewLeaks` stops at four references to one connection, more than there are
holders, so that one or two are lost. SYMMETRY is used in `tabs` and `ssh`,
which check no liveness.

Fairness. Move: the event loop runs every task that is ready, every file-system
call is answered or fails, at the latest when its connection ends, the dialog about
a conflict is answered (it is modal), and the worker goes on; nobody has to cancel.
Shell: threads and processes that can run do run; asyncio's ready queue is first in, first out, so a callback that waits for the
loop is not overtaken for ever: strong fairness for the drain task and for
painting, which compete for the loop. The remote command need not exit and the
user need not close or resize anything. Connect: a call to
the network is answered or fails (`net/ssh.py` and `net/ftp.py` set a timeout for
connecting; the fetch of a host key has none in the code and ends by that of
TCP), so a flow's own steps go on; dialogs are modal, so the user answers the one on top
sooner or later. The user need not begin a flow, lock the vault or delete
anything. The other modules are checked for safety only.

## What the violations show

Each is reported in `findings` with the line of the repository it contradicts.

- `engine_clash`: under RENAME two files of a job can be given one name, and then
  share one partial file.
- `move_loss`: a move deletes what it did not copy.
- `shell_deadlock`: `close` sends on a full pipe while the child blocks on the other
  one. With the real figures (a window of 256 KiB, socket buffers of about 200 KiB,
  up to thirty frames a second of some kilobytes each) both pipes can fill once the
  reader thread has stopped. `OutputPainted` and `CloseEnds` hold only where this
  does not happen, which is what the large pipe of `shell` stands for.
- `connect_cache`: the cached credential comes before the one in the vault.

More sentences of the repository are refuted by the models. Each is stated in its
module next to the properties that hold, with a `.cfg` that makes TLC print the
behaviour (`tlc -config <cfg> <module>`); none is proved or claimed, and no
passing run assumes it.

| stated | refuted with | what TLC finds |
|---|---|---|
| `WholeMoveLosesNothing` (`app.py:725`) | MCMoveFlow, `MoveFlowOnto.cfg` | a move of a directory onto itself (`app.py:734-739` compares nothing) reports every item DONE and then deletes the only copy |
| `DoneIsMade` (`net/ftp.py:196-199`) | MCMirrorTree, `MirrorTreeDone.cfg` | FTP's `make_directory` ends its way up at the first level that is there: a directory refused below an existing parent is DONE and missing |
| `ReadsWithinWindow` (`session.py:12-14`) | ShellSession, `ShellSessionWindow.cfg` | two threads update `_unacked` without a lock; an addition is lost and the window exceeded. A subtraction may be lost as well, and the drain task may then wait for ever (the liveness properties ask nothing of output that was not read) |
| `NeverClosedUnderTransfer` (`sessions.py:148`) | MCSessionTabs, `SessionTabsTransfers.cfg` | two transfers share `_current_engine`; the end of the one leaves the other unguarded |
| `WalkClosesAll` (`app.py:226`) | MCSessionTabs, `SessionTabsWalk.cfg` | a connection is attached to a side that the shutdown has walked. `on_unmount` passes over the panes once more; whether a worker still runs by then is up to Textual |
| `SideFollowsFocus` (`app.py:150-154`) | MCPanes, `PanesFocus.cfg` | an old focus event that lands when no intent is pending is obeyed |
| `BackupIsWhole` (`schema.py:111-114`) | Vault, `VaultBackup.cfg` | a copy that broke off counts as the backup at the next start |
| `BackupIsFaithful` (`vault.py:110-112`) | Vault, `VaultBackupLog.cfg` | the copy is of the database file alone, without DuckDB's log |
| `ChangedKeyStops` (`hostkeys.py:7-12`) | MCConnectFlow, `ConnectFlowKeys.cfg` | `remember_host_key` appends whatever key the second fetch shows, also for a host that was given a key while the prompt was up |
| `PaneKeepsAlive` (`app.py:652-653`) | MCSshSessions, `SshSessionsDisconnect.cfg` | a second disconnect releases a reference that a pane holds |
| `LastReleaseCloses` (`connect.py:83`) | MCSshSessions, `SshSessionsBrowse.cfg` | a browse that fails keeps its reference |
| `TabsReachable` (`app.py:543`) | MCSshSessions, `SshSessionsTabs.cfg` | two workers pass the look at `_shells`; the second one's shell replaces the first one's, which still runs |
| `PortsFreed` (`ssh.py:460`) | MCSshSessions, `SshSessionsPorts.cfg` | a forward whose bind ends after `close` keeps its port |

What the models show besides, where no sentence of the repository says otherwise:

- Under SKIP or RENAME a `stat` that fails counts as "does not exist", and the
  file is overwritten (`StatErrors`).
- The last frames of a shell that exits may not be painted (`OutputPainted` exempts
  them).
- `OpenConnectionError`, any failure of the second fetch of a host key, and an error
  of DuckDB while the vault is opened pass every handler: the worker dies and the
  application with it.
- A shell's tab is named by the number of tabs; after one was closed the name may
  be taken, which raises in the worker. `list.index()` raises in the second of two
  disconnects of one tab.
- `put_secret` deletes before it inserts, without a transaction: if the second statement
  fails the old secret is gone too (SecretStore allows it, as `TakeOut`).
- A crash between the creation of the tables and the meta row leaves a vault file
  that can be neither unlocked nor created again.

And what the models take for granted:

- The partial names (`.surftp-partial-...`) and the final names do not meet, and
  nobody else writes to the destination; a source file does not change while it
  is read.
- A reader handle that leaks when `open_write` fails is not tracked; writes that
  a thread finishes after its task was cancelled are covered by the step in which
  the cancelled call still takes effect.
- The child acknowledges a whole message, and does not hang.
- In the vault a profile has one kind of secret and at most one forward. The ids
  come from a sequence and are never used twice. The tables of `create_schema`
  are made in one step. Secrets are stored only for a profile just saved, as
  `persist_profile` does; forwards for any profile ever saved, since an SSH session
  outlives its profile's row.
- A database that has a file and no tables is not opened: the first query raises.
  An old vault has its meta row: one without it would be opened and given tables, but
  never unlocked.
- SshSessions looks at connections that are closed by the application: one that the
  network breaks stays listed until somebody closes it, and what runs on it fails.
- ConnectFlow looks at one host and one way to authenticate at a time: flows to
  different hosts share only the vault and the stack of dialogs.
- The connection manager joins connections of one key, counts, closes at zero and
  ignores what is closed; the credential cache gives back what was put last;
  asyncssh refuses a forward that is asked for on a connection that was closed;
  aioftp's `make_directory` makes what is missing of the path and succeeds on what
  is there. None of these is
  in the repository; all are modelled from how the code uses them.

## The proofs

Checked by TLAPS, with no bound on files, sizes, slots, retries, output, windows,
pipes, directories, profiles, columns, sessions, connections, panes, workers, flows
or keys. Every safety property that a passing run checks, each type invariant
included, is stated by a theorem here. Each rests on an inductive invariant, the
interesting part of which is named below; those that took more than a guess
(`CountInv`, `TabInv`, `WalkInv`, `LoopInv`, `SessionInv`) were checked by
TLC on the instances of the runs before they were proved.

TransferEngine and MoveFlow (TransferProofs):

- `TypeCorrect`: the type invariant of the engine. Inductive with two facts
  beside it: a handle is on a file that exists (`HandlesAttached`) and no attempt
  is beyond the limit when it fails (`RetriesLeft`).
- `DestinationIntact`, `DoneIsDelivered`: under `SeparateNames` (no two files of the
  job can be given the same name; `engine_clash` shows why it is needed). The
  inductive invariant `CopyInv` says, for each file by itself, what its partial
  file holds at each point of its attempt: the first `offset` blocks of that file
  and nothing else while it copies, a complete copy when it is about to be
  renamed. Separate names make it local: a step of one task disturbs no partial
  or final name of another (`OwnTarget`, `OthersKeepCopy`).
- `PartialFilesAreRemoved`: without `SeparateNames`. `LeftInv` says that, until
  the worker is interrupted, a partial file belongs to some task that has yet to
  rename or remove it, or could not; a task that shares the name can only take it
  away or renew it.
- `EngineIsAtomic`: the engine implements AtomicCopy. `Outcome` maps item states
  to outcomes, and every step is a delivery, a surrender or a stutter.
- `ResultCountsEveryItem`: without `SeparateNames`. `CountInv` says what state the item
  of a task can be in at each of its calls, so that a task at its end has settled its
  item or died before its first attempt; the sets of items in each state then part
  the set of all items, and their sizes add up.
- `DeletionWaits`: nothing is deleted before the engine is at rest. It needs
  that `returned` is final: every task is at its end and no step is left
  (`RestStep`), and that the worker runs the engine and nothing else moves its
  variables (`MoveRunsEngine`).

ShellSession (every theorem is about all sizes of the queue, pipes and chunks):

- `ShellTypes`: with the types of the messages in the pipes and in the reader's hand;
  only a drain task that has read a chunk holds one.
- `NoOutputIsLost`: `ConserveInv` also bounds what is under way by the output. It needs
  what a send and a receive do to the bytes of a pipe (`BytesAppend`, `BytesTail`).

MirrorTree:

- `MirrorTypes`: with the levels that `make_directory` of FTP has in hand, which are
  above what it was asked for and never the root: `LoopInv` says that the level FTP
  is at belongs to the path of the item in hand.
- `PlanHoldsTheTree`: `WalkInv` says that what waits to be visited has not been, that it
  is above nothing that was seen, and that the contents of what was listed have been
  seen. When nothing waits, the entry nearest to the top that can be read and was not
  planned would have a parent that was listed. The nearest one exists because the tree
  is finite: `Above` shrinks strictly towards the top, and strict inclusion of finite
  sets is well founded. So an induction is done with a least counterexample, where a
  theorem that takes an operator could not be cited.

Vault:

- `MigrationIsWhole`, `SecretsStayReadable`, `VaultTypes`, and
  `SecretsGoFirst` (what SecretStore asks of a deletion, as an invariant): conjuncts of
  one inductive invariant, `VaultInv`. It adds what holds between the statements of an
  operation (`OpInv`) and of a file that is no vault of this release yet (`FileInv`);
  the steps are grouped as in `Next`.
- `VaultIsSecretStore`: Vault implements SecretStore. Each statement is one step of
  SecretStore or none; the same invariant says that a key is at hand when a secret is
  put, that nothing is stored when a vault is founded, and that a profile's secret is
  gone when its row goes. Beyond `SecretsStayReadable`, which a migration that emptied
  the table would satisfy, it says that nothing is lost.

SshSessions:

- `SshTypes`: with what a worker holds at each of its awaits (`JobInv`). That an
  open connection has a reference, and a closed one none, is part of it.
- `PortsStayListed`: `PortInv` says that a forward which is listed, or is about to be
  by the worker that bound it, has its port, and that no two workers bind one. Every
  step keeps the ports, binds one, stops one, or closes connections (`PortSteps`).
- `SessionsOutlivePanes`: `SessionInv` says that a connection whose session is listed
  has a reference for each of its holders. The holders are a finite set that each
  step leaves, extends by one or reduces by one (`HoldKept`, `HoldGains`,
  `HoldLoses`), as `refs` is; one lemma for each group of actions says which. The
  count may be too high (`browse_sftp` loses references), and of a session that is
  no longer listed nothing is said (a second disconnect takes one too many).

ConnectFlow:

- `DialogsHaveOwners`: the type invariant, whose second half is the stack: each
  flow that waits is on it once. Steps are a push, a pop or neither, and move
  the flow's `pc` accordingly (`StackStep`).
- `OneVaultIsOpened`, `SavedBeforeTried`: by what a flow carries from step to step
  (`SaveOne` is local to a flow; only deletion reaches over from another).

SessionTabs:

- `TabTypes`, `OpenSessionsAreListed`: `TabInv` says of each session that it is listed on
  the side it was attached to and nowhere else, that its pane holds its connection
  exactly while it is open, and that a worker which closes it will look for it where it
  is listed. The lists of tabs stay free of duplicates as a pane is added or taken out
  (`AppendTabs`, `TakeOutTabs`).
- `PanesGiveUpOnce`: who awaits the close of a connection does so alone (`AloneInv`),
  because a pane gives its connection up in the step in which the await begins;
  whoever comes later finds none.

Panes:

- `PanesShowTheirDirectory`, `LateParentsAreDropped`: with `ListInv`, which says that
  a pane lists at most the directory it is in. Every change of the path cancels
  what was under way.
- `PaneTypes`: the type invariant, whatever the order of focus events. It needs that
  an event taken out of the middle of the queue leaves a queue (`RemoveAtTyped`).

Only model-checked are the four liveness properties `FlowEnds`, `OutputPainted`,
`CloseEnds` and `ConnectEnds`: they rest on fairness, whose meaning is ENABLED, which
the provers here do not handle. The violations are of single instances and belong to
TLC as well.

## Not modelled

- FTP connections and SCP: FTP has no host key and no shared connection; `scp.py`
  is called by nothing.
- A stored key as PEM text and several identity files: they change where a secret
  comes from, not when.
- The readiness of a pane before it is mounted, rendering, the key map, formatting,
  CSS and the fields of forms: no state that a property needs.
- `tuning_for`: a choice of constants; the engine is modelled for every choice.
- `transfers.py`, progress and speed: display.
- The wrappers of `net/sftp.py`, `net/ftp.py` and `fs/local.py` beyond opening,
  renaming, removing and making directories: their answers are chosen
  nondeterministically.
- Textual, asyncssh, aioftp, DuckDB and pyte are external.

## Plan

1. TransferJob, AtomicCopy, TransferEngine and its proofs. *Done.*
2. MoveFlow and its proofs. *Done.*
3. ShellSession and its proofs. *Done.*
4. SessionTabs and its proofs. *Done.*
5. Vault with its migration and its proofs. *Done.*
6. SshSessions (references, shells, forwards) and its proofs. *Done.*
7. ConnectFlow and its proofs. *Done.*
8. Panes: focus and listings, and its proofs. *Done.*
9. MirrorTree: planner and FTP `make_directory`, and its proofs. *Done.*
10. SecretStore, and the proof that Vault implements it. *Done.*
11. The same for the shared connections of SshSessions.
