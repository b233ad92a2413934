---------------------------- MODULE SshSessions ----------------------------
(***************************************************************************)
(* Who holds an SSH connection, and what runs on it: open_connection() and *)
(* RemoteConnection.close() of net/connect.py, SSHSession and its forwards *)
(* of net/ssh.py, the shell tabs of widgets/bottom.py and the workers of   *)
(* app.py that join them.  A worker runs on the event loop from one await  *)
(* to the next.                                                            *)
(*                                                                         *)
(* The connection manager (net/manager.py) is not in the repository.  It   *)
(* is modelled from its use: acquire() joins an open connection of the     *)
(* same key or opens one, retain() and release() count, the last release   *)
(* closes, and what is closed is not counted.                              *)
(***************************************************************************)
EXTENDS Integers, FiniteSets

CONSTANTS
  Conns,     \* SSHSession objects
  Panes,     \* file panes
  Shells,    \* ShellSession objects
  Workers,   \* workers that may run at once
  Ports,     \* forwards of the profile, each on a port of its own
  NoOne

ASSUME SshAssumption ==
  /\ IsFiniteSet(Panes) /\ IsFiniteSet(Workers) /\ IsFiniteSet(Shells)
  /\ Panes \cap Conns = {} /\ Workers \cap (Panes \cup Conns) = {}
  /\ NoOne \notin Conns \cup Panes \cup Shells

Keys == Panes \cup Conns

VARIABLES
  shared,    \* connections of a profile that shares (SFTP); the others are SSH
  link,      \* state of each connection
  refs,      \* references the manager counts
  rows,      \* the connections the Connections panel lists
  owner,     \* owner[x]: the connection pane x holds
  sessions,  \* _ssh_sessions
  shellAt,   \* _shells
  running,   \* shells whose child process runs
  starting,  \* starting[w]: the shell whose channel worker w awaits
  tabs,      \* _shell_views, as pairs of tab id and shell
  forwards,  \* _forwards of each connection
  bound,     \* bound[i]: the connection whose listener holds port i
  binding,   \* binding[w]: the port whose bind worker w has not come back from
  job,       \* job[w]: what worker w awaits
  quit,      \* where close_everything() is
  toVisit,   \* panes it has still to close
  crashed    \* a worker died of an exception, and the application with it

managerVars == <<shared, link, refs>>
shellVars == <<shellAt, running, starting, tabs>>
forwardVars == <<forwards, bound, binding>>
quitVars == <<quit, toVisit>>
vars == <<managerVars, rows, owner, sessions, shellVars, forwardVars, job, quitVars,
          crashed>>

Idle == [pc |-> "idle", conn |-> NoOne, key |-> NoOne, todo |-> {}]

Init ==
  /\ shared = {} /\ rows = {} /\ sessions = {} /\ running = {} /\ tabs = {}
  /\ link = [c \in Conns |-> "none"] /\ refs = [c \in Conns |-> 0]
  /\ owner = [x \in Panes |-> NoOne]
  /\ shellAt = [k \in Keys |-> NoOne] /\ starting = [w \in Workers |-> NoOne]
  /\ forwards = [c \in Conns |-> {}] /\ bound = [i \in Ports |-> NoOne]
  /\ binding = [w \in Workers |-> {}]
  /\ job = [w \in Workers |-> Idle]
  /\ quit = "no" /\ toVisit = {} /\ crashed = FALSE

Up == quit # "done" /\ ~crashed

\* Bound: the user asks for nothing more once the application quits; what is
\* under way goes on.
Input == Up /\ quit = "no"

IsOpen(c) == link[c] = "open"

\* _refresh_connections_panel(): the rows are those of this moment.
RefreshRows == rows' = {c \in Conns : link'[c] = "open"}

Goto(w, pc, c, k, todo) ==
  job' = [job EXCEPT ![w] = [pc |-> pc, conn |-> c, key |-> k, todo |-> todo]]

----------------------------------------------------------------------------
(* The manager's counts, and the end of a connection. *)

Count(c) == refs' = [refs EXCEPT ![c] = @ + 1]

\* SSHSession.close(): every forward it knows is stopped, then the transport.
CloseLinks(C) ==
  /\ link' = [c \in Conns |-> IF c \in C THEN "closed" ELSE link[c]]
  /\ forwards' = [c \in Conns |-> IF c \in C THEN {} ELSE forwards[c]]
  /\ bound' = [i \in Ports |->
       IF \E c \in C : bound[i] = c /\ i \in forwards[c] THEN NoOne ELSE bound[i]]
  /\ UNCHANGED binding

\* Mutant: a closed connection is released once more.
ReleaseAlways(c) ==
  /\ refs' = [refs EXCEPT ![c] = @ - 1]
  /\ CloseLinks(IF refs[c] = 1 THEN {c} ELSE {})

Release(c) ==
  \/ /\ IsOpen(c)
     /\ refs' = [refs EXCEPT ![c] = @ - 1]
     /\ CloseLinks(IF refs[c] = 1 THEN {c} ELSE {})
  \/ /\ ~IsOpen(c)
     /\ UNCHANGED <<link, refs, forwardVars>>

----------------------------------------------------------------------------
(* Connecting: open_connection() and attach().  The connection counts from the
   moment acquire() has it. *)

\* acquire() finds an open connection of the same connection_key(); the SFTP
\* channel is asked for.
AcquireShared(w, c) ==
  /\ Input /\ job[w] = Idle
  /\ IsOpen(c) /\ c \in shared
  /\ Count(c)
  /\ Goto(w, "channel", c, NoOne, {})
  /\ UNCHANGED <<shared, link, rows, owner, sessions, shellVars, forwardVars, quitVars,
                 crashed>>

\* ... or authenticates a new one.
AcquireNew(w, c) ==
  /\ Input /\ job[w] = Idle
  /\ link[c] = "none" /\ \A d \in shared : ~IsOpen(d)
  /\ link' = [link EXCEPT ![c] = "open"] /\ Count(c)
  /\ shared' = shared \cup {c}
  /\ Goto(w, "channel", c, NoOne, {})
  /\ UNCHANGED <<rows, owner, sessions, shellVars, forwardVars, quitVars, crashed>>

\* ShellSession.start(): the child is spawned, and then the channel awaited.
Spawn(w, h) ==
  /\ h \notin running /\ \A t \in tabs : t[2] # h
  /\ running' = running \cup {h}
  /\ starting' = [starting EXCEPT ![w] = h]

\* An SSH profile has a connection of its own; attach_ssh() lists it, opens its
\* shell unless the user did not ask for one, and then the forwards.
AcquireDedicated(w, c) ==
  /\ Input /\ job[w] = Idle
  /\ link[c] = "none"
  /\ link' = [link EXCEPT ![c] = "open"] /\ Count(c)
  /\ sessions' = sessions \cup {c}
  /\ \/ /\ Goto(w, "start", c, c, Ports)
        /\ \E h \in Shells : Spawn(w, h)
     \/ /\ Goto(w, "forward", c, c, Ports)
        /\ UNCHANGED <<running, starting>>
  /\ UNCHANGED <<shared, rows, owner, shellAt, tabs, forwardVars, quitVars, crashed>>

\* The channel is up: the pane gets the connection, with its reference.
ChannelUp(w, x) ==
  LET c == job[w].conn IN
  /\ Up /\ job[w].pc \in {"channel", "browse"} /\ IsOpen(c)
  /\ owner[x] = NoOne /\ shellAt[x] = NoOne /\ \A v \in Workers : job[v].key # x
  /\ owner' = [owner EXCEPT ![x] = c]
  /\ job' = [job EXCEPT ![w] = Idle]
  /\ UNCHANGED managerVars /\ RefreshRows
  /\ UNCHANGED <<sessions, shellVars, forwardVars, quitVars, crashed>>

\* attach(): a side without room closes the connection it was given.
NoRoom(w) ==
  /\ Up /\ job[w].pc \in {"channel", "browse"}
  /\ Release(job[w].conn)
  /\ job' = [job EXCEPT ![w] = Idle]
  /\ UNCHANGED <<shared, rows, owner, sessions, shellVars, quitVars, crashed>>

\* open_connection() releases and raises OpenConnectionError, which is no
\* NetworkError: connect_profile() does not catch it.
ChannelFails(w) ==
  /\ Up /\ job[w].pc = "channel"
  /\ Release(job[w].conn)
  /\ job' = [job EXCEPT ![w] = Idle] /\ crashed' = TRUE
  /\ UNCHANGED <<shared, rows, owner, sessions, shellVars, quitVars>>

----------------------------------------------------------------------------
(* The Connections panel: browse_sftp() and disconnect_ssh(). *)

\* Mutant: the pane is granted no reference of its own.
BrowseUncounted(w, c) ==
  /\ Input /\ job[w] = Idle /\ c \in rows /\ IsOpen(c)
  /\ Goto(w, "browse", c, NoOne, {})
  /\ UNCHANGED <<managerVars, rows, owner, sessions, shellVars, forwardVars, quitVars,
                 crashed>>

BrowseBegin(w, c) ==
  /\ Input /\ job[w] = Idle /\ c \in rows /\ IsOpen(c)
  /\ Count(c)
  /\ Goto(w, "browse", c, NoOne, {})
  /\ UNCHANGED <<shared, link, rows, owner, sessions, shellVars, forwardVars, quitVars,
                 crashed>>

\* The reference that was retained is not given back.
BrowseFails(w) ==
  /\ Up /\ job[w].pc = "browse"
  /\ job' = [job EXCEPT ![w] = Idle]
  /\ UNCHANGED <<managerVars, rows, owner, sessions, shellVars, forwardVars, quitVars, crashed>>

\* close_shell(): the shell of one key is forgotten, its tab removed, its child
\* killed.
CloseShellAt(k) ==
  /\ shellAt' = [shellAt EXCEPT ![k] = NoOne]
  /\ running' = running \ {shellAt[k]}
  /\ tabs' = {t \in tabs : t[2] # shellAt[k]}
  /\ UNCHANGED starting

\* disconnect_ssh() on a row, whoever holds the connection of that row.
Disconnect(c) ==
  /\ Input /\ c \in rows
  /\ sessions' = sessions \ {c}
  /\ CloseShellAt(c)
  /\ Release(c) /\ RefreshRows
  /\ UNCHANGED <<shared, owner, job, quitVars, crashed>>

\* disconnect_flow(): the pane's connection is closed, then the pane's shell.
ClosePane(w, x) ==
  /\ Input /\ job[w] = Idle /\ owner[x] # NoOne
  /\ owner' = [owner EXCEPT ![x] = NoOne]
  /\ Release(owner[x])
  /\ Goto(w, "closeShell", NoOne, x, {})
  /\ UNCHANGED <<shared, rows, sessions, shellVars, quitVars, crashed>>

ClosePaneShell(w) ==
  /\ Up /\ job[w].pc = "closeShell"
  /\ CloseShellAt(job[w].key)
  /\ job' = [job EXCEPT ![w] = Idle]
  /\ UNCHANGED <<managerVars, rows, owner, sessions, forwardVars, quitVars, crashed>>

----------------------------------------------------------------------------
(* Shells: shell_flow() and _open_ssh_shell(). *)

\* One shell per key, as far as _shells knows now; the start is awaited.
ShellBegin(w, k) ==
  /\ Input /\ job[w] = Idle
  /\ k \in rows \/ (k \in Panes /\ owner[k] # NoOne)
  /\ shellAt[k] = NoOne
  /\ Goto(w, "start", IF k \in Panes THEN owner[k] ELSE k, k, {})
  /\ \E h \in Shells : Spawn(w, h)
  /\ UNCHANGED <<managerVars, rows, owner, sessions, shellAt, tabs, forwardVars, quitVars,
                 crashed>>

\* What attach_ssh() does after the shell; the other starts are finished.
AfterShell(w) ==
  job' = [job EXCEPT ![w] = IF @.todo = {} THEN Idle ELSE [@ EXCEPT !.pc = "forward"]]

\* The shell is stored under its key and add_shell() names its tab by the number
\* of tabs.  A name that is taken is refused by the tab container, with an
\* exception.
ShellStarted(w) ==
  LET k == job[w].key
      h == starting[w]
      id == Cardinality(tabs)
      taken == \E t \in tabs : t[1] = id IN
  /\ Up /\ job[w].pc = "start" /\ IsOpen(job[w].conn)
  /\ shellAt' = [shellAt EXCEPT ![k] = h]
  /\ starting' = [starting EXCEPT ![w] = NoOne]
  /\ tabs' = {t \in tabs : t[1] # id} \cup {<<id, h>>}
  /\ crashed' = taken
  /\ AfterShell(w)
  /\ UNCHANGED <<managerVars, rows, owner, sessions, running, forwardVars, quitVars>>

\* There is no channel; the child is not told.
ShellFails(w) ==
  /\ Up /\ job[w].pc = "start"
  /\ starting' = [starting EXCEPT ![w] = NoOne]
  /\ AfterShell(w)
  /\ UNCHANGED <<managerVars, rows, owner, sessions, shellAt, running, tabs, forwardVars,
                 quitVars, crashed>>

\* A child that nobody has the other end of reads the end of its pipe and exits.
ChildEnds(h) ==
  /\ Up /\ h \in running
  /\ \A k \in Keys : shellAt[k] # h
  /\ \A w \in Workers : starting[w] # h
  /\ \A t \in tabs : t[2] # h
  /\ running' = running \ {h}
  /\ UNCHANGED <<managerVars, rows, owner, sessions, shellAt, starting, tabs, forwardVars,
                 job, quitVars, crashed>>

----------------------------------------------------------------------------
(* Forwards. *)

\* The forwards screen starts one forward; start_auto_forwards() all of them.
ForwardBegin(w, c, i) ==
  /\ Input /\ job[w] = Idle /\ c \in rows
  /\ Goto(w, "forward", c, c, {i})
  /\ UNCHANGED <<managerVars, rows, owner, sessions, shellVars, forwardVars, quitVars,
                 crashed>>

ForwardDone(w, i) == job' = [job EXCEPT ![w].todo = @ \ {i}]

\* A port that is free is bound; start_forward() awaits the listener.  asyncssh is
\* taken to refuse a forward on a connection that is closed already.
ForwardBinds(w, i) ==
  LET c == job[w].conn IN
  /\ Up /\ job[w].pc = "forward" /\ i \in job[w].todo /\ binding[w] = {}
  /\ IsOpen(c) /\ bound[i] = NoOne
  /\ bound' = [bound EXCEPT ![i] = c]
  /\ binding' = [binding EXCEPT ![w] = {i}]
  /\ UNCHANGED <<managerVars, rows, owner, sessions, shellVars, forwards, job, quitVars,
                 crashed>>

\* The handle is kept, whatever has become of the connection.
ForwardStarts(w, i) ==
  LET c == job[w].conn IN
  /\ Up /\ binding[w] = {i}
  /\ forwards' = [forwards EXCEPT ![c] = @ \cup {i}]
  /\ binding' = [binding EXCEPT ![w] = {}]
  /\ ForwardDone(w, i)
  /\ UNCHANGED <<managerVars, rows, owner, sessions, shellVars, bound, quitVars, crashed>>

\* A failure is reported by a handle nobody keeps; the rest goes on.
ForwardFails(w, i) ==
  /\ Up /\ job[w].pc = "forward" /\ i \in job[w].todo /\ binding[w] = {}
  /\ ForwardDone(w, i)
  /\ UNCHANGED <<managerVars, rows, owner, sessions, shellVars, forwardVars, quitVars,
                 crashed>>

ForwardsStarted(w) ==
  /\ Up /\ job[w].pc = "forward" /\ job[w].todo = {}
  /\ job' = [job EXCEPT ![w] = Idle]
  /\ UNCHANGED managerVars /\ RefreshRows
  /\ UNCHANGED <<owner, sessions, shellVars, forwardVars, quitVars, crashed>>

\* Mutant: the handle is dropped and its listener left.
StopForwardOnly(c, i) ==
  /\ Input /\ c \in rows /\ i \in forwards[c]
  /\ forwards' = [forwards EXCEPT ![c] = @ \ {i}]
  /\ UNCHANGED <<managerVars, rows, owner, sessions, shellVars, bound, binding, job, quitVars,
                 crashed>>

StopForward(c, i) ==
  /\ Input /\ c \in rows /\ i \in forwards[c]
  /\ forwards' = [forwards EXCEPT ![c] = @ \ {i}]
  /\ bound' = [bound EXCEPT ![i] = NoOne]
  /\ UNCHANGED <<managerVars, rows, owner, sessions, shellVars, binding, job, quitVars, crashed>>

----------------------------------------------------------------------------
(* close_everything(). *)

QuitShells ==
  /\ Input
  /\ quit' = "panes" /\ toVisit' = {x \in Panes : owner[x] # NoOne}
  /\ running' = running \ {shellAt[k] : k \in Keys}
  /\ shellAt' = [k \in Keys |-> NoOne]
  /\ sessions' = {}
  /\ UNCHANGED <<managerVars, rows, owner, starting, tabs, forwardVars, job, crashed>>

\* A pane that was opened since may be met or missed.
QuitPane(x) ==
  /\ Up /\ quit = "panes"
  /\ toVisit' = toVisit \ {x}
  /\ \/ /\ owner[x] # NoOne
        /\ owner' = [owner EXCEPT ![x] = NoOne] /\ Release(owner[x])
     \/ /\ owner[x] = NoOne /\ x \in toVisit
        /\ UNCHANGED <<owner, link, refs, forwardVars>>
  /\ UNCHANGED <<shared, rows, sessions, shellVars, job, quit, crashed>>

\* manager.close_all(), and the application exits.
QuitManager ==
  /\ Up /\ quit = "panes" /\ toVisit = {}
  /\ quit' = "done"
  /\ CloseLinks({c \in Conns : IsOpen(c)})
  /\ refs' = [c \in Conns |-> 0]
  /\ UNCHANGED <<shared, rows, owner, sessions, shellVars, job, toVisit, crashed>>

----------------------------------------------------------------------------

ConnectStep(w) ==
  \/ NoRoom(w) \/ ChannelFails(w) \/ BrowseFails(w)
  \/ \E c \in Conns : AcquireShared(w, c) \/ AcquireNew(w, c) \/ AcquireDedicated(w, c)
  \/ \E c \in Conns : BrowseBegin(w, c)
  \/ \E x \in Panes : ChannelUp(w, x) \/ ClosePane(w, x)
  \/ ClosePaneShell(w)

RunStep(w) ==
  \/ \E k \in Keys : ShellBegin(w, k)
  \/ ShellStarted(w) \/ ShellFails(w) \/ ForwardsStarted(w)
  \/ \E c \in Conns, i \in Ports : ForwardBegin(w, c, i)
  \/ \E i \in Ports : ForwardBinds(w, i) \/ ForwardStarts(w, i) \/ ForwardFails(w, i)

AppStep ==
  \/ \E c \in Conns : Disconnect(c) \/ \E i \in Ports : StopForward(c, i)
  \/ \E h \in Shells : ChildEnds(h)
  \/ QuitShells \/ QuitManager
  \/ \E x \in Panes : QuitPane(x)

Gone == ~Up /\ UNCHANGED vars

Next == AppStep \/ Gone \/ \E w \in Workers : ConnectStep(w) \/ RunStep(w)

Spec == Init /\ [][Next]_vars

----------------------------------------------------------------------------
(* Properties. *)

Jobs == {"idle", "channel", "browse", "closeShell", "start", "forward"}

\* Every part of the state has its type; the manager counts at least one
\* reference of what is open and none of what is closed.
TypeOK ==
  /\ shared \subseteq Conns /\ rows \subseteq Conns /\ sessions \subseteq Conns
  /\ link \in [Conns -> {"none", "open", "closed"}]
  /\ refs \in [Conns -> Nat]
  /\ \A c \in Conns : IsOpen(c) <=> refs[c] > 0
  /\ owner \in [Panes -> Conns \cup {NoOne}]
  /\ shellAt \in [Keys -> Shells \cup {NoOne}]
  /\ running \subseteq Shells /\ tabs \subseteq Nat \X Shells
  /\ starting \in [Workers -> Shells \cup {NoOne}]
  /\ forwards \in [Conns -> SUBSET Ports]
  /\ bound \in [Ports -> Conns \cup {NoOne}]
  /\ binding \in [Workers -> SUBSET Ports]
  /\ job \in [Workers -> [pc : Jobs, conn : Conns \cup {NoOne}, key : Keys \cup {NoOne},
                          todo : SUBSET Ports]]
  /\ quit \in {"no", "panes", "done"} /\ toVisit \subseteq Panes
  /\ crashed \in BOOLEAN

\* Who holds a reference to a connection: panes, workers on their way to one,
\* and the SSH session itself.
Holders(c) ==
  {x \in Panes : owner[x] = c}
    \cup {w \in Workers : job[w].pc \in {"channel", "browse"} /\ job[w].conn = c}
    \cup {d \in sessions : d = c}

\* A pane that browses an SSH session has a reference of its own, so that closing
\* it does not take the session down (browse_sftp()): a session that is listed in
\* _ssh_sessions is open, whoever browses, closes and disconnects at once.
SessionOutlivesPanes == \A c \in sessions : IsOpen(c)

\* While its connection is open, a bound port has its forward in _forwards, by which
\* it is stopped, or a worker that is about to put it there.
PortsListed ==
  \A i \in Ports : bound[i] # NoOne /\ IsOpen(bound[i]) =>
    i \in forwards[bound[i]] \/ \E w \in Workers : i \in binding[w]

\* "An SFTP pane opened on the same session keeps it alive" (disconnect_ssh()).  A
\* second disconnect releases the pane's reference.
PaneKeepsAlive ==
  quit = "no" => \A x \in Panes : owner[x] \in Conns \ shared => IsOpen(owner[x])

\* "The connection closes when the last consumer releases it"
\* (RemoteConnection.close()).  A browse that fails consumes a reference for ever.
LastReleaseCloses == quit = "no" => \A c \in Conns : IsOpen(c) => Holders(c) # {}

\* "One terminal per session" (_open_ssh_shell()): the shell of a tab is the one that
\* is stored for some session, with which it is closed.  Two starts that overlap
\* leave the first out.
TabsReachable ==
  quit = "no" /\ ~crashed => \A t \in tabs : \E k \in Keys : shellAt[k] = t[2]

\* SSHSession.close() closes "the connection, any forwards": nothing is bound for a
\* closed connection once its workers are through.  A bind that comes back later
\* escapes it.
PortsFreed ==
  \A i \in Ports : bound[i] # NoOne /\ link[bound[i]] = "closed" =>
    \E w \in Workers : i \in binding[w]

=============================================================================
