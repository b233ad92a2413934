---------------------------- MODULE SessionTabs ----------------------------
(***************************************************************************)
(* The session tabs of the two sides (widgets/sessions.py) and the workers *)
(* of app.py that use them: attach(), disconnect_flow(), transfer_flow()   *)
(* and close_everything().  The workers run on one event loop and          *)
(* interleave at their awaits: a step is what a worker does from one await *)
(* to the next.  A session stands for a remote connection, its pane and    *)
(* its tab; the Local pane of a side is named by the side.                 *)
(***************************************************************************)
EXTENDS Integers, Sequences, SequencesExt

CONSTANTS
  Sessions,     \* remote connections the user opens
  MaxSessions,  \* MAX_SESSIONS_PER_SIDE
  Closers,      \* disconnect_flow workers that may run at once
  Transfers,    \* transfer_flow workers
  Nobody        \* no transfer, no pane

ASSUME TabsAssumption ==
  /\ MaxSessions \in Nat \ {0}
  /\ Nobody \notin Sessions \cup Transfers
  /\ Sessions \cap {"left", "right"} = {}  \* the names of the Local panes

Sides == {"left", "right"}
Panes == Sessions \cup Sides

VARIABLES
  side,     \* _active_side
  tabs,     \* _panes of each side
  shown,    \* the active tab of each side
  home,     \* the side a session was attached to
  adding,   \* sessions whose add_pane is awaited
  remote,   \* sessions whose pane still holds its connection (is_remote)
  link,     \* state of each connection
  closer,   \* closer[k]: what worker k awaits, of which side and pane
  engine,   \* _current_engine, by its transfer
  flow,     \* flow[j]: where transfer j is and the panes it was started from
  quit,     \* where close_everything() and the teardown are
  toClose,  \* panes it has still to visit
  visited,  \* visited[s]: places of the list of side s that its on_unmount() has passed
  crashed   \* a worker died of an exception, and the application with it

tabVars == <<tabs, shown, home, adding>>
linkVars == <<remote, link>>
quitVars == <<quit, toClose, visited>>
vars == <<side, tabVars, linkVars, closer, engine, flow, quitVars, crashed>>

Idle == [pc |-> "idle", side |-> "left", pane |-> Nobody]

Init ==
  /\ side = "left"
  /\ tabs = [s \in Sides |-> <<s>>]
  /\ shown = [s \in Sides |-> s]
  /\ home = [x \in Sessions |-> "left"]
  /\ adding = {} /\ remote = {}
  /\ link = [x \in Sessions |-> "none"]
  /\ closer = [k \in Closers |-> Idle]
  /\ engine = Nobody
  /\ flow = [j \in Transfers |-> [pc |-> "idle", from |-> Nobody, to |-> Nobody]]
  /\ quit = "no" /\ toClose = <<>> /\ visited = [s \in Sides |-> 0]
  /\ crashed = FALSE

\* The application's workers run until the teardown has closed the panes.
Up == quit # "done" /\ ~crashed

Other(s) == IF s = "left" THEN "right" ELSE "left"

\* SessionTabs.active_pane: the Local pane when the shown tab is not listed.
ActivePane(s) == IF Contains(tabs[s], shown[s]) THEN shown[s] ELSE s

\* The panes whose file systems the current engine copies between.
InUse == IF engine = Nobody THEN {} ELSE {flow[engine].from, flow[engine].to}

----------------------------------------------------------------------------
(* Opening a session, switching tabs and sides. *)

Room(s) == Len(tabs[s]) - 1 < MaxSessions

\* attach(): the connection is open; its tab goes to the side that is active now.
OpenSession(x) ==
  /\ Up /\ link[x] = "none" /\ Room(side)
  /\ link' = [link EXCEPT ![x] = "open"]
  /\ home' = [home EXCEPT ![x] = side]
  /\ tabs' = [tabs EXCEPT ![side] = Append(@, x)]
  /\ remote' = remote \cup {x}
  /\ adding' = adding \cup {x}
  /\ UNCHANGED <<side, shown, closer, engine, flow, quitVars, crashed>>

\* Mutant: a connection that gets no tab is forgotten.
OpenForgotten(x) ==
  /\ Up /\ link[x] = "none" /\ ~Room(side)
  /\ link' = [link EXCEPT ![x] = "open"]
  /\ UNCHANGED <<side, tabVars, remote, closer, engine, flow, quitVars, crashed>>

\* ... or is closed when the side has no room.
OpenRefused(x) ==
  /\ Up /\ link[x] = "none" /\ ~Room(side)
  /\ link' = [link EXCEPT ![x] = "closed"]
  /\ UNCHANGED <<side, tabVars, remote, closer, engine, flow, quitVars, crashed>>

\* The tab is mounted and becomes the active one.
SessionAdded(x) ==
  /\ Up /\ x \in adding
  /\ adding' = adding \ {x}
  /\ shown' = [shown EXCEPT ![home[x]] = x]
  /\ UNCHANGED <<side, tabs, home, linkVars, closer, engine, flow, quitVars, crashed>>

SwitchTab(s, p) ==
  /\ Up /\ Contains(tabs[s], p) /\ shown[s] # p
  /\ shown' = [shown EXCEPT ![s] = p]
  /\ UNCHANGED <<side, tabs, home, adding, linkVars, closer, engine, flow, quitVars, crashed>>

SwitchSide ==
  /\ Up
  /\ side' = Other(side)
  /\ UNCHANGED <<tabVars, linkVars, closer, engine, flow, quitVars, crashed>>

----------------------------------------------------------------------------
(* disconnect_flow() and close_active_session(). *)

Closing(k, pc, s, p) == closer' = [closer EXCEPT ![k] = [pc |-> pc, side |-> s, pane |-> p]]

\* list.index() and pop(): pane p leaves the list of side s.
TakeOut(s, p) ==
  \E n \in 1..Len(tabs[s]) :
    tabs[s][n] = p /\ tabs' = [tabs EXCEPT ![s] = RemoveAt(@, n)]

\* Mutant: the Local tab may be closed.
ClosableLocal(p) == p \notin InUse
Closable(p) == p \notin Sides /\ p \notin InUse

\* Mutant: the pane is asked for its connection once more after the close.
CloseBeginHolding(k) ==
  LET p == ActivePane(side) IN
  /\ Up /\ closer[k].pc = "idle"
  /\ Closable(p) /\ p \in remote
  /\ link' = [link EXCEPT ![p] = "closing"]
  /\ Closing(k, "closing", side, p)
  /\ UNCHANGED <<side, tabVars, remote, engine, flow, quitVars, crashed>>

\* The active tab, unless it is Local or the current engine uses it: its
\* connection is closed first.  A pane that another worker is closing holds none
\* any more and is removed at once.
CloseBegin(k) ==
  LET p == ActivePane(side) IN
  /\ Up /\ closer[k].pc = "idle"
  /\ Closable(p)
  /\ \/ /\ p \in remote
        /\ remote' = remote \ {p}
        /\ link' = [link EXCEPT ![p] = "closing"]
        /\ Closing(k, "closing", side, p)
        /\ UNCHANGED tabs
     \/ /\ p \notin remote
        /\ TakeOut(side, p)
        /\ Closing(k, "removing", side, p)
        /\ UNCHANGED linkVars
  /\ UNCHANGED <<side, shown, home, adding, engine, flow, quitVars, crashed>>

\* Mutant: the tab of a closed connection stays.
CloseLinkOnly(k) ==
  LET c == closer[k] IN
  /\ Up /\ c.pc = "closing"
  /\ link' = [link EXCEPT ![c.pane] = "closed"]
  /\ Closing(k, "removing", c.side, c.pane)
  /\ UNCHANGED <<side, tabVars, remote, engine, flow, quitVars, crashed>>

\* The connection is closed; list.index() fails when the pane is gone already.
CloseLink(k) ==
  LET c == closer[k] IN
  /\ Up /\ c.pc = "closing"
  /\ link' = [link EXCEPT ![c.pane] = "closed"]
  /\ \/ /\ TakeOut(c.side, c.pane)
        /\ Closing(k, "removing", c.side, c.pane)
        /\ UNCHANGED crashed
     \/ /\ ~Contains(tabs[c.side], c.pane)
        /\ closer' = [closer EXCEPT ![k] = Idle]
        /\ crashed' = TRUE
        /\ UNCHANGED tabs
  /\ UNCHANGED <<side, shown, home, adding, remote, engine, flow, quitVars>>

\* remove_pane() is done: back to the Local tab.
CloseEnd(k) ==
  LET c == closer[k] IN
  /\ Up /\ c.pc = "removing"
  /\ shown' = [shown EXCEPT ![c.side] = c.side]
  /\ closer' = [closer EXCEPT ![k] = Idle]
  /\ UNCHANGED <<side, tabs, home, adding, linkVars, engine, flow, quitVars, crashed>>

----------------------------------------------------------------------------
(* transfer_flow(). *)

FlowEnded(j) == flow' = [flow EXCEPT ![j] = [pc |-> "ended", from |-> Nobody, to |-> Nobody]]

\* From the active pane to the shown pane of the other side; the plan is awaited.
TransferBegin(j) ==
  /\ Up /\ flow[j].pc = "idle"
  /\ flow' = [flow EXCEPT ![j] =
       [pc |-> "planning", from |-> ActivePane(side), to |-> ActivePane(Other(side))]]
  /\ UNCHANGED <<side, tabVars, linkVars, closer, engine, quitVars, crashed>>

NothingToTransfer(j) ==
  /\ Up /\ flow[j].pc = "planning"
  /\ FlowEnded(j)
  /\ UNCHANGED <<side, tabVars, linkVars, closer, engine, quitVars, crashed>>

TransferRun(j) ==
  /\ Up /\ flow[j].pc = "planning"
  /\ flow' = [flow EXCEPT ![j].pc = "running"] /\ engine' = j
  /\ UNCHANGED <<side, tabVars, linkVars, closer, quitVars, crashed>>

TransferEnd(j) ==
  /\ Up /\ flow[j].pc = "running"
  /\ FlowEnded(j) /\ engine' = Nobody
  /\ UNCHANGED <<side, tabVars, linkVars, closer, quitVars, crashed>>

----------------------------------------------------------------------------
(* close_everything() and on_unmount(). *)

QuitBegin ==
  /\ Up /\ quit = "no"
  /\ quit' = "left" /\ toClose' = tabs["left"]
  /\ UNCHANGED <<side, tabVars, linkVars, closer, engine, flow, visited, crashed>>

CloseConnection(p) ==
  /\ remote' = remote \ {p}
  /\ link' = IF p \in remote THEN [link EXCEPT ![p] = "closed"] ELSE link

\* The panes of one side as they were when the walk of that side began.
QuitVisit ==
  /\ Up /\ quit \in Sides /\ toClose # <<>>
  /\ CloseConnection(Head(toClose))
  /\ toClose' = Tail(toClose)
  /\ UNCHANGED <<side, tabVars, closer, engine, flow, quit, visited, crashed>>

QuitNextSide ==
  /\ Up /\ quit \in Sides /\ toClose = <<>>
  /\ IF quit = "left" THEN quit' = "right" /\ toClose' = tabs["right"]
                      ELSE quit' = "unmount" /\ UNCHANGED toClose
  /\ UNCHANGED <<side, tabVars, linkVars, closer, engine, flow, visited, crashed>>

\* on_unmount() of one side: one pass over the list itself, by place, while
\* other workers may add to it and take from it.
Unmount(s) ==
  /\ Up /\ quit = "unmount"
  /\ visited[s] < Len(tabs[s])
  /\ CloseConnection(tabs[s][visited[s] + 1])
  /\ visited' = [visited EXCEPT ![s] = @ + 1]
  /\ UNCHANGED <<side, tabVars, closer, engine, flow, quit, toClose, crashed>>

\* Both passes are over, and the application with them.
TornDown ==
  /\ Up /\ quit = "unmount"
  /\ \A s \in Sides : visited[s] >= Len(tabs[s])
  /\ quit' = "done"
  /\ UNCHANGED <<side, tabVars, linkVars, closer, engine, flow, toClose, visited, crashed>>

----------------------------------------------------------------------------

WorkerStep ==
  \/ \E x \in Sessions : SessionAdded(x)
  \/ \E k \in Closers : CloseLink(k) \/ CloseEnd(k)
  \/ \E j \in Transfers : NothingToTransfer(j) \/ TransferRun(j) \/ TransferEnd(j)

QuitStep == QuitVisit \/ QuitNextSide \/ TornDown \/ \E s \in Sides : Unmount(s)

UserStep ==
  \/ \E x \in Sessions : OpenSession(x) \/ OpenRefused(x)
  \/ \E s \in Sides, p \in Panes : SwitchTab(s, p)
  \/ SwitchSide
  \/ \E k \in Closers : CloseBegin(k)
  \/ \E j \in Transfers : TransferBegin(j)
  \/ QuitBegin

Gone == ~Up /\ UNCHANGED vars

Next == WorkerStep \/ QuitStep \/ UserStep \/ Gone

Spec == Init /\ [][Next]_vars

----------------------------------------------------------------------------
(* Properties. *)

\* Every side keeps its Local tab and lists no pane twice; the rest has its type.
TypeOK ==
  /\ side \in Sides
  /\ \A s \in Sides : /\ Contains(tabs[s], s) /\ IsInjective(tabs[s])
                      /\ ToSet(tabs[s]) \subseteq Sessions \cup {s}
  /\ shown \in [Sides -> Panes]
  /\ home \in [Sessions -> Sides]
  /\ adding \subseteq Sessions /\ remote \subseteq Sessions
  /\ link \in [Sessions -> {"none", "open", "closing", "closed"}]
  /\ closer \in [Closers -> [pc : {"idle", "closing", "removing"}, side : Sides,
                             pane : Sessions \cup {Nobody}]]
  /\ engine \in Transfers \cup {Nobody}
  /\ flow \in [Transfers -> [pc : {"idle", "planning", "running", "ended"},
                             from : Panes \cup {Nobody}, to : Panes \cup {Nobody}]]
  /\ quit \in Sides \cup {"no", "unmount", "done"}
  /\ visited \in [Sides -> Nat]
  /\ crashed \in BOOLEAN

\* A connection that is open has a tab on the side it was attached to, by which
\* the user and the shutdown can reach it; a closed one has none once no worker
\* is at it and the application is not being shut down.
OpenIffListed ==
  \A x \in Sessions :
    /\ link[x] = "open" => Contains(tabs[home[x]], x) /\ x \in remote
    /\ link[x] = "closed" /\ quit = "no" => \A s \in Sides : ~Contains(tabs[s], x)

\* A pane gives its connection up once, whichever of two disconnects, the walk of
\* the shutdown and on_unmount() comes to it: each call of close() would release
\* one reference on the connection that others share.
GivenUpOnce ==
  \A k \in Closers : closer[k].pc = "closing" =>
    /\ link[closer[k].pane] = "closing" /\ closer[k].pane \notin remote
    /\ \A i \in Closers \ {k} : closer[i].pc = "closing" => closer[i].pane # closer[k].pane

\* close_active_session() refuses to close a pane with an active transfer (its
\* docstring): no disconnect closes the connection of a transfer that runs.  Two
\* transfers share _current_engine, so it does.
NeverClosedUnderTransfer ==
  [][\A x \in Sessions : link[x] = "open" /\ link'[x] = "closing" =>
       \A j \in Transfers : flow[j].pc = "running" => x \notin {flow[j].from, flow[j].to}]_vars

\* close_all_sessions() closes every live connection on both sides (its docstring).
\* A connection that is attached behind the walk stays open.
WalkClosesAll == quit = "unmount" => \A x \in Sessions : link[x] # "open"

=============================================================================
