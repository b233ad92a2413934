------------------------------- MODULE Panes -------------------------------
(***************************************************************************)
(* The two sides of the window: which of them a key acts on, and what a    *)
(* pane shows.  app.py keeps the side the user works on in step with       *)
(* Textual's focus, which is applied later and reported by events; a pane  *)
(* (widgets/pane.py) lists its directory in a worker while further keys    *)
(* arrive.  Tabs of widgets/sessions.py are switched, not opened here.     *)
(*                                                                         *)
(* Textual is modelled from its use: a request for focus is applied in     *)
(* turn, a widget that has the focus already is left alone, and every      *)
(* change of focus is reported by one event.  The events may arrive in     *)
(* another order: on_descendant_focus() says so, and is written for it.    *)
(***************************************************************************)
EXTENDS Naturals, Sequences, FiniteSets, SequencesExt

CONSTANTS
  Sides,       \* two sides
  Tables,      \* the tables of the panes
  SideOf,      \* the side of each table
  First,       \* the first tab of each side
  Start,       \* the side the application starts on
  Elsewhere,   \* a widget of the bottom panel, such as a terminal
  Nowhere,
  Listed,      \* the tables whose listing is followed
  Dirs, Root, Parent,   \* a tree of directories
  Dotted,      \* directories whose names begin with a dot
  Climbers,    \* go_parent() workers of a pane
  Clickable,   \* what the user clicks
  MaxPending   \* bound on requests and events that wait

ASSUME PanesAssumption ==
  /\ Cardinality(Sides) = 2 /\ Start \in Sides
  /\ SideOf \in [Tables -> Sides]
  /\ First \in [Sides -> Tables] /\ \A s \in Sides : SideOf[First[s]] = s
  /\ Elsewhere \notin Tables /\ Nowhere \notin Tables \cup {Elsewhere} \cup Dirs
  /\ Listed \subseteq Tables /\ Clickable \subseteq Tables \cup {Elsewhere}
  /\ Root \in Dirs /\ Parent \in [Dirs -> Dirs] /\ Parent[Root] = Root
  /\ MaxPending \in Nat

VARIABLES
  side,     \* _active_side
  intent,   \* _focus_intent
  tab,      \* tab[s]: the table of the active tab of side s
  focus,    \* the widget that has the focus
  asks,     \* requests for focus, to be applied in turn
  events,   \* DescendantFocus events on their way to the application
  path,     \* path of each pane
  hidden,   \* show_hidden
  shown,    \* what the table shows: a directory, and whether with dotted names
  failed,   \* the subtitle tells of an error
  loads,    \* the directories load_directory() is listing
  climbs    \* climbs[p][w]: the directory whose parent a go_parent() awaits

focusVars == <<side, intent, tab, focus, asks, events>>
listVars == <<path, hidden, shown, failed, loads, climbs>>
vars == <<focusVars, listVars>>

Init ==
  /\ side = Start /\ intent = Nowhere /\ tab = First
  /\ focus = Nowhere /\ asks = <<First[Start]>> /\ events = <<>>
  /\ path = [p \in Listed |-> Root] /\ hidden = [p \in Listed |-> FALSE]
  /\ shown = [p \in Listed |-> [dir |-> Nowhere, dots |-> FALSE]]
  /\ failed = [p \in Listed |-> FALSE]
  /\ loads = [p \in Listed |-> {Root}]
  /\ climbs = [p \in Listed |-> [w \in Climbers |-> Nowhere]]

Other(s) == CHOOSE o \in Sides : o # s
Room == Len(asks) + Len(events) < MaxPending

\* check_action(): a terminal keeps all keys to itself but two.
Keys == focus # Elsewhere

\* active_pane: the pane of the side that is tracked, not of the focus.
Active == tab[side]

----------------------------------------------------------------------------
(* Focus. *)

\* A change of focus is reported.
Report(t) == events' = Append(events, t)

\* action_focus_next_pane(): the side first, then the request.
FocusNextPane ==
  /\ Room /\ Keys
  /\ side' = Other(side)
  /\ intent' = tab[Other(side)]
  /\ asks' = Append(asks, tab[Other(side)])
  /\ UNCHANGED <<tab, focus, events, listVars>>

\* f10, from wherever.
FocusPanes ==
  /\ Room
  /\ asks' = Append(asks, Active)
  /\ UNCHANGED <<side, intent, tab, focus, events, listVars>>

\* Mutant: the tabs of the other side as well.
SwitchAnyTab(t) ==
  /\ Room /\ Keys /\ t # tab[side]
  /\ tab' = [tab EXCEPT ![side] = t]
  /\ asks' = Append(asks, t)
  /\ UNCHANGED <<side, intent, focus, events, listVars>>

\* next_session() and the like, on the tracked side.
SwitchTab(t) ==
  /\ Room /\ Keys /\ SideOf[t] = side /\ t # tab[side]
  /\ tab' = [tab EXCEPT ![side] = t]
  /\ asks' = Append(asks, t)
  /\ UNCHANGED <<side, intent, focus, events, listVars>>

\* The user clicks a table that is visible, or the bottom panel.
Click(t) ==
  /\ Room /\ t \in {tab[s] : s \in Sides} \cup {Elsewhere} /\ t # focus
  /\ focus' = t /\ Report(t)
  /\ UNCHANGED <<side, intent, tab, asks, listVars>>

ApplyFocus ==
  /\ asks # <<>>
  /\ asks' = Tail(asks) /\ focus' = Head(asks)
  /\ IF focus = Head(asks) THEN UNCHANGED events ELSE Report(Head(asks))
  /\ UNCHANGED <<side, intent, tab, listVars>>

\* on_descendant_focus(): while a request is pending, only its own event counts.
Follow(t) ==
  \/ /\ intent \notin {Nowhere, t}
     /\ UNCHANGED <<intent, side>>
  \/ /\ intent \in {Nowhere, t}
     /\ intent' = Nowhere
     /\ side' = IF t \in Tables THEN SideOf[t] ELSE side

FocusArrives(n) ==
  /\ n \in 1..Len(events)
  /\ events' = RemoveAt(events, n)
  /\ Follow(events[n])
  /\ UNCHANGED <<tab, focus, asks, listVars>>

----------------------------------------------------------------------------
(* Listings.  Every key goes to the active pane. *)

Here(p) == Keys /\ p = Active

\* Mutant: a load does not take the place of the one before it.
LoadBesides(p, d) ==
  /\ loads' = [loads EXCEPT ![p] = @ \cup {d}]
  /\ climbs' = [climbs EXCEPT ![p] = [w \in Climbers |-> Nowhere]]

\* Mutant: a load leaves the other workers of the pane alone.
LoadOnly(p, d) ==
  /\ loads' = [loads EXCEPT ![p] = {d}]
  /\ UNCHANGED climbs

\* load_directory() is exclusive: it cancels every worker of the pane, the
\* go_parent() ones as well.
Load(p, d) ==
  /\ loads' = [loads EXCEPT ![p] = {d}]
  /\ climbs' = [climbs EXCEPT ![p] = [w \in Climbers |-> Nowhere]]

\* watch_path(): assigning the path it has already does nothing.
SetPath(p, d) ==
  /\ path' = [path EXCEPT ![p] = d]
  /\ IF d # path[p] THEN Load(p, d) ELSE UNCHANGED <<loads, climbs>>

\* A directory that is shown, of the listing that is shown.
Entries(p) ==
  {d \in Dirs \ {Root} : Parent[d] = shown[p].dir /\ (d \in Dotted => shown[p].dots)}
    \cup {Parent[d] : d \in {shown[p].dir} \ {Nowhere}}

OpenSelected(p) ==
  /\ Here(p)
  /\ \E d \in Entries(p) : SetPath(p, d)
  /\ UNCHANGED <<focusVars, hidden, shown, failed>>

\* The parent is awaited.
GoParent(p, w) ==
  /\ Here(p) /\ climbs[p][w] = Nowhere
  /\ climbs' = [climbs EXCEPT ![p][w] = path[p]]
  /\ UNCHANGED <<focusVars, path, hidden, shown, failed, loads>>

ParentArrives(p, w) ==
  LET d == Parent[climbs[p][w]] IN
  /\ climbs[p][w] # Nowhere
  /\ \/ d # path[p] /\ SetPath(p, d)
     \/ /\ d = path[p] /\ UNCHANGED <<path, loads>>
        /\ climbs' = [climbs EXCEPT ![p][w] = Nowhere]
  /\ UNCHANGED <<focusVars, hidden, shown, failed>>

ToggleHidden(p) ==
  /\ Here(p)
  /\ hidden' = [hidden EXCEPT ![p] = ~@]
  /\ Load(p, path[p])
  /\ UNCHANGED <<focusVars, path, shown, failed>>

\* ctrl+r on the active pane; the end of a transfer, on either.
Refresh(p) ==
  /\ Load(p, path[p])
  /\ UNCHANGED <<focusVars, path, hidden, shown, failed>>

\* The listing has arrived; what is hidden is decided now.
Listing(p, d) ==
  /\ d \in loads[p]
  /\ loads' = [loads EXCEPT ![p] = @ \ {d}]
  /\ shown' = [shown EXCEPT ![p] = [dir |-> d, dots |-> hidden[p]]]
  /\ failed' = [failed EXCEPT ![p] = FALSE]
  /\ UNCHANGED <<focusVars, path, hidden, climbs>>

\* A FileSystemError leaves the old listing in the table.
ListingFails(p, d) ==
  /\ d \in loads[p]
  /\ loads' = [loads EXCEPT ![p] = @ \ {d}]
  /\ failed' = [failed EXCEPT ![p] = TRUE]
  /\ UNCHANGED <<focusVars, path, hidden, shown, climbs>>

----------------------------------------------------------------------------

FocusStep ==
  \/ FocusNextPane \/ FocusPanes \/ ApplyFocus
  \/ \E t \in Tables : SwitchTab(t)
  \/ \E t \in Clickable : Click(t)
  \/ \E n \in 1..MaxPending : FocusArrives(n)

PaneStep(p) ==
  \/ OpenSelected(p) \/ ToggleHidden(p) \/ Refresh(p)
  \/ \E w \in Climbers : GoParent(p, w) \/ ParentArrives(p, w)
  \/ \E d \in Dirs : Listing(p, d) \/ ListingFails(p, d)

Next == FocusStep \/ \E p \in Listed : PaneStep(p)

Spec == Init /\ [][Next]_vars

----------------------------------------------------------------------------
(* Properties. *)

\* Every part of the state has its type.
TypeOK ==
  /\ side \in Sides /\ intent \in Tables \cup {Nowhere}
  /\ tab \in [Sides -> Tables] /\ \A s \in Sides : SideOf[tab[s]] = s
  /\ focus \in Tables \cup {Elsewhere, Nowhere}
  /\ asks \in Seq(Tables) /\ events \in Seq(Tables \cup {Elsewhere})
  /\ path \in [Listed -> Dirs] /\ hidden \in [Listed -> BOOLEAN]
  /\ shown \in [Listed -> [dir : Dirs \cup {Nowhere}, dots : BOOLEAN]]
  /\ failed \in [Listed -> BOOLEAN]
  /\ loads \in [Listed -> SUBSET Dirs]
  /\ climbs \in [Listed -> [Climbers -> Dirs \cup {Nowhere}]]

\* "Any event naming a different widget is a late echo of a superseded request and is
\* dropped" (on_descendant_focus()): once requests and events are through, keys act on
\* the table that has the focus, and no intent is pending.  An echo that arrives when
\* the intent is settled is not dropped.
SideFollowsFocus ==
  asks = <<>> /\ events = <<>> /\ focus \in Tables =>
    focus = Active /\ intent = Nowhere

\* A pane that is not loading shows the directory it is in, with dotted names or
\* without them as was last asked, or it tells of an error.
ShownIsCurrent ==
  \A p \in Listed :
    loads[p] = {} /\ ~failed[p] => shown[p] = [dir |-> path[p], dots |-> hidden[p]]

\* A parent that is still awaited is that of the directory the pane is in: an
\* answer that comes late does not take the user away from where they went since.
NoStaleParent ==
  \A p \in Listed, w \in Climbers : climbs[p][w] \in {Nowhere, path[p]}

=============================================================================
