----------------------------- MODULE PanesProofs -----------------------------
(* Proofs about Panes, for any tree of directories, any number of tables   *)
(* and of workers: what a pane shows, and the side that keys act on.       *)
EXTENDS Panes, SequenceTheorems, FiniteSetTheorems, TLAPS

\* The part of the state that listings are about keeps its type; a pane that is
\* loading loads the directory it is in.
ListInv ==
  /\ path \in [Listed -> Dirs] /\ hidden \in [Listed -> BOOLEAN]
  /\ shown \in [Listed -> [dir : Dirs \cup {Nowhere}, dots : BOOLEAN]]
  /\ failed \in [Listed -> BOOLEAN]
  /\ loads \in [Listed -> SUBSET Dirs] /\ \A p \in Listed : loads[p] \subseteq {path[p]}
  /\ climbs \in [Listed -> [Climbers -> Dirs \cup {Nowhere}]]

PaneInv == ListInv /\ NoStaleParent /\ ShownIsCurrent

LEMMA InitPane == Init => PaneInv
BY PanesAssumption DEF Init, PaneInv, ListInv, NoStaleParent, ShownIsCurrent

\* A pane goes to a directory, or lists again the one it is in.
LEMMA LoadKeeps ==
  ASSUME PaneInv, NEW p \in Listed, NEW d \in Dirs,
         path' = [path EXCEPT ![p] = d], Load(p, d),
         hidden' \in [Listed -> BOOLEAN], \A q \in Listed \ {p} : hidden'[q] = hidden[q],
         UNCHANGED <<shown, failed>>
  PROVE  PaneInv'
<1> USE DEF PaneInv, ListInv
<1>1. /\ loads' \in [Listed -> SUBSET Dirs] /\ path' \in [Listed -> Dirs]
      /\ climbs' \in [Listed -> [Climbers -> Dirs \cup {Nowhere}]]
      /\ path'[p] = d /\ loads'[p] = {d} /\ climbs'[p] = [w \in Climbers |-> Nowhere]
      /\ \A q \in Listed \ {p} : /\ path'[q] = path[q] /\ loads'[q] = loads[q]
                                 /\ climbs'[q] = climbs[q]
  BY DEF Load
<1>2. ListInv'
  BY <1>1
<1>3. NoStaleParent'
  BY <1>1 DEF NoStaleParent
<1>4. ShownIsCurrent'
  BY <1>1 DEF ShownIsCurrent
<1> QED
  BY <1>2, <1>3, <1>4

\* A pane is assigned a directory, which may be the one it is in.
LEMMA SetPathKeeps ==
  ASSUME PaneInv, NEW p \in Listed, NEW d \in Dirs, SetPath(p, d),
         UNCHANGED <<hidden, shown, failed>>
  PROVE  PaneInv'
<1>1. CASE d # path[p]
  BY <1>1, LoadKeeps DEF SetPath, PaneInv, ListInv
<1>2. CASE d = path[p]
  <2>1. UNCHANGED listVars
    BY <1>2 DEF SetPath, listVars, PaneInv, ListInv
  <2> QED
    BY <2>1 DEF listVars, PaneInv, ListInv, NoStaleParent, ShownIsCurrent
<1> QED
  BY <1>1, <1>2

LEMMA PaneNext == PaneInv /\ [Next]_vars => PaneInv'
<1> SUFFICES ASSUME PaneInv, [Next]_vars PROVE PaneInv'
  OBVIOUS
<1>1. CASE UNCHANGED listVars
  BY <1>1 DEF listVars, PaneInv, ListInv, NoStaleParent, ShownIsCurrent
<1>2. ASSUME NEW p \in Listed, OpenSelected(p) PROVE PaneInv'
  <2>1. Entries(p) \subseteq Dirs
    BY PanesAssumption DEF Entries, PaneInv, ListInv
  <2> QED
    BY <1>2, <2>1, SetPathKeeps DEF OpenSelected
<1>3. ASSUME NEW p \in Listed, ToggleHidden(p) \/ Refresh(p) PROVE PaneInv'
  <2>1. /\ Load(p, path[p]) /\ path' = path /\ UNCHANGED <<shown, failed>>
        /\ hidden' \in [Listed -> BOOLEAN] /\ \A q \in Listed \ {p} : hidden'[q] = hidden[q]
    BY <1>3 DEF ToggleHidden, Refresh, PaneInv, ListInv
  <2>2. path[p] \in Dirs /\ path' = [path EXCEPT ![p] = path[p]]
    BY <2>1 DEF PaneInv, ListInv
  <2> QED
    BY <2>1, <2>2, LoadKeeps
<1>4. ASSUME NEW p \in Listed, NEW w \in Climbers, GoParent(p, w) PROVE PaneInv'
  BY <1>4 DEF GoParent, PaneInv, ListInv, NoStaleParent, ShownIsCurrent
<1>5. ASSUME NEW p \in Listed, NEW w \in Climbers, ParentArrives(p, w) PROVE PaneInv'
  <2> DEFINE d == Parent[climbs[p][w]]
  <2>1. d \in Dirs
    BY <1>5, PanesAssumption DEF ParentArrives, PaneInv, ListInv
  <2>2. CASE SetPath(p, d)
    BY <1>5, <2>1, <2>2, SetPathKeeps DEF ParentArrives
  <2>3. CASE /\ UNCHANGED <<path, loads>>
             /\ climbs' = [climbs EXCEPT ![p][w] = Nowhere]
    BY <1>5, <2>3 DEF ParentArrives, PaneInv, ListInv, NoStaleParent, ShownIsCurrent
  <2> QED
    BY <1>5, <2>2, <2>3 DEF ParentArrives
<1>6. ASSUME NEW p \in Listed, NEW d \in Dirs, Listing(p, d) PROVE PaneInv'
  BY <1>6 DEF Listing, PaneInv, ListInv, NoStaleParent, ShownIsCurrent
<1>7. ASSUME NEW p \in Listed, NEW d \in Dirs, ListingFails(p, d) PROVE PaneInv'
  BY <1>7 DEF ListingFails, PaneInv, ListInv, NoStaleParent, ShownIsCurrent
<1>8. FocusStep \/ UNCHANGED vars => UNCHANGED listVars
  BY DEF FocusStep, FocusNextPane, FocusPanes, ApplyFocus, SwitchTab, Click, FocusArrives, vars
<1> QED
  BY <1>1, <1>2, <1>3, <1>4, <1>5, <1>6, <1>7, <1>8 DEF Next, PaneStep

\* A parent that is still awaited is that of the directory the pane is in: the
\* exclusive worker of load_directory() cancels the go_parent() of any other.
THEOREM LateParentsAreDropped == Spec => []NoStaleParent
<1>1. PaneInv => NoStaleParent
  BY DEF PaneInv
<1> QED
  BY <1>1, InitPane, PaneNext, PTL DEF Spec

\* A pane that is not loading shows the directory it is in, with dotted names as
\* was last asked, or an error (load_directory(), watch_path(), watch_show_hidden()).
THEOREM PanesShowTheirDirectory == Spec => []ShownIsCurrent
<1>1. PaneInv => ShownIsCurrent
  BY DEF PaneInv
<1> QED
  BY <1>1, InitPane, PaneNext, PTL DEF Spec

----------------------------------------------------------------------------
(* Focus. *)

FocusTyped ==
  /\ side \in Sides /\ intent \in Tables \cup {Nowhere}
  /\ tab \in [Sides -> Tables] /\ \A s \in Sides : SideOf[tab[s]] = s
  /\ focus \in Tables \cup {Elsewhere, Nowhere}
  /\ asks \in Seq(Tables) /\ events \in Seq(Tables \cup {Elsewhere})

\* There is another side, and only one.
LEMMA OtherSide ==
  ASSUME NEW s \in Sides
  PROVE  Other(s) \in Sides /\ Other(s) # s
<1>1. \E o \in Sides : o # s
  <2>1. CASE Sides = {s}
    <3>1. Cardinality({s}) = 1
      BY FS_Singleton
    <3> QED
      BY <2>1, <3>1, PanesAssumption
  <2> QED
    BY <2>1
<1> QED
  BY <1>1 DEF Other

\* The message pump takes an event off the queue.
LEMMA RemoveAtTyped ==
  ASSUME NEW S, NEW q \in Seq(S), NEW n \in 1..Len(q)
  PROVE  RemoveAt(q, n) \in Seq(S)
<1>1. Len(q) \in Nat /\ n \in Nat /\ \A i \in 1..Len(q) : q[i] \in S
  BY LenProperties, ElementOfSeq
<1>2. SubSeq(q, 1, n - 1) \in Seq(S)
  <2>1. \A i \in 1..(n - 1) : q[i] \in S
    BY <1>1
  <2> QED
    BY <1>1, <2>1, SubSeqProperties
<1>3. SubSeq(q, n + 1, Len(q)) \in Seq(S)
  <2>1. \A i \in (n + 1)..Len(q) : q[i] \in S
    BY <1>1
  <2> QED
    BY <1>1, <2>1, SubSeqProperties
<1> QED
  BY <1>2, <1>3, ConcatProperties DEF RemoveAt

LEMMA FocusTypedInit == Init => FocusTyped
BY PanesAssumption DEF Init, FocusTyped

LEMMA FocusTypedNext == FocusTyped /\ [Next]_vars => FocusTyped'
<1> SUFFICES ASSUME FocusTyped, [Next]_vars PROVE FocusTyped'
  OBVIOUS
<1> USE DEF FocusTyped
<1>1. Other(side) \in Sides
  BY OtherSide
<1>2. CASE FocusNextPane
  <2>1. tab[Other(side)] \in Tables
    BY <1>1
  <2>2. Append(asks, tab[Other(side)]) \in Seq(Tables)
    BY <2>1, AppendProperties
  <2> QED
    BY <1>1, <1>2, <2>1, <2>2 DEF FocusNextPane
<1>3. CASE FocusPanes
  <2>1. Append(asks, tab[side]) \in Seq(Tables)
    BY AppendProperties
  <2> QED
    BY <1>3, <2>1 DEF FocusPanes, Active
<1>4. ASSUME NEW t \in Tables, SwitchTab(t) PROVE FocusTyped'
  <2>1. Append(asks, t) \in Seq(Tables)
    BY AppendProperties
  <2> QED
    BY <1>4, <2>1 DEF SwitchTab
<1>5. ASSUME NEW t \in Clickable, Click(t) PROVE FocusTyped'
  <2>1. t \in Tables \cup {Elsewhere}
    BY PanesAssumption
  <2>2. Append(events, t) \in Seq(Tables \cup {Elsewhere})
    BY <2>1, AppendProperties
  <2> QED
    BY <1>5, <2>1, <2>2 DEF Click, Report
<1>6. CASE ApplyFocus
  <2>1. Head(asks) \in Tables /\ Tail(asks) \in Seq(Tables)
    BY <1>6, HeadTailProperties DEF ApplyFocus
  <2>2. Append(events, Head(asks)) \in Seq(Tables \cup {Elsewhere})
    BY <2>1, AppendProperties
  <2> QED
    BY <1>6, <2>1, <2>2 DEF ApplyFocus, Report
<1>7. ASSUME NEW n \in 1..MaxPending, FocusArrives(n) PROVE FocusTyped'
  <2>1. n \in 1..Len(events)
    BY <1>7 DEF FocusArrives
  <2>2. RemoveAt(events, n) \in Seq(Tables \cup {Elsewhere})
    BY <2>1, RemoveAtTyped
  <2>3. events[n] \in Tables => SideOf[events[n]] \in Sides
    BY PanesAssumption
  <2> QED
    BY <1>7, <2>2, <2>3 DEF FocusArrives, Follow
<1>8. CASE UNCHANGED focusVars
  BY <1>8 DEF focusVars
<1>9. (\E p \in Listed : PaneStep(p)) \/ UNCHANGED vars => UNCHANGED focusVars
  BY DEF PaneStep, OpenSelected, ToggleHidden, Refresh, GoParent, ParentArrives, Listing,
         ListingFails, vars
<1> QED
  BY <1>2, <1>3, <1>4, <1>5, <1>6, <1>7, <1>8, <1>9 DEF Next, FocusStep

\* Every variable keeps its type whatever the order of focus events, and each side's
\* active tab is one of its own.
THEOREM PaneTypes == Spec => []TypeOK
<1>1. FocusTyped /\ PaneInv => TypeOK
  BY DEF FocusTyped, PaneInv, ListInv, TypeOK
<1> QED
  BY <1>1, FocusTypedInit, FocusTypedNext, InitPane, PaneNext, PTL DEF Spec

=============================================================================
