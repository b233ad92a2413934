-------------------------- MODULE SessionTabsProofs --------------------------
(* Theorems about SessionTabs: the tabs and the connections agree, and each   *)
(* pane gives its connection up once.                                         *)
EXTENDS SessionTabs, SequenceTheorems, TLAPS

----------------------------------------------------------------------------
(* The lists of tabs. *)

\* What list.pop() leaves of a list without duplicates.
LEMMA RemoveAtProperties ==
  ASSUME NEW S, NEW q \in Seq(S), IsInjective(q), NEW n \in 1..Len(q)
  PROVE  /\ RemoveAt(q, n) \in Seq(S) /\ IsInjective(RemoveAt(q, n))
         /\ \A e : Contains(RemoveAt(q, n), e) <=> Contains(q, e) /\ e # q[n]
<1> DEFINE m == Len(q)
           a == SubSeq(q, 1, n - 1)
           b == SubSeq(q, n + 1, m)
           r == RemoveAt(q, n)
<1>1. m \in Nat /\ DOMAIN q = 1..m /\ n \in 1..m /\ n \in Nat
  BY LenProperties
<1>2. r = a \o b
  BY DEF RemoveAt
<1>3. \A i, j \in 1..m : q[i] = q[j] => i = j
  BY <1>1 DEF IsInjective
<1>4. \A i \in 1..m : q[i] \in S
  BY ElementOfSeq
<1> HIDE DEF m
<1>5. a \in Seq(S) /\ Len(a) = n - 1 /\ \A i \in 1..(n - 1) : a[i] = q[i]
  <2>1. \A i \in 1..(n - 1) : q[i] \in S
    BY <1>1, <1>4
  <2> QED
    BY <1>1, <2>1, SubSeqProperties
<1>6. b \in Seq(S) /\ Len(b) = m - n /\ \A i \in 1..(m - n) : b[i] = q[n + i]
  <2>1. \A i \in (n + 1)..m : q[i] \in S
    BY <1>1, <1>4
  <2>2. /\ b \in Seq(S) /\ Len(b) = IF n + 1 <= m THEN m - (n + 1) + 1 ELSE 0
        /\ \A i \in 1..(m - (n + 1) + 1) : b[i] = q[(n + 1) + i - 1]
    BY <1>1, <2>1, SubSeqProperties
  <2>3. m - (n + 1) + 1 = m - n /\ \A i \in 1..(m - n) : (n + 1) + i - 1 = n + i
    BY <1>1
  <2> HIDE DEF b
  <2> QED
    BY <1>1, <2>2, <2>3
<1> HIDE DEF a, b, r
<1>7. /\ r \in Seq(S) /\ Len(r) = (n - 1) + (m - n)
      /\ \A i \in 1..((n - 1) + (m - n)) : r[i] = IF i <= n - 1 THEN a[i] ELSE b[i - (n - 1)]
  BY <1>2, <1>5, <1>6, ConcatProperties
<1>8. /\ Len(r) = m - 1
      /\ \A i \in 1..(m - 1) : (i < n => r[i] = q[i]) /\ (~(i < n) => r[i] = q[i + 1])
  <2>1. (n - 1) + (m - n) = m - 1
    BY <1>1
  <2>2. ASSUME NEW i \in 1..(m - 1), i < n PROVE r[i] = q[i]
    <3>1. i \in 1..(n - 1) /\ i <= n - 1
      BY <1>1, <2>2
    <3> QED
      BY <1>5, <1>7, <2>1, <3>1
  <2>3. ASSUME NEW i \in 1..(m - 1), ~(i < n) PROVE r[i] = q[i + 1]
    <3>1. ~(i <= n - 1) /\ i - (n - 1) \in 1..(m - n) /\ n + (i - (n - 1)) = i + 1
      BY <1>1, <2>3
    <3> QED
      BY <1>6, <1>7, <2>1, <3>1
  <2> QED
    BY <1>7, <2>1, <2>2, <2>3
<1>9. DOMAIN r = 1..(m - 1)
  BY <1>7, <1>8, LenProperties
\* Position i of r is position From(i) of q.
<1> DEFINE From(i) == IF i < n THEN i ELSE i + 1
<1>10. \A i \in 1..(m - 1) : From(i) \in 1..m /\ From(i) # n /\ r[i] = q[From(i)]
  BY <1>1, <1>8
<1>11. \A i, j \in 1..(m - 1) : From(i) = From(j) => i = j
  BY <1>1
<1>12. \A k \in 1..m : k # n => \E i \in 1..(m - 1) : From(i) = k
  <2> TAKE k \in 1..m
  <2>1. CASE k < n
    <3>1. k \in 1..(m - 1) /\ From(k) = k
      BY <1>1, <2>1
    <3> QED BY <3>1
  <2>2. CASE k > n
    <3>1. k - 1 \in 1..(m - 1) /\ From(k - 1) = k
      BY <1>1, <2>2
    <3> QED BY <3>1
  <2> QED
    BY <1>1, <2>1, <2>2
<1> HIDE DEF From
<1>13. IsInjective(r)
  BY <1>3, <1>9, <1>10, <1>11 DEF IsInjective
<1>14. \A e : Contains(r, e) <=> Contains(q, e) /\ e # q[n]
  <2>1. \A e : Contains(r, e) <=> \E i \in 1..(m - 1) : r[i] = e
    BY <1>8 DEF Contains
  <2>2. \A e : Contains(q, e) <=> \E k \in 1..m : q[k] = e
    BY DEF Contains, m
  <2> QED
    BY <1>1, <1>3, <1>10, <1>12, <2>1, <2>2
<1> QED
  BY <1>7, <1>13, <1>14 DEF r

\* What list.append() does to a list that does not hold the element.
LEMMA AppendKeeps ==
  ASSUME NEW S, NEW q \in Seq(S), IsInjective(q), NEW x \in S, ~Contains(q, x)
  PROVE  /\ Append(q, x) \in Seq(S) /\ IsInjective(Append(q, x))
         /\ \A e : Contains(Append(q, x), e) <=> Contains(q, e) \/ e = x
<1> DEFINE r == Append(q, x)
<1>1. /\ r \in Seq(S) /\ Len(r) = Len(q) + 1 /\ Len(q) \in Nat /\ r[Len(q) + 1] = x
      /\ \A i \in 1..Len(q) : r[i] = q[i]
      /\ DOMAIN r = 1..Len(r) /\ DOMAIN q = 1..Len(q)
  BY AppendProperties, LenProperties
<1> HIDE DEF r
<1>2. IsInjective(r)
  BY <1>1 DEF IsInjective, Contains
<1>3. \A e : Contains(r, e) <=> Contains(q, e) \/ e = x
  BY <1>1 DEF Contains
<1> QED
  BY <1>1, <1>2, <1>3 DEF r

TabsTyped == tabs \in [Sides -> Seq(Panes)] /\ \A s \in Sides : IsInjective(tabs[s])

\* close_active_session() takes one pane from one list.
LEMMA TakeOutTabs ==
  ASSUME TabsTyped, NEW s \in Sides, NEW p, TakeOut(s, p)
  PROVE  /\ TabsTyped'
         /\ \A t \in Sides : \A e : Contains(tabs'[t], e) <=> Contains(tabs[t], e) /\ (t # s \/ e # p)
<1>1. PICK n \in 1..Len(tabs[s]) :
        tabs[s][n] = p /\ tabs' = [tabs EXCEPT ![s] = RemoveAt(tabs[s], n)]
  BY DEF TakeOut
<1>2. tabs[s] \in Seq(Panes) /\ IsInjective(tabs[s])
  BY DEF TabsTyped
<1>3. /\ RemoveAt(tabs[s], n) \in Seq(Panes) /\ IsInjective(RemoveAt(tabs[s], n))
      /\ \A e : Contains(RemoveAt(tabs[s], n), e) <=> Contains(tabs[s], e) /\ e # p
  BY <1>1, <1>2, RemoveAtProperties
<1>4. /\ tabs' \in [Sides -> Seq(Panes)] /\ tabs'[s] = RemoveAt(tabs[s], n)
      /\ \A t \in Sides \ {s} : tabs'[t] = tabs[t]
  BY <1>1, <1>3 DEF TabsTyped
<1> QED
  BY <1>3, <1>4 DEF TabsTyped

\* open_session() adds one pane to one list.
LEMMA AppendTabs ==
  ASSUME TabsTyped, NEW s \in Sides, NEW x \in Panes, ~Contains(tabs[s], x),
         tabs' = [tabs EXCEPT ![s] = Append(@, x)]
  PROVE  /\ TabsTyped'
         /\ \A t \in Sides : \A e : Contains(tabs'[t], e) <=> Contains(tabs[t], e) \/ (t = s /\ e = x)
<1>1. tabs[s] \in Seq(Panes) /\ IsInjective(tabs[s])
  BY DEF TabsTyped
<1>2. /\ Append(tabs[s], x) \in Seq(Panes) /\ IsInjective(Append(tabs[s], x))
      /\ \A e : Contains(Append(tabs[s], x), e) <=> Contains(tabs[s], e) \/ e = x
  BY <1>1, AppendKeeps
<1>3. /\ tabs' \in [Sides -> Seq(Panes)] /\ tabs'[s] = Append(tabs[s], x)
      /\ \A t \in Sides \ {s} : tabs'[t] = tabs[t]
  BY <1>2 DEF TabsTyped
<1> QED
  BY <1>2, <1>3 DEF TabsTyped

----------------------------------------------------------------------------
(* Tabs and connections. *)

\* Each side lists its Local pane and panes of sessions.
ListsInv ==
  /\ TabsTyped
  /\ \A s \in Sides : Contains(tabs[s], s) /\ \A e : Contains(tabs[s], e) => e \in Sessions \cup {s}

\* The types that TypeOK gives the other variables.
RestTyped ==
  /\ side \in Sides
  /\ shown \in [Sides -> Panes]
  /\ home \in [Sessions -> Sides]
  /\ adding \subseteq Sessions /\ remote \subseteq Sessions
  /\ link \in [Sessions -> {"none", "open", "closing", "closed"}]
  /\ closer \in [Closers -> [pc : {"idle", "closing", "removing"}, side : Sides,
                             pane : Sessions \cup {Nobody}]]
  /\ engine \in Transfers \cup {Nobody}
  /\ flow \in [Transfers -> [pc : {"idle", "planning", "running", "ended"},
                             from : Panes \cup {Nobody}, to : Panes \cup {Nobody}]]
  /\ quit \in Sides \cup {"no", "unmount", "done"}
  /\ visited \in [Sides -> Nat]
  /\ crashed \in BOOLEAN

\* A session is listed on the side it was attached to and on no other, once it has a
\* connection; its pane holds the connection for as long as it is open; a worker that
\* awaits its close will look for it where it is listed.
SessionInv(x) ==
  /\ link[x] = "none" => x \notin adding /\ \A s \in Sides : ~Contains(tabs[s], x)
  /\ x \in remote <=> link[x] = "open"
  /\ \A s \in Sides : Contains(tabs[s], x) => s = home[x]
  /\ \A k \in Closers : closer[k].pc = "closing" /\ closer[k].pane = x =>
                          closer[k].side = home[x] /\ link[x] = "closing"
  /\ link[x] = "open" => Contains(tabs[home[x]], x)
  /\ link[x] = "closed" /\ quit = "no" => \A s \in Sides : ~Contains(tabs[s], x)

\* No two workers await the close of one connection.
AloneInv ==
  \A i, k \in Closers :
    closer[i].pc = "closing" /\ closer[k].pc = "closing" /\ closer[i].pane = closer[k].pane => i = k

TabInv ==
  /\ ListsInv
  /\ AloneInv
  /\ RestTyped
  /\ \A k \in Closers : closer[k].pc # "idle" => closer[k].pane \in Sessions
  /\ \A x \in Sessions : SessionInv(x)

LEMMA TabInit == Init => TabInv
<1> SUFFICES ASSUME Init PROVE TabInv
  OBVIOUS
<1>1. \A s \in Sides : s \in Panes /\ tabs[s] = <<s>>
  BY DEF Init, Panes
<1>2. ASSUME NEW s \in Sides
      PROVE  tabs[s] \in Seq(Panes) /\ IsInjective(tabs[s]) /\ \A e : Contains(tabs[s], e) <=> e = s
  <2>1. tabs[s] = <<s>> /\ Len(<<s>>) = 1 /\ <<s>> \in Seq(Panes) /\ <<s>>[1] = s
    BY <1>1
  <2> QED
    BY <2>1 DEF IsInjective, Contains
<1>3. ListsInv
  <2>1. tabs \in [Sides -> Seq(Panes)]
    BY <1>2 DEF Init
  <2> QED
    BY <1>2, <2>1 DEF ListsInv, TabsTyped
<1>4. RestTyped
  BY DEF Init, RestTyped, Sides, Panes, Idle
<1>5. \A k \in Closers : closer[k].pc = "idle"
  BY DEF Init, Idle
<1>6. ASSUME NEW x \in Sessions PROVE SessionInv(x)
  <2>1. x \notin Sides
    BY TabsAssumption DEF Sides
  <2> QED
    BY <1>2, <1>5, <2>1 DEF Init, SessionInv
<1> QED
  BY <1>3, <1>4, <1>5, <1>6 DEF TabInv, AloneInv

\* The pane that close_active_session() and transfer_flow() start from is listed.
LEMMA ActiveIsListed ==
  ASSUME TabInv, NEW s \in Sides
  PROVE  Contains(tabs[s], ActivePane(s)) /\ ActivePane(s) \in Panes
BY DEF TabInv, ListsInv, ActivePane, Panes

\* Steps that move neither a tab, a connection nor a worker that closes one.
LEMMA TabFrame ==
  ASSUME TabInv, UNCHANGED <<tabs, home, linkVars, closer>>, adding' \subseteq adding,
         quit' = "no" => quit = "no", RestTyped'
  PROVE  TabInv'
<1>1. ListsInv'
  BY DEF TabInv, ListsInv, TabsTyped
<1>2. \A x \in Sessions : SessionInv(x)'
  BY DEF TabInv, SessionInv, linkVars
<1> QED
  BY <1>1, <1>2 DEF TabInv, AloneInv

LEMMA OpenSessionKeeps ==
  ASSUME TabInv, NEW x \in Sessions, OpenSession(x)
  PROVE  TabInv'
<1>1. /\ side \in Sides /\ link[x] = "none" /\ x \in Panes /\ \A s \in Sides : ~Contains(tabs[s], x)
      /\ link' = [link EXCEPT ![x] = "open"] /\ home' = [home EXCEPT ![x] = side]
      /\ tabs' = [tabs EXCEPT ![side] = Append(@, x)]
      /\ remote' = remote \cup {x} /\ adding' = adding \cup {x}
      /\ UNCHANGED <<side, shown, closer, engine, flow, quit, visited, crashed>>
  BY DEF OpenSession, TabInv, SessionInv, RestTyped, Panes, quitVars
<1>2. /\ TabsTyped'
      /\ \A t \in Sides : \A e : Contains(tabs'[t], e) <=> Contains(tabs[t], e) \/ (t = side /\ e = x)
  BY <1>1, AppendTabs DEF TabInv, ListsInv
<1>3. ListsInv'
  BY <1>2 DEF TabInv, ListsInv
<1>4. RestTyped'
  BY <1>1 DEF TabInv, RestTyped
<1>5. ASSUME NEW y \in Sessions PROVE SessionInv(y)'
  <2>1. SessionInv(y) /\ y \in DOMAIN link /\ y \in DOMAIN home
    BY DEF TabInv, RestTyped
  <2>2. CASE y = x
    <3>1. link'[x] = "open" /\ home'[x] = side
      BY <1>1, <2>1, <2>2
    <3> QED
      BY <1>1, <1>2, <2>1, <2>2, <3>1 DEF SessionInv
  <2>3. CASE y # x
    <3>1. link'[y] = link[y] /\ home'[y] = home[y] /\ home[y] \in Sides
      BY <1>1, <2>1, <2>3 DEF TabInv, RestTyped
    <3> QED
      BY <1>1, <1>2, <2>1, <2>3, <3>1 DEF SessionInv
  <2> QED
    BY <2>2, <2>3
<1> QED
  BY <1>1, <1>3, <1>4, <1>5 DEF TabInv, AloneInv

\* A connection changes its state, and its pane may leave its list.
LEMMA CloseBeginKeeps ==
  ASSUME TabInv, NEW k \in Closers, CloseBegin(k)
  PROVE  TabInv'
<1> DEFINE p == ActivePane(side)
<1>1. /\ side \in Sides /\ Contains(tabs[side], p) /\ p \notin Sides
      /\ UNCHANGED <<side, shown, home, adding, engine, flow, quit, visited, crashed>>
  BY ActiveIsListed DEF CloseBegin, Closable, TabInv, RestTyped, quitVars
<1>2. p \in Sessions
  BY <1>1 DEF TabInv, ListsInv
<1>3. SessionInv(p) /\ home[p] = side
  BY <1>1, <1>2 DEF TabInv, SessionInv
<1>4. CASE /\ p \in remote /\ remote' = remote \ {p} /\ link' = [link EXCEPT ![p] = "closing"]
           /\ Closing(k, "closing", side, p) /\ UNCHANGED tabs
  <2> HIDE DEF p
  <2>1. /\ closer' \in [Closers -> [pc : {"idle", "closing", "removing"}, side : Sides,
                                    pane : Sessions \cup {Nobody}]]
        /\ closer'[k] = [pc |-> "closing", side |-> side, pane |-> p]
        /\ \A i \in Closers \ {k} : closer'[i] = closer[i]
    BY <1>1, <1>2, <1>4 DEF Closing, TabInv, RestTyped
  <2>2. ListsInv'
    BY <1>4 DEF TabInv, ListsInv, TabsTyped
  <2>3. RestTyped'
    BY <1>1, <1>4, <2>1 DEF TabInv, RestTyped
  <2>4. ASSUME NEW y \in Sessions PROVE SessionInv(y)'
    <3>1. SessionInv(y) /\ y \in DOMAIN link
      BY DEF TabInv, RestTyped
    <3>2. CASE y = p
      <4>1. link'[p] = "closing"
        BY <1>4, <3>1, <3>2
      <4> QED
        BY <1>1, <1>3, <1>4, <2>1, <3>1, <3>2, <4>1 DEF SessionInv
    <3>3. CASE y # p
      <4>1. link'[y] = link[y]
        BY <1>4, <3>1, <3>3
      <4>2. \A i \in Closers : closer'[i].pane = y => i # k /\ closer'[i] = closer[i]
        BY <2>1, <3>3
      <4> QED
        BY <1>1, <1>4, <3>1, <3>3, <4>1, <4>2 DEF SessionInv
    <3> QED
      BY <3>2, <3>3
  <2>5. \A i \in Closers : closer'[i].pc # "idle" => closer'[i].pane \in Sessions
    BY <1>2, <2>1 DEF TabInv
  <2>6. \A i \in Closers : closer[i].pc = "closing" => closer[i].pane # p
    BY <1>3, <1>4 DEF SessionInv
  <2>7. AloneInv'
    BY <2>1, <2>6 DEF TabInv, AloneInv
  <2> QED
    BY <2>2, <2>3, <2>4, <2>5, <2>7 DEF TabInv
<1>5. CASE p \notin remote /\ TakeOut(side, p) /\ Closing(k, "removing", side, p) /\ UNCHANGED linkVars
  <2> HIDE DEF p
  <2>1. /\ closer' \in [Closers -> [pc : {"idle", "closing", "removing"}, side : Sides,
                                    pane : Sessions \cup {Nobody}]]
        /\ closer'[k] = [pc |-> "removing", side |-> side, pane |-> p]
        /\ \A i \in Closers \ {k} : closer'[i] = closer[i]
    BY <1>1, <1>2, <1>5 DEF Closing, TabInv, RestTyped
  <2>2. /\ TabsTyped'
        /\ \A t \in Sides : \A e : Contains(tabs'[t], e) <=> Contains(tabs[t], e) /\ (t # side \/ e # p)
    BY <1>1, <1>5, TakeOutTabs DEF TabInv, ListsInv
  <2>3. ListsInv'
    BY <1>1, <2>2 DEF TabInv, ListsInv
  <2>4. RestTyped'
    BY <1>1, <1>5, <2>1 DEF TabInv, RestTyped, linkVars
  <2>5. ASSUME NEW y \in Sessions PROVE SessionInv(y)'
    <3>1. SessionInv(y) /\ (y = p => link[y] # "open") /\ home[y] \in Sides
      BY <1>3, <1>5 DEF TabInv, SessionInv, RestTyped
    <3>2. \A i \in Closers : closer'[i].pc = "closing" => closer'[i] = closer[i]
      BY <2>1
    <3> QED
      BY <1>1, <1>5, <2>2, <3>1, <3>2 DEF SessionInv, linkVars
  <2>6. \A i \in Closers : closer'[i].pc # "idle" => closer'[i].pane \in Sessions
    BY <1>2, <2>1 DEF TabInv
  <2>7. AloneInv'
    BY <2>1 DEF TabInv, AloneInv
  <2> QED
    BY <2>3, <2>4, <2>5, <2>6, <2>7 DEF TabInv
<1> QED
  BY <1>4, <1>5 DEF CloseBegin

LEMMA CloseLinkKeeps ==
  ASSUME TabInv, NEW k \in Closers, CloseLink(k)
  PROVE  TabInv'
<1> DEFINE p == closer[k].pane
           s == closer[k].side
<1>1. /\ closer[k].pc = "closing" /\ p \in Sessions /\ s \in Sides
      /\ link' = [link EXCEPT ![p] = "closed"]
      /\ UNCHANGED <<side, shown, home, adding, remote, engine, flow, quit, visited>>
  BY DEF CloseLink, TabInv, RestTyped, quitVars
<1>2. SessionInv(p) /\ home[p] = s /\ link[p] = "closing" /\ p \notin remote
  BY <1>1 DEF TabInv, SessionInv
<1>3. /\ TabsTyped'
      /\ \A t \in Sides : \A e : Contains(tabs'[t], e) <=> Contains(tabs[t], e) /\ (t # s \/ e # p)
  <2>1. CASE TakeOut(s, p)
    BY <1>1, <2>1, TakeOutTabs DEF TabInv, ListsInv
  <2>2. CASE ~Contains(tabs[s], p) /\ UNCHANGED tabs
    BY <2>2 DEF TabInv, ListsInv, TabsTyped
  <2> QED
    BY <2>1, <2>2 DEF CloseLink
<1>4. /\ closer' \in [Closers -> [pc : {"idle", "closing", "removing"}, side : Sides,
                                  pane : Sessions \cup {Nobody}]]
      /\ closer'[k].pc # "closing" /\ (closer'[k].pc # "idle" => closer'[k].pane = p)
      /\ \A i \in Closers \ {k} : closer'[i] = closer[i]
      /\ crashed' \in BOOLEAN
  <2>1. CASE closer' = [closer EXCEPT ![k] = [pc |-> "removing", side |-> s, pane |-> p]] /\ UNCHANGED crashed
    BY <1>1, <2>1 DEF TabInv, RestTyped
  <2>2. CASE closer' = [closer EXCEPT ![k] = Idle] /\ crashed' = TRUE
    BY <1>1, <2>2 DEF TabInv, RestTyped, Idle, Sides
  <2> QED
    BY <2>1, <2>2 DEF CloseLink, Closing
<1> HIDE DEF p, s
<1>5. ListsInv'
  <2>1. p \notin Sides
    BY <1>1, TabsAssumption DEF Sides
  <2> QED
    BY <1>3, <2>1 DEF TabInv, ListsInv
<1>6. RestTyped'
  BY <1>1, <1>4 DEF TabInv, RestTyped
<1>7. ASSUME NEW y \in Sessions PROVE SessionInv(y)'
  <2>1. SessionInv(y) /\ y \in DOMAIN link /\ home[y] \in Sides
    BY DEF TabInv, RestTyped
  <2>2. CASE y = p
    <3>1. link'[y] = "closed"
      BY <1>1, <2>1, <2>2
    <3>2. \A t \in Sides : ~Contains(tabs'[t], y)
      BY <1>2, <1>3, <2>1, <2>2 DEF SessionInv
    <3>3. \A i \in Closers : closer'[i].pc = "closing" => closer'[i].pane # y
      <4>1. closer[k].pc = "closing" /\ closer[k].pane = p
        BY <1>1 DEF p
      <4> QED
        BY <1>4, <2>2, <4>1 DEF TabInv, AloneInv
    <3> QED
      BY <1>1, <1>2, <2>1, <2>2, <3>1, <3>2, <3>3 DEF SessionInv
  <2>3. CASE y # p
    <3>1. link'[y] = link[y]
      BY <1>1, <2>1, <2>3
    <3>2. \A t \in Sides : Contains(tabs'[t], y) <=> Contains(tabs[t], y)
      BY <1>3, <2>3
    <3> QED
      BY <1>1, <1>4, <2>1, <2>3, <3>1, <3>2 DEF SessionInv
  <2> QED
    BY <2>2, <2>3
<1>8. \A i \in Closers : closer'[i].pc # "idle" => closer'[i].pane \in Sessions
  BY <1>1, <1>4 DEF TabInv
<1>9. AloneInv'
  BY <1>4 DEF TabInv, AloneInv
<1> QED
  BY <1>5, <1>6, <1>7, <1>8, <1>9 DEF TabInv

\* The shutdown closes what panes hold, listed or not.
LEMMA CloseConnectionTabs ==
  ASSUME TabInv, NEW p, CloseConnection(p), quit # "no", UNCHANGED quit,
         UNCHANGED <<side, tabVars, closer, engine, flow, crashed>>, visited' \in [Sides -> Nat]
  PROVE  TabInv'
<1>1. ListsInv'
  BY DEF TabInv, ListsInv, TabsTyped, tabVars
<1>2. RestTyped'
  BY DEF TabInv, RestTyped, tabVars, CloseConnection
<1>3. ASSUME NEW y \in Sessions PROVE SessionInv(y)'
  <2>1. SessionInv(y) /\ y \in DOMAIN link
    BY DEF TabInv, RestTyped
  <2>2. /\ y \in remote' <=> y \in remote /\ y # p
        /\ link'[y] = IF y = p /\ p \in remote THEN "closed" ELSE link[y]
    BY <2>1 DEF CloseConnection
  <2> QED
    BY <2>1, <2>2 DEF SessionInv, tabVars
<1> QED
  BY <1>1, <1>2, <1>3 DEF TabInv, AloneInv

LEMMA OpenRefusedKeeps ==
  ASSUME TabInv, NEW x \in Sessions, OpenRefused(x)
  PROVE  TabInv'
<1>1. /\ link[x] = "none" /\ link' = [link EXCEPT ![x] = "closed"]
      /\ UNCHANGED <<side, tabVars, remote, closer, engine, flow, quit, visited, crashed>>
  BY DEF OpenRefused, quitVars
<1>2. ListsInv'
  BY <1>1 DEF TabInv, ListsInv, TabsTyped, tabVars
<1>3. RestTyped'
  BY <1>1 DEF TabInv, RestTyped, tabVars
<1>4. ASSUME NEW y \in Sessions PROVE SessionInv(y)'
  <2>1. SessionInv(y) /\ link'[y] = IF y = x THEN "closed" ELSE link[y]
    BY <1>1 DEF TabInv, RestTyped
  <2> QED
    BY <1>1, <2>1 DEF SessionInv, tabVars
<1> QED
  BY <1>1, <1>2, <1>3, <1>4 DEF TabInv, AloneInv

LEMMA TabNext == TabInv /\ [Next]_vars => TabInv'
<1> SUFFICES ASSUME TabInv, [Next]_vars PROVE TabInv'
  OBVIOUS
<1>1. ASSUME NEW x \in Sessions, SessionAdded(x) PROVE TabInv'
  <2>1. RestTyped'
    BY <1>1 DEF SessionAdded, TabInv, RestTyped, Panes, linkVars, quitVars
  <2> QED
    BY <1>1, <2>1, TabFrame DEF SessionAdded, quitVars
<1>2. ASSUME NEW s \in Sides, NEW p \in Panes, SwitchTab(s, p) PROVE TabInv'
  <2>1. RestTyped'
    BY <1>2 DEF SwitchTab, TabInv, RestTyped, linkVars, quitVars
  <2> QED
    BY <1>2, <2>1, TabFrame DEF SwitchTab, quitVars
<1>3. CASE SwitchSide
  <2>1. RestTyped'
    BY <1>3 DEF SwitchSide, Other, Sides, TabInv, RestTyped, tabVars, linkVars, quitVars
  <2> QED
    BY <1>3, <2>1, TabFrame DEF SwitchSide, tabVars, quitVars
<1>4. ASSUME NEW k \in Closers, CloseEnd(k) PROVE TabInv'
  <2>1. /\ closer[k].side \in Sides /\ shown' = [shown EXCEPT ![closer[k].side] = closer[k].side]
        /\ closer' = [closer EXCEPT ![k] = Idle]
        /\ UNCHANGED <<side, tabs, home, adding, remote, link, engine, flow, quit, visited, crashed>>
    BY <1>4 DEF CloseEnd, TabInv, RestTyped, linkVars, quitVars
  <2>2. /\ closer' \in [Closers -> [pc : {"idle", "closing", "removing"}, side : Sides,
                                    pane : Sessions \cup {Nobody}]]
        /\ \A i \in Closers : closer'[i].pc # "idle" => closer'[i] = closer[i]
    BY <2>1 DEF TabInv, RestTyped, Idle, Sides
  <2>3. shown' \in [Sides -> Panes]
    BY <2>1 DEF TabInv, RestTyped, Panes
  <2>4. ListsInv' /\ RestTyped'
    BY <2>1, <2>2, <2>3 DEF TabInv, ListsInv, TabsTyped, RestTyped
  <2>5. ASSUME NEW y \in Sessions PROVE SessionInv(y)'
    BY <2>1, <2>2 DEF TabInv, SessionInv
  <2>6. AloneInv'
    BY <2>2 DEF TabInv, AloneInv
  <2> QED
    BY <2>2, <2>4, <2>5, <2>6 DEF TabInv
<1>5. ASSUME NEW j \in Transfers,
             TransferBegin(j) \/ NothingToTransfer(j) \/ TransferRun(j) \/ TransferEnd(j)
      PROVE  TabInv'
  <2>1. UNCHANGED <<side, tabVars, linkVars, closer, quitVars, crashed>>
    BY <1>5 DEF TransferBegin, NothingToTransfer, TransferRun, TransferEnd
  <2>2. engine' \in Transfers \cup {Nobody}
    BY <1>5 DEF TransferBegin, NothingToTransfer, TransferRun, TransferEnd, TabInv, RestTyped
  <2>3. flow' \in [Transfers -> [pc : {"idle", "planning", "running", "ended"},
                                 from : Panes \cup {Nobody}, to : Panes \cup {Nobody}]]
    <3>1. flow \in [Transfers -> [pc : {"idle", "planning", "running", "ended"},
                                  from : Panes \cup {Nobody}, to : Panes \cup {Nobody}]]
      BY DEF TabInv, RestTyped
    <3>2. CASE TransferBegin(j)
      <4>1. side \in Sides /\ Other(side) \in Sides
        BY DEF TabInv, RestTyped, Other, Sides
      <4>2. ActivePane(side) \in Panes /\ ActivePane(Other(side)) \in Panes
        BY <4>1, ActiveIsListed
      <4> QED
        BY <3>1, <3>2, <4>2 DEF TransferBegin
    <3>3. CASE NothingToTransfer(j) \/ TransferRun(j) \/ TransferEnd(j)
      BY <3>1, <3>3 DEF NothingToTransfer, TransferRun, TransferEnd, FlowEnded
    <3> QED
      BY <1>5, <3>2, <3>3
  <2>4. RestTyped'
    BY <2>1, <2>2, <2>3 DEF TabInv, RestTyped, tabVars, linkVars, quitVars
  <2> QED
    BY <2>1, <2>4, TabFrame DEF tabVars, quitVars
<1>6. CASE QuitVisit
  <2>1. CloseConnection(Head(toClose)) /\ quit # "no" /\ quit' = quit
        /\ UNCHANGED <<side, tabVars, closer, engine, flow, visited, crashed>>
    BY <1>6 DEF QuitVisit, Sides
  <2>2. visited' \in [Sides -> Nat]
    BY <2>1 DEF TabInv, RestTyped
  <2> QED
    BY <2>1, <2>2, CloseConnectionTabs
<1>7. CASE QuitBegin \/ QuitNextSide
  <2>1. /\ UNCHANGED <<side, tabVars, linkVars, closer, engine, flow, visited, crashed>>
        /\ quit' \in {"left", "right", "unmount"}
    BY <1>7 DEF QuitBegin, QuitNextSide
  <2>2. RestTyped'
    BY <2>1 DEF TabInv, RestTyped, Sides, tabVars, linkVars
  <2> QED
    BY <2>1, <2>2, TabFrame DEF tabVars
<1>8. ASSUME NEW s \in Sides, Unmount(s) PROVE TabInv'
  <2>1. /\ UNCHANGED <<side, tabVars, closer, engine, flow, crashed>> /\ quit = "unmount"
        /\ CloseConnection(tabs[s][visited[s] + 1]) /\ UNCHANGED quit
        /\ visited' = [visited EXCEPT ![s] = @ + 1]
    BY <1>8 DEF Unmount
  <2>2. visited' \in [Sides -> Nat]
    BY <2>1 DEF TabInv, RestTyped
  <2> QED
    BY <2>1, <2>2, CloseConnectionTabs
<1>10. CASE TornDown
  <2>1. /\ UNCHANGED <<side, tabVars, linkVars, closer, engine, flow, visited, crashed>>
        /\ quit = "unmount" /\ quit' = "done"
    BY <1>10 DEF TornDown
  <2>2. RestTyped'
    BY <2>1 DEF TabInv, RestTyped, tabVars, linkVars
  <2> QED
    BY <2>1, <2>2, TabFrame DEF tabVars
<1>9. CASE Gone \/ UNCHANGED vars
  <2>1. UNCHANGED vars
    BY <1>9 DEF Gone
  <2>2. RestTyped'
    BY <2>1 DEF vars, tabVars, linkVars, quitVars, TabInv, RestTyped
  <2> QED
    BY <2>1, <2>2, TabFrame DEF vars, tabVars, quitVars
<1> QED
  BY <1>1, <1>2, <1>3, <1>4, <1>5, <1>6, <1>7, <1>8, <1>9, <1>10,
     OpenSessionKeeps, OpenRefusedKeeps, CloseBeginKeeps, CloseLinkKeeps
  DEF Next, WorkerStep, QuitStep, UserStep

\* Whatever workers add, close or quit, each side keeps its Local tab and lists no pane
\* twice, the panes it lists are those of sessions, and every variable has its type.
THEOREM TabTypes == Spec => []TypeOK
<1>1. TabInv => TypeOK
  <2> SUFFICES ASSUME TabInv PROVE TypeOK
    OBVIOUS
  <2>1. ASSUME NEW s \in Sides
        PROVE  Contains(tabs[s], s) /\ IsInjective(tabs[s]) /\ ToSet(tabs[s]) \subseteq Sessions \cup {s}
    <3>1. /\ Contains(tabs[s], s) /\ IsInjective(tabs[s]) /\ tabs[s] \in Seq(Panes)
          /\ \A e : Contains(tabs[s], e) => e \in Sessions \cup {s}
      BY DEF TabInv, ListsInv, TabsTyped
    <3>2. DOMAIN tabs[s] = 1..Len(tabs[s])
      BY <3>1, LenProperties
    <3> QED
      BY <3>1, <3>2 DEF ToSet, Contains
  <2> QED
    BY <2>1 DEF TabInv, RestTyped, TypeOK
<1> QED
  BY <1>1, TabInit, TabNext, PTL DEF Spec

\* For any number of sessions and of workers that attach and disconnect: a connection
\* that is open has its tab, by which disconnect_flow() and close_everything() reach it,
\* and one that is closed has none, until the application is being shut down.
THEOREM OpenSessionsAreListed == Spec => []OpenIffListed
<1>1. TabInv => OpenIffListed
  BY DEF TabInv, SessionInv, OpenIffListed
<1> QED
  BY <1>1, TabInit, TabNext, PTL DEF Spec

\* However many workers disconnect one tab at once, and whatever the shutdown and
\* on_unmount() do meanwhile, one of them closes its connection and does so once.
THEOREM PanesGiveUpOnce == Spec => []GivenUpOnce
<1>1. TabInv => GivenUpOnce
  BY DEF TabInv, SessionInv, AloneInv, GivenUpOnce
<1> QED
  BY <1>1, TabInit, TabNext, PTL DEF Spec

=============================================================================
