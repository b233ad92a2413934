------------------------- MODULE SshSessionsProofs -------------------------
(* Proofs about SshSessions, for any number of connections, panes, shells, *)
(* workers and ports.                                                      *)
EXTENDS SshSessions, FiniteSetTheorems, TLAPS

\* What a worker awaits is about a connection, and about a key where it ends
\* with a shell.
JobInv ==
  \A w \in Workers :
    /\ job[w].pc \in {"channel", "browse", "start", "forward"} => job[w].conn \in Conns
    /\ job[w].pc \in {"start", "forward", "closeShell"} => job[w].key \in Keys

Typed == TypeOK /\ JobInv /\ IsFiniteSet(tabs)

\* Who starts a shell has a child; who binds a port is starting its forward.
WaitInv ==
  \A w \in Workers :
    /\ job[w].pc = "start" => starting[w] \in Shells
    /\ binding[w] # {} => job[w].pc = "forward" /\ binding[w] \subseteq job[w].todo

LEMMA InitTyped == Init => Typed
<1> SUFFICES ASSUME Init PROVE Typed
  OBVIOUS
<1> USE SshAssumption DEF Init, Idle
<1>1. IsFiniteSet(tabs)
  BY FS_EmptySet
<1>2. JobInv
  BY DEF JobInv
<1>3. job \in [Workers -> [pc : Jobs, conn : Conns \cup {NoOne},
                          key : Keys \cup {NoOne}, todo : SUBSET Ports]]
  BY DEF Jobs
<1>4. /\ tabs \subseteq Nat \X Shells /\ crashed \in BOOLEAN
      /\ shellAt \in [Keys -> Shells \cup {NoOne}]
  OBVIOUS
<1>5. TypeOK
  BY <1>3, <1>4 DEF TypeOK, IsOpen
<1> QED
  BY <1>1, <1>2, <1>5 DEF Typed

\* What Release() does to the types.
LEMMA ReleaseTyped ==
  ASSUME TypeOK, NEW c \in Conns, Release(c)
  PROVE  /\ link' \in [Conns -> {"none", "open", "closed"}]
         /\ refs' \in [Conns -> Nat]
         /\ \A d \in Conns : link'[d] = "open" <=> refs'[d] > 0
         /\ forwards' \in [Conns -> SUBSET Ports]
         /\ bound' \in [Ports -> Conns \cup {NoOne}]
         /\ binding' = binding
<1> USE DEF TypeOK, IsOpen, forwardVars
<1>1. CASE IsOpen(c)
  <2>1. /\ refs' = [refs EXCEPT ![c] = @ - 1]
        /\ CloseLinks(IF refs[c] = 1 THEN {c} ELSE {})
    BY <1>1 DEF Release
  <2>2. refs[c] \in Nat /\ refs[c] > 0
    BY <1>1
  <2>3. refs' \in [Conns -> Nat]
    BY <2>1, <2>2
  <2>4. /\ link' \in [Conns -> {"none", "open", "closed"}]
        /\ forwards' \in [Conns -> SUBSET Ports]
        /\ bound' \in [Ports -> Conns \cup {NoOne}]
        /\ binding' = binding
    BY <2>1 DEF CloseLinks
  <2>5. \A d \in Conns : link'[d] = "open" <=> refs'[d] > 0
    BY <2>1, <2>2 DEF CloseLinks
  <2> QED
    BY <2>3, <2>4, <2>5
<1>2. CASE ~IsOpen(c)
  BY <1>2 DEF Release
<1> QED
  BY <1>1, <1>2

LEMMA AppTyped ==
  ASSUME Typed, AppStep \/ UNCHANGED vars
  PROVE  Typed'
<1> USE SshAssumption DEF Typed, Keys
<1>1. ASSUME NEW c \in Conns, Disconnect(c) PROVE Typed'
  <2>1. IsFiniteSet(tabs')
    BY <1>1, FS_Subset DEF Disconnect, CloseShellAt
  <2>2. JobInv'
    BY <1>1 DEF Disconnect, JobInv
  <2>3. /\ link' \in [Conns -> {"none", "open", "closed"}] /\ refs' \in [Conns -> Nat]
        /\ \A d \in Conns : link'[d] = "open" <=> refs'[d] > 0
        /\ forwards' \in [Conns -> SUBSET Ports] /\ bound' \in [Ports -> Conns \cup {NoOne}]
        /\ binding' = binding
    BY <1>1, ReleaseTyped DEF Disconnect
  <2>4. /\ shellAt' \in [Keys -> Shells \cup {NoOne}]
        /\ running' \subseteq Shells /\ tabs' \subseteq Nat \X Shells
        /\ starting' = starting
        /\ sessions' \subseteq Conns /\ rows' \subseteq Conns
    BY <1>1 DEF Disconnect, CloseShellAt, RefreshRows, TypeOK
  <2>5. TypeOK'
    BY <1>1, <2>3, <2>4 DEF Disconnect, quitVars, TypeOK, IsOpen
  <2> QED
    BY <2>1, <2>2, <2>5
<1>2. ASSUME NEW c \in Conns, NEW i \in Ports, StopForward(c, i) PROVE Typed'
  BY <1>2 DEF StopForward, managerVars, shellVars, quitVars, JobInv, TypeOK, IsOpen
<1>3. CASE QuitShells
  BY <1>3 DEF QuitShells, managerVars, forwardVars, JobInv, TypeOK, IsOpen
<1>4. ASSUME NEW x \in Panes, QuitPane(x) PROVE Typed'
  <2>1. IsFiniteSet(tabs') /\ JobInv'
    BY <1>4 DEF QuitPane, shellVars, JobInv
  <2>2. CASE owner[x] # NoOne /\ owner' = [owner EXCEPT ![x] = NoOne] /\ Release(owner[x])
    <3>1. owner[x] \in Conns
      BY <2>2 DEF TypeOK
    <3> QED
      BY <1>4, <2>1, <2>2, <3>1, ReleaseTyped DEF QuitPane, shellVars, TypeOK, IsOpen
  <2>3. CASE UNCHANGED <<owner, link, refs, forwardVars>>
    BY <1>4, <2>1, <2>3 DEF QuitPane, shellVars, forwardVars, TypeOK, IsOpen
  <2> QED
    BY <1>4, <2>2, <2>3 DEF QuitPane
<1>5. CASE QuitManager
  BY <1>5 DEF QuitManager, CloseLinks, shellVars, JobInv, TypeOK, IsOpen
<1>6. CASE UNCHANGED vars
  BY <1>6 DEF vars, managerVars, shellVars, forwardVars, quitVars, JobInv, TypeOK, IsOpen
<1>7. ASSUME NEW h \in Shells, ChildEnds(h) PROVE Typed'
  BY <1>7 DEF ChildEnds, managerVars, forwardVars, quitVars, JobInv, TypeOK, IsOpen
<1> QED
  BY <1>1, <1>2, <1>3, <1>4, <1>5, <1>6, <1>7 DEF AppStep

\* What a worker may come to await.
JobType == [pc : Jobs, conn : Conns \cup {NoOne}, key : Keys \cup {NoOne}, todo : SUBSET Ports]

LEMMA GotoTyped ==
  ASSUME Typed, NEW w \in Workers, NEW pc \in Jobs, NEW c \in Conns \cup {NoOne},
         NEW k \in Keys \cup {NoOne}, NEW todo \in SUBSET Ports,
         Goto(w, pc, c, k, todo),
         pc \in {"channel", "browse", "start", "forward"} => c \in Conns,
         pc \in {"start", "forward", "closeShell"} => k \in Keys
  PROVE  job' \in [Workers -> JobType] /\ JobInv'
BY DEF Goto, Typed, TypeOK, JobInv, JobType

LEMMA IdleTyped ==
  ASSUME Typed, NEW w \in Workers, job' = [job EXCEPT ![w] = Idle]
  PROVE  job' \in [Workers -> JobType] /\ JobInv'
BY DEF Idle, Jobs, Typed, TypeOK, JobInv, JobType

LEMMA ConnectTyped ==
  ASSUME Typed, NEW w \in Workers, ConnectStep(w)
  PROVE  Typed'
<1> USE SshAssumption DEF Typed
<1>0. "channel" \in Jobs /\ "browse" \in Jobs /\ "start" \in Jobs /\ "forward" \in Jobs
      /\ "closeShell" \in Jobs
  BY DEF Jobs
<1>1. ASSUME NEW c \in Conns, AcquireShared(w, c) PROVE Typed'
  <2>1. job' \in [Workers -> JobType] /\ JobInv'
    BY <1>0, <1>1, GotoTyped DEF AcquireShared
  <2> QED
    BY <1>1, <2>1 DEF AcquireShared, Count, shellVars, forwardVars, quitVars,
                      JobType, TypeOK, IsOpen
<1>2. ASSUME NEW c \in Conns, AcquireNew(w, c) PROVE Typed'
  <2>1. job' \in [Workers -> JobType] /\ JobInv'
    BY <1>0, <1>2, GotoTyped DEF AcquireNew
  <2> QED
    BY <1>2, <2>1 DEF AcquireNew, Count, shellVars, forwardVars, quitVars,
                      JobType, TypeOK, IsOpen
<1>3. ASSUME NEW c \in Conns, AcquireDedicated(w, c) PROVE Typed'
  <2>1. job' \in [Workers -> JobType] /\ JobInv'
    BY <1>0, <1>3, GotoTyped DEF AcquireDedicated, Keys
  <2>2. running' \subseteq Shells /\ starting' \in [Workers -> Shells \cup {NoOne}]
    BY <1>3 DEF AcquireDedicated, Spawn, TypeOK
  <2> QED
    BY <1>3, <2>1, <2>2 DEF AcquireDedicated, Count, forwardVars, quitVars,
                            JobType, TypeOK, IsOpen
<1>4. ASSUME NEW x \in Panes, ChannelUp(w, x) PROVE Typed'
  <2>1. job' \in [Workers -> JobType] /\ JobInv'
    BY <1>4, IdleTyped DEF ChannelUp
  <2>2. job[w].conn \in Conns
    BY <1>4 DEF ChannelUp, JobInv
  <2> QED
    BY <1>4, <2>1, <2>2 DEF ChannelUp, RefreshRows, managerVars, shellVars, forwardVars,
                            quitVars, JobType, TypeOK, IsOpen
<1>5. CASE NoRoom(w) \/ ChannelFails(w)
  <2>1. job' \in [Workers -> JobType] /\ JobInv'
    BY <1>5, IdleTyped DEF NoRoom, ChannelFails
  <2>2. job[w].conn \in Conns /\ Release(job[w].conn)
    BY <1>5 DEF NoRoom, ChannelFails, JobInv
  <2>3. /\ link' \in [Conns -> {"none", "open", "closed"}] /\ refs' \in [Conns -> Nat]
        /\ \A d \in Conns : link'[d] = "open" <=> refs'[d] > 0
        /\ forwards' \in [Conns -> SUBSET Ports] /\ bound' \in [Ports -> Conns \cup {NoOne}]
        /\ binding' = binding
    BY <2>2, ReleaseTyped
  <2> QED
    BY <1>5, <2>1, <2>3 DEF NoRoom, ChannelFails, shellVars, quitVars,
                            JobType, TypeOK, IsOpen
<1>6. CASE BrowseFails(w)
  <2>1. job' \in [Workers -> JobType] /\ JobInv'
    BY <1>6, IdleTyped DEF BrowseFails
  <2> QED
    BY <1>6, <2>1 DEF BrowseFails, managerVars, shellVars, forwardVars, quitVars,
                      JobType, TypeOK, IsOpen
<1>7. ASSUME NEW c \in Conns, BrowseBegin(w, c) PROVE Typed'
  <2>1. job' \in [Workers -> JobType] /\ JobInv'
    BY <1>0, <1>7, GotoTyped DEF BrowseBegin
  <2> QED
    BY <1>7, <2>1 DEF BrowseBegin, Count, shellVars, forwardVars, quitVars,
                      JobType, TypeOK, IsOpen
<1>8. ASSUME NEW x \in Panes, ClosePane(w, x) PROVE Typed'
  <2>1. job' \in [Workers -> JobType] /\ JobInv'
    BY <1>0, <1>8, GotoTyped DEF ClosePane, Keys
  <2>2. owner[x] \in Conns
    BY <1>8 DEF ClosePane, TypeOK
  <2>3. /\ link' \in [Conns -> {"none", "open", "closed"}] /\ refs' \in [Conns -> Nat]
        /\ \A d \in Conns : link'[d] = "open" <=> refs'[d] > 0
        /\ forwards' \in [Conns -> SUBSET Ports] /\ bound' \in [Ports -> Conns \cup {NoOne}]
        /\ binding' = binding
    BY <1>8, <2>2, ReleaseTyped DEF ClosePane
  <2> QED
    BY <1>8, <2>1, <2>3 DEF ClosePane, shellVars, quitVars, JobType, TypeOK, IsOpen
<1>9. CASE ClosePaneShell(w)
  <2>1. job' \in [Workers -> JobType] /\ JobInv'
    BY <1>9, IdleTyped DEF ClosePaneShell
  <2>2. /\ shellAt' \in [Keys -> Shells \cup {NoOne}]
        /\ running' \subseteq Shells /\ tabs' \subseteq Nat \X Shells /\ starting' = starting
    BY <1>9 DEF ClosePaneShell, CloseShellAt, TypeOK
  <2>3. IsFiniteSet(tabs')
    BY <1>9, FS_Subset DEF ClosePaneShell, CloseShellAt
  <2> QED
    BY <1>9, <2>1, <2>2, <2>3 DEF ClosePaneShell, managerVars, forwardVars, quitVars,
                                  JobType, TypeOK, IsOpen
<1> QED
  BY <1>1, <1>2, <1>3, <1>4, <1>5, <1>6, <1>7, <1>8, <1>9 DEF ConnectStep

LEMMA RunTyped ==
  ASSUME Typed, WaitInv, NEW w \in Workers, RunStep(w)
  PROVE  Typed'
<1> USE SshAssumption DEF Typed
<1>0. "start" \in Jobs /\ "forward" \in Jobs
  BY DEF Jobs
<1>1. ASSUME NEW k \in Keys, ShellBegin(w, k) PROVE Typed'
  <2> DEFINE c == IF k \in Panes THEN owner[k] ELSE k
  <2>1. c \in Conns
    BY <1>1 DEF ShellBegin, TypeOK, Keys
  <2>2. Goto(w, "start", c, k, {})
    BY <1>1 DEF ShellBegin
  <2> HIDE DEF c
  <2>3. job' \in [Workers -> JobType] /\ JobInv'
    BY <1>0, <2>1, <2>2, GotoTyped
  <2>4. running' \subseteq Shells /\ starting' \in [Workers -> Shells \cup {NoOne}]
    BY <1>1 DEF ShellBegin, Spawn, TypeOK
  <2> QED
    BY <1>1, <2>3, <2>4 DEF ShellBegin, managerVars, forwardVars, quitVars,
                            JobType, TypeOK, IsOpen
<1>2. ASSUME AfterShell(w), job[w].pc = "start" PROVE job' \in [Workers -> JobType] /\ JobInv'
  <2>1. CASE job[w].todo = {}
    <3>1. job' = [job EXCEPT ![w] = Idle]
      BY <1>2, <2>1 DEF AfterShell
    <3> QED
      BY <3>1, IdleTyped
  <2>2. CASE job[w].todo # {}
    <3>1. job' = [job EXCEPT ![w] = [job[w] EXCEPT !.pc = "forward"]]
      BY <1>2, <2>2 DEF AfterShell
    <3>2. job[w] \in JobType /\ job[w].conn \in Conns /\ job[w].key \in Keys
      BY <1>2 DEF TypeOK, JobInv, JobType
    <3>3. [job[w] EXCEPT !.pc = "forward"] \in JobType
      BY <1>0, <3>2 DEF JobType
    <3> QED
      BY <3>1, <3>2, <3>3 DEF TypeOK, JobInv, JobType
  <2> QED
    BY <2>1, <2>2
<1>3. CASE ShellStarted(w)
  <2>1. job' \in [Workers -> JobType] /\ JobInv'
    BY <1>2, <1>3 DEF ShellStarted
  <2> DEFINE id == Cardinality(tabs)
             k == job[w].key
             h == starting[w]
  <2>2. id \in Nat /\ k \in Keys /\ h \in Shells
    BY <1>3, FS_CardinalityType DEF ShellStarted, JobInv, WaitInv
  <2>3. tabs' = {t \in tabs : t[1] # id} \cup {<<id, h>>}
    BY <1>3 DEF ShellStarted
  <2>4. crashed' \in BOOLEAN /\ shellAt' = [shellAt EXCEPT ![k] = h] /\ running' = running
    BY <1>3 DEF ShellStarted
  <2>7. starting' \in [Workers -> Shells \cup {NoOne}]
    BY <1>3 DEF ShellStarted, TypeOK
  <2> HIDE DEF id, k, h
  <2>5. IsFiniteSet(tabs')
    <3>1. IsFiniteSet({t \in tabs : t[1] # id})
      BY FS_Subset
    <3> QED
      BY <2>3, <3>1, FS_AddElement
  <2>6. /\ shellAt' \in [Keys -> Shells \cup {NoOne}]
        /\ running' \subseteq Shells /\ tabs' \subseteq Nat \X Shells
    BY <2>2, <2>3, <2>4 DEF TypeOK
  <2> QED
    BY <1>3, <2>1, <2>4, <2>5, <2>6, <2>7 DEF ShellStarted, managerVars, forwardVars, quitVars,
                                             JobType, TypeOK, IsOpen
<1>4. CASE ShellFails(w)
  <2>1. job' \in [Workers -> JobType] /\ JobInv'
    BY <1>2, <1>4 DEF ShellFails
  <2> QED
    BY <1>4, <2>1 DEF ShellFails, managerVars, shellVars, forwardVars, quitVars,
                      JobType, TypeOK, IsOpen
<1>5. CASE ForwardsStarted(w)
  <2>1. job' \in [Workers -> JobType] /\ JobInv'
    BY <1>5, IdleTyped DEF ForwardsStarted
  <2> QED
    BY <1>5, <2>1 DEF ForwardsStarted, RefreshRows, managerVars, shellVars, forwardVars,
                      quitVars, JobType, TypeOK, IsOpen
<1>6. ASSUME NEW c \in Conns, NEW i \in Ports, ForwardBegin(w, c, i) PROVE Typed'
  <2>1. job' \in [Workers -> JobType] /\ JobInv'
    BY <1>0, <1>6, GotoTyped DEF ForwardBegin, Keys
  <2> QED
    BY <1>6, <2>1 DEF ForwardBegin, managerVars, shellVars, forwardVars, quitVars,
                      JobType, TypeOK, IsOpen
<1>7. ASSUME NEW i \in Ports, ForwardStarts(w, i) \/ ForwardFails(w, i) PROVE Typed'
  <2>1. job' = [job EXCEPT ![w].todo = @ \ {i}] /\ job[w] \in JobType
    BY <1>7 DEF ForwardStarts, ForwardFails, ForwardDone, TypeOK, JobType
  <2>2. job' \in [Workers -> JobType] /\ JobInv'
    BY <2>1 DEF JobInv, JobType, TypeOK
  <2>3. job[w].conn \in Conns
    BY <1>7 DEF ForwardStarts, ForwardFails, JobInv, WaitInv
  <2>4. forwards' \in [Conns -> SUBSET Ports] /\ binding' \in [Workers -> SUBSET Ports]
    BY <1>7, <2>3 DEF ForwardStarts, ForwardFails, forwardVars, TypeOK
  <2> QED
    BY <1>7, <2>2, <2>4 DEF ForwardStarts, ForwardFails, managerVars, shellVars, forwardVars,
                            quitVars, JobType, TypeOK, IsOpen
<1>8. ASSUME NEW i \in Ports, ForwardBinds(w, i) PROVE Typed'
  BY <1>8 DEF ForwardBinds, managerVars, shellVars, quitVars, JobInv, TypeOK, IsOpen
<1> QED
  BY <1>1, <1>3, <1>4, <1>5, <1>6, <1>7, <1>8 DEF RunStep

\* A worker that binds a port does nothing else.
LEMMA WaitNext ==
  ASSUME Typed, WaitInv, [Next]_vars
  PROVE  WaitInv' /\ \A w \in Workers : binding'[w] # {} => job'[w] = job[w]
<1> USE SshAssumption
<1> DEFINE Goal == WaitInv' /\ \A w \in Workers : binding'[w] # {} => job'[w] = job[w]
<1>0. /\ job \in [Workers -> JobType] /\ binding \in [Workers -> SUBSET Ports]
      /\ starting \in [Workers -> Shells \cup {NoOne}]
  BY DEF Typed, TypeOK, JobType
<1>1. ASSUME UNCHANGED <<job, starting, binding>> PROVE Goal
  BY <1>1 DEF WaitInv
\* A worker that was not at a forward goes on, and not to a start.
<1>2. ASSUME NEW w \in Workers, UNCHANGED <<starting, binding>>,
             job[w].pc # "forward" \/ binding[w] = {}, job'[w].pc # "start",
             \A v \in Workers \ {w} : job'[v] = job[v]
      PROVE  Goal
  BY <1>2 DEF WaitInv
<1>3. ASSUME NEW c \in Conns, Release(c) PROVE binding' = binding
  BY <1>3 DEF Release, CloseLinks, forwardVars
<1>4. ASSUME NEW w \in Workers, ConnectStep(w) PROVE Goal
  <2>1. ASSUME NEW c \in Conns, AcquireShared(w, c) \/ AcquireNew(w, c) \/ BrowseBegin(w, c)
        PROVE  Goal
    BY <1>0, <1>2, <2>1 DEF AcquireShared, AcquireNew, BrowseBegin, Goto, Idle, shellVars, forwardVars
  <2>2. ASSUME NEW c \in Conns, AcquireDedicated(w, c) PROVE Goal
    <3>1. CASE Goto(w, "start", c, c, Ports) /\ \E h \in Shells : Spawn(w, h)
      BY <1>0, <2>2, <3>1 DEF AcquireDedicated, Spawn, Goto, Idle, forwardVars, WaitInv
    <3>2. CASE Goto(w, "forward", c, c, Ports) /\ UNCHANGED <<running, starting>>
      BY <1>0, <1>2, <2>2, <3>2 DEF AcquireDedicated, Goto, Idle, forwardVars
    <3> QED
      BY <2>2, <3>1, <3>2 DEF AcquireDedicated
  <2>3. ASSUME NEW x \in Panes, ChannelUp(w, x) PROVE Goal
    BY <1>0, <1>2, <2>3 DEF ChannelUp, Idle, shellVars, forwardVars
  <2>4. CASE NoRoom(w) \/ ChannelFails(w)
    <3>1. binding' = binding
      BY <1>3, <2>4 DEF NoRoom, ChannelFails, Typed, JobInv
    <3> QED
      BY <1>0, <1>2, <2>4, <3>1 DEF NoRoom, ChannelFails, Idle, shellVars
  <2>5. CASE BrowseFails(w) \/ ClosePaneShell(w)
    BY <1>0, <1>2, <2>5 DEF BrowseFails, ClosePaneShell, CloseShellAt, Idle, shellVars, forwardVars
  <2>6. ASSUME NEW x \in Panes, ClosePane(w, x) PROVE Goal
    <3>1. binding' = binding
      BY <1>3, <2>6 DEF ClosePane, Typed, TypeOK
    <3> QED
      BY <1>0, <1>2, <2>6, <3>1 DEF ClosePane, Goto, Idle, shellVars
  <2> QED
    BY <1>4, <2>1, <2>2, <2>3, <2>4, <2>5, <2>6 DEF ConnectStep
<1>5. ASSUME NEW w \in Workers, RunStep(w) PROVE Goal
  <2>1. ASSUME NEW k \in Keys, ShellBegin(w, k) PROVE Goal
    BY <1>0, <2>1 DEF ShellBegin, Spawn, Goto, Idle, forwardVars, WaitInv
  <2>2. CASE ShellStarted(w) \/ ShellFails(w)
    <3>1. /\ job[w].pc = "start" /\ binding' = binding
          /\ starting' = [starting EXCEPT ![w] = NoOne] /\ AfterShell(w)
      BY <2>2 DEF ShellStarted, ShellFails, forwardVars
    <3>2. job'[w].pc # "start" /\ \A v \in Workers \ {w} : job'[v] = job[v]
      BY <1>0, <3>1 DEF AfterShell, Idle, JobType
    <3> QED
      BY <1>0, <3>1, <3>2 DEF WaitInv
  <2>3. CASE ForwardsStarted(w)
    <3>1. binding[w] = {}
      BY <1>0, <2>3 DEF ForwardsStarted, WaitInv
    <3> QED
      BY <1>0, <1>2, <2>3, <3>1 DEF ForwardsStarted, Idle, shellVars, forwardVars
  <2>4. ASSUME NEW c \in Conns, NEW i \in Ports, ForwardBegin(w, c, i) PROVE Goal
    BY <1>0, <1>2, <2>4 DEF ForwardBegin, Goto, Idle, shellVars, forwardVars
  <2>5. ASSUME NEW i \in Ports, ForwardFails(w, i) PROVE Goal
    <3>1. job'[w].pc # "start" /\ \A v \in Workers \ {w} : job'[v] = job[v]
      BY <1>0, <2>5 DEF ForwardFails, ForwardDone, JobType
    <3> QED
      BY <1>2, <2>5, <3>1 DEF ForwardFails, shellVars, forwardVars
  <2>6. ASSUME NEW i \in Ports, ForwardBinds(w, i) PROVE Goal
    BY <1>0, <2>6 DEF ForwardBinds, shellVars, WaitInv
  <2>7. ASSUME NEW i \in Ports, ForwardStarts(w, i) PROVE Goal
    <3>1. job[w].pc = "forward" /\ job[w] \in JobType
      BY <1>0, <2>7 DEF ForwardStarts, WaitInv
    <3>2. /\ job'[w].pc = "forward" /\ binding' = [binding EXCEPT ![w] = {}]
          /\ \A v \in Workers \ {w} : job'[v] = job[v]
      BY <1>0, <2>7, <3>1 DEF ForwardStarts, ForwardDone, JobType
    <3> QED
      BY <1>0, <2>7, <3>1, <3>2 DEF ForwardStarts, shellVars, WaitInv
  <2> QED
    BY <1>5, <2>1, <2>2, <2>3, <2>4, <2>5, <2>6, <2>7 DEF RunStep
<1>6. CASE AppStep \/ UNCHANGED vars
  <2>1. ASSUME NEW c \in Conns, Disconnect(c) PROVE Goal
    BY <1>1, <1>3, <2>1 DEF Disconnect, CloseShellAt
  <2>2. ASSUME NEW c \in Conns, NEW i \in Ports, StopForward(c, i) PROVE Goal
    BY <1>1, <2>2 DEF StopForward, shellVars
  <2>3. ASSUME NEW h \in Shells, ChildEnds(h) PROVE Goal
    BY <1>1, <2>3 DEF ChildEnds, forwardVars
  <2>4. CASE QuitShells
    BY <1>1, <2>4 DEF QuitShells, forwardVars
  <2>5. CASE QuitManager
    BY <1>1, <2>5 DEF QuitManager, CloseLinks, shellVars
  <2>6. ASSUME NEW x \in Panes, QuitPane(x) PROVE Goal
    <3>1. binding' = binding
      BY <1>3, <2>6 DEF QuitPane, forwardVars, Typed, TypeOK
    <3> QED
      BY <1>1, <2>6, <3>1 DEF QuitPane, shellVars
  <2>7. CASE UNCHANGED vars
    BY <1>1, <2>7 DEF vars, shellVars, forwardVars
  <2> QED
    BY <1>6, <2>1, <2>2, <2>3, <2>4, <2>5, <2>6, <2>7 DEF AppStep
<1> QED
  BY <1>4, <1>5, <1>6 DEF Next, Gone

Sound == Typed /\ WaitInv

LEMMA InitSound == Init => Sound
BY InitTyped DEF Init, Idle, Sound, WaitInv

LEMMA NextSound == Sound /\ [Next]_vars => Sound'
<1> SUFFICES ASSUME Typed, WaitInv, [Next]_vars PROVE Typed' /\ WaitInv'
  BY DEF Sound
<1>1. \/ AppStep \/ UNCHANGED vars
      \/ \E w \in Workers : ConnectStep(w) \/ RunStep(w)
  BY DEF Next, Gone
<1> QED
  BY <1>1, AppTyped, ConnectTyped, RunTyped, WaitNext

\* The state of connections, shells, forwards and workers keeps its type, and
\* what the manager counts is open (net/connect.py, net/ssh.py).
THEOREM SshTypes == Spec => []TypeOK
<1>1. Sound => TypeOK
  BY DEF Sound, Typed
<1> QED
  BY <1>1, InitSound, NextSound, PTL DEF Spec

----------------------------------------------------------------------------
(* Ports. *)

\* A forward that is listed, or whose worker is about to list it, has its port.
PortInv ==
  /\ \A i \in Ports : bound[i] # NoOne => link[bound[i]] # "none"
  /\ \A c \in Conns : \A i \in forwards[c] : bound[i] = c
  /\ \A w \in Workers : \A i \in binding[w] :
       /\ bound[i] = job[w].conn
       /\ \A c \in Conns : i \notin forwards[c]
       /\ \A v \in Workers : i \in binding[v] => v = w
  /\ PortsListed

\* No port changes hands and no connection closes.
PortsKept ==
  /\ UNCHANGED forwardVars
  /\ \A c \in Conns : link'[c] = link[c] \/ (link[c] = "none" /\ link'[c] = "open")

\* What a step can do to ports.
LEMMA PortSteps ==
  ASSUME Typed, [Next]_vars
  PROVE  \/ PortsKept
         \/ \E C \in SUBSET Conns : CloseLinks(C)
         \/ \E c \in Conns, i \in Ports : StopForward(c, i)
         \/ \E w \in Workers, i \in Ports : ForwardBinds(w, i) \/ ForwardStarts(w, i)
<1> USE DEF Typed
<1> DEFINE Goal == PortsKept \/ \E C \in SUBSET Conns : CloseLinks(C)
<1>1. ASSUME NEW c \in Conns, Release(c) PROVE Goal
  BY <1>1 DEF Release, PortsKept, IsOpen, forwardVars
<1>2. ASSUME NEW w \in Workers, ConnectStep(w) PROVE Goal
  <2>1. ASSUME NEW c \in Conns, AcquireShared(w, c) \/ BrowseBegin(w, c) PROVE Goal
    BY <2>1 DEF AcquireShared, BrowseBegin, PortsKept
  <2>2. ASSUME NEW c \in Conns, AcquireNew(w, c) \/ AcquireDedicated(w, c) PROVE Goal
    BY <2>2 DEF AcquireNew, AcquireDedicated, PortsKept, TypeOK
  <2>3. ASSUME NEW x \in Panes, ChannelUp(w, x) PROVE Goal
    BY <2>3 DEF ChannelUp, managerVars, PortsKept
  <2>4. CASE NoRoom(w) \/ ChannelFails(w)
    BY <1>1, <2>4 DEF NoRoom, ChannelFails, JobInv
  <2>5. CASE BrowseFails(w) \/ ClosePaneShell(w)
    BY <2>5 DEF BrowseFails, ClosePaneShell, managerVars, PortsKept
  <2>6. ASSUME NEW x \in Panes, ClosePane(w, x) PROVE Goal
    BY <1>1, <2>6 DEF ClosePane, TypeOK
  <2> QED
    BY <1>2, <2>1, <2>2, <2>3, <2>4, <2>5, <2>6 DEF ConnectStep
<1>3. ASSUME NEW w \in Workers, RunStep(w)
      PROVE  Goal \/ \E i \in Ports : ForwardBinds(w, i) \/ ForwardStarts(w, i)
  BY <1>3 DEF RunStep, ShellBegin, ShellStarted, ShellFails, ForwardsStarted, ForwardBegin,
              ForwardFails, managerVars, PortsKept
<1>4. ASSUME AppStep PROVE Goal \/ \E c \in Conns, i \in Ports : StopForward(c, i)
  <2>1. ASSUME NEW c \in Conns, Disconnect(c) PROVE Goal
    BY <1>1, <2>1 DEF Disconnect
  <2>2. ASSUME QuitShells \/ \E h \in Shells : ChildEnds(h) PROVE Goal
    BY <2>2 DEF QuitShells, ChildEnds, managerVars, PortsKept
  <2>3. ASSUME NEW x \in Panes, QuitPane(x) PROVE Goal
    BY <1>1, <2>3 DEF QuitPane, TypeOK, PortsKept
  <2>4. CASE QuitManager
    BY <2>4 DEF QuitManager
  <2> QED
    BY <1>4, <2>1, <2>2, <2>3, <2>4 DEF AppStep
<1>5. CASE UNCHANGED vars
  BY <1>5 DEF vars, managerVars, PortsKept
<1> QED
  BY <1>2, <1>3, <1>4, <1>5 DEF Next, Gone

\* A worker that binds a port has its connection.
LEMMA JobConn ==
  ASSUME Typed, WaitInv, NEW w \in Workers, binding[w] # {}
  PROVE  job[w].conn \in Conns
BY DEF Typed, JobInv, WaitInv

LEMMA PortsNext == Sound /\ PortInv /\ [Next]_vars => PortInv'
<1> SUFFICES ASSUME Typed, WaitInv, PortInv, [Next]_vars PROVE PortInv'
  BY DEF Sound
<1>0. \A w \in Workers : binding'[w] # {} => job'[w] = job[w]
  BY WaitNext
<1> USE SshAssumption DEF Typed, TypeOK, IsOpen, PortInv, PortsListed
<1>1. CASE PortsKept
  BY <1>0, <1>1 DEF PortsKept, forwardVars
<1>2. ASSUME NEW C \in SUBSET Conns, CloseLinks(C) PROVE PortInv'
  BY <1>0, <1>2 DEF CloseLinks
<1>3. ASSUME NEW c \in Conns, NEW i \in Ports, StopForward(c, i) PROVE PortInv'
  BY <1>0, <1>3 DEF StopForward, managerVars
<1>4. ASSUME NEW w \in Workers, NEW i \in Ports, ForwardBinds(w, i) PROVE PortInv'
  <2> DEFINE c == job[w].conn
  <2>1. /\ c \in Conns /\ link[c] = "open" /\ bound[i] = NoOne /\ binding[w] = {}
        /\ bound' = [bound EXCEPT ![i] = c] /\ binding' = [binding EXCEPT ![w] = {i}]
        /\ UNCHANGED <<link, forwards, job>>
    BY <1>4 DEF ForwardBinds, managerVars, JobInv
  <2>2. /\ \A d \in Conns : i \notin forwards[d]
        /\ \A v \in Workers : i \notin binding[v]
    BY <2>1, JobConn
  <2> HIDE DEF c
  <2>3. /\ bound'[i] = c /\ \A j \in Ports \ {i} : bound'[j] = bound[j]
        /\ binding'[w] = {i} /\ \A v \in Workers \ {w} : binding'[v] = binding[v]
    BY <2>1
  <2> QED
    BY <2>1, <2>2, <2>3 DEF c
<1>5. ASSUME NEW w \in Workers, NEW i \in Ports, ForwardStarts(w, i) PROVE PortInv'
  <2> DEFINE c == job[w].conn
  <2>1. /\ c \in Conns /\ bound[i] = c /\ binding[w] = {i}
        /\ forwards' = [forwards EXCEPT ![c] = @ \cup {i}]
        /\ binding' = [binding EXCEPT ![w] = {}]
        /\ UNCHANGED <<link, bound>>
    BY <1>5 DEF ForwardStarts, managerVars, JobInv, WaitInv
  <2> HIDE DEF c
  <2>2. /\ forwards'[c] = forwards[c] \cup {i}
        /\ \A d \in Conns \ {c} : forwards'[d] = forwards[d]
        /\ binding'[w] = {} /\ \A v \in Workers \ {w} : binding'[v] = binding[v]
    BY <2>1
  <2>3. \A v \in Workers \ {w} : i \notin binding[v] /\ (binding[v] # {} => job'[v] = job[v])
    BY <1>0, <2>1, <2>2
  <2>4. \A d \in Conns : \A j \in forwards'[d] : bound'[j] = d
    BY <2>1, <2>2
  <2>5. ASSUME NEW v \in Workers, NEW j \in binding'[v]
        PROVE  /\ bound'[j] = job'[v].conn
               /\ \A d \in Conns : j \notin forwards'[d]
               /\ \A u \in Workers : j \in binding'[u] => u = v
    <3>1. v # w /\ j \in binding[v] /\ j # i /\ job'[v] = job[v]
      BY <2>2, <2>3, <2>5
    <3> QED
      BY <2>1, <2>2, <3>1
  <2>6. PortsListed'
    BY <2>1, <2>2
  <2>7. \A j \in Ports : bound'[j] # NoOne => link'[bound'[j]] # "none"
    BY <2>1
  <2> QED
    BY <2>4, <2>5, <2>6, <2>7
<1> QED
  BY <1>1, <1>2, <1>3, <1>4, <1>5, PortSteps

\* A port that is bound for an open connection has its forward listed, or a worker
\* that is about to list it, whatever is started, stopped and closed at once
\* (start_forward(), stop_forward(), close()).
THEOREM PortsStayListed == Spec => []PortsListed
<1>1. Init => PortInv
  BY DEF Init, PortInv, PortsListed
<1>2. PortInv => PortsListed
  BY DEF PortInv
<1> QED
  BY <1>1, <1>2, InitSound, NextSound, PortsNext, PTL DEF Spec

----------------------------------------------------------------------------
(* References. *)

Enough(c) == Cardinality(Holders(c)) <= refs[c]

\* A session has a reference for everybody who holds it, until the application
\* quits; nobody holds a connection that was never opened.
SessionInv ==
  /\ quit # "no" => sessions = {}
  /\ \A c \in Conns : link[c] = "none" => Holders(c) = {}
  /\ \A c \in sessions : Enough(c)

LEMMA HoldersFinite ==
  ASSUME NEW c \in Conns
  PROVE  /\ IsFiniteSet(Holders(c)) /\ Cardinality(Holders(c)) \in Nat
         /\ Cardinality(Holders(c)) = 0 <=> Holders(c) = {}
<1>1. IsFiniteSet(Panes \cup Workers) /\ IsFiniteSet({c})
  BY SshAssumption, FS_Union, FS_Singleton
<1>2. IsFiniteSet((Panes \cup Workers) \cup {c})
  BY <1>1, FS_Union
<1>3. Holders(c) \subseteq (Panes \cup Workers) \cup {c}
  BY DEF Holders
<1>4. IsFiniteSet(Holders(c))
  BY <1>2, <1>3, FS_Subset
<1> QED
  BY <1>4, FS_CardinalityType, FS_EmptySet

LEMMA HoldKept ==
  ASSUME NEW c \in Conns, Enough(c),
         refs'[c] = refs[c],
         \A y : y \in Holders(c)' <=> y \in Holders(c)
  PROVE  Enough(c)'
<1>1. Holders(c)' = Holders(c)
  OBVIOUS
<1> QED
  BY <1>1 DEF Enough

\* A holder comes, with a reference.
LEMMA HoldGains ==
  ASSUME Typed, NEW c \in Conns, Enough(c), NEW y, y \notin Holders(c),
         Holders(c)' = Holders(c) \cup {y}, Count(c)
  PROVE  Enough(c)'
<1>1. Cardinality(Holders(c)') = Cardinality(Holders(c)) + 1
  BY HoldersFinite, FS_AddElement
<1>2. refs'[c] = refs[c] + 1
  BY DEF Count, Typed, TypeOK
<1>3. Cardinality(Holders(c)) \in Nat /\ refs[c] \in Nat
  BY HoldersFinite DEF Typed, TypeOK
<1> QED
  BY <1>1, <1>2, <1>3 DEF Enough

\* A holder goes, and releases.
LEMMA HoldLoses ==
  ASSUME Typed, NEW c \in Conns, Enough(c), NEW y \in Holders(c),
         Holders(c)' = Holders(c) \ {y}, Release(c)
  PROVE  Enough(c)'
<1>1. /\ Cardinality(Holders(c)') = Cardinality(Holders(c)) - 1
      /\ Cardinality(Holders(c)) \in Nat /\ Cardinality(Holders(c)) # 0
  BY HoldersFinite, FS_RemoveElement
<1>2. refs[c] \in Nat
  BY DEF Typed, TypeOK
<1>3. refs[c] > 0
  BY <1>1, <1>2 DEF Enough
<1>4. refs'[c] = refs[c] - 1
  BY <1>3 DEF Release, Typed, TypeOK
<1> QED
  BY <1>1, <1>2, <1>4 DEF Enough

\* A holder goes, and keeps its reference from the others.
LEMMA HoldDrops ==
  ASSUME Typed, NEW c \in Conns, Enough(c), NEW y \in Holders(c),
         Holders(c)' = Holders(c) \ {y}, refs'[c] = refs[c]
  PROVE  Enough(c)'
<1>1. /\ Cardinality(Holders(c)') = Cardinality(Holders(c)) - 1
      /\ Cardinality(Holders(c)) \in Nat
  BY HoldersFinite, FS_RemoveElement
<1> QED
  BY <1>1 DEF Enough, Typed, TypeOK

\* Nobody else's count changes.
LEMMA OthersKept ==
  ASSUME Typed, NEW c \in Conns, Count(c) \/ Release(c), NEW d \in Conns \ {c}
  PROVE  refs'[d] = refs[d]
BY DEF Count, Release, Typed, TypeOK

LEMMA InHolders ==
  ASSUME NEW c \in Conns
  PROVE  /\ \A y : y \in Holders(c) <=>
                \/ y \in Panes /\ owner[y] = c
                \/ y \in Workers /\ job[y].pc \in {"channel", "browse"} /\ job[y].conn = c
                \/ y = c /\ c \in sessions
         /\ \A y : y \in Holders(c)' <=>
                \/ y \in Panes /\ owner'[y] = c
                \/ y \in Workers /\ job'[y].pc \in {"channel", "browse"} /\ job'[y].conn = c
                \/ y = c /\ c \in sessions'
BY DEF Holders

LEMMA ConnectHolds ==
  ASSUME Typed, SessionInv, NEW w \in Workers, ConnectStep(w), NEW d \in Conns,
         d \in sessions => Enough(d), d \in sessions'
  PROVE  Enough(d)'
<1> USE SshAssumption
<1>0. /\ owner \in [Panes -> Conns \cup {NoOne}] /\ job \in [Workers -> JobType]
      /\ refs \in [Conns -> Nat]
  BY DEF Typed, TypeOK, JobType
<1>1. ASSUME NEW c \in Conns, AcquireShared(w, c) \/ AcquireNew(w, c) \/ BrowseBegin(w, c)
      PROVE  Enough(d)'
  <2>1. /\ Count(c) /\ UNCHANGED <<owner, sessions>>
        /\ job[w] = Idle
        /\ Goto(w, "channel", c, NoOne, {}) \/ Goto(w, "browse", c, NoOne, {})
    BY <1>1 DEF AcquireShared, AcquireNew, BrowseBegin
  <2>2. /\ job[w].pc = "idle" /\ job'[w].pc \in {"channel", "browse"} /\ job'[w].conn = c
        /\ \A v \in Workers \ {w} : job'[v] = job[v]
    BY <1>0, <2>1 DEF Goto, Idle
  <2>3. CASE d = c
    <3>1. w \notin Holders(c) /\ Holders(c)' = Holders(c) \cup {w}
      BY <2>1, <2>2, InHolders
    <3> QED
      BY <2>1, <2>3, <3>1, HoldGains
  <2>4. CASE d # c
    <3>1. \A y : y \in Holders(d)' <=> y \in Holders(d)
      BY <2>1, <2>2, <2>4, InHolders
    <3> QED
      BY <2>1, <2>4, <3>1, OthersKept, HoldKept
  <2> QED
    BY <2>3, <2>4
<1>2. ASSUME NEW c \in Conns, AcquireDedicated(w, c) PROVE Enough(d)'
  <2>1. /\ Count(c) /\ UNCHANGED <<owner>> /\ sessions' = sessions \cup {c}
        /\ job[w] = Idle /\ link[c] = "none"
        /\ Goto(w, "start", c, c, Ports) \/ Goto(w, "forward", c, c, Ports)
    BY <1>2 DEF AcquireDedicated
  <2>2. /\ job[w].pc = "idle" /\ job'[w].pc \notin {"channel", "browse"}
        /\ \A v \in Workers \ {w} : job'[v] = job[v]
    BY <1>0, <2>1 DEF Goto, Idle
  <2>3. CASE d = c
    <3>1. refs[c] \in Nat /\ refs'[c] = refs[c] + 1 /\ Holders(c) = {}
      BY <1>0, <2>1 DEF Count, SessionInv
    <3>2. Holders(c)' = {c}
      BY <2>1, <2>2, <3>1, InHolders
    <3>3. Cardinality(Holders(c)') = 1
      BY <3>2, FS_Singleton
    <3> QED
      BY <2>3, <3>1, <3>3 DEF Enough
  <2>4. CASE d # c
    <3>1. \A y : y \in Holders(d)' <=> y \in Holders(d)
      BY <2>1, <2>2, <2>4, InHolders
    <3> QED
      BY <2>1, <2>4, <3>1, OthersKept, HoldKept
  <2> QED
    BY <2>3, <2>4
<1>3. ASSUME NEW x \in Panes, ChannelUp(w, x) PROVE Enough(d)'
  <2> DEFINE c == job[w].conn
  <2>1. /\ job[w].pc \in {"channel", "browse"} /\ owner[x] = NoOne
        /\ owner' = [owner EXCEPT ![x] = c] /\ job' = [job EXCEPT ![w] = Idle]
        /\ UNCHANGED <<refs, sessions>>
    BY <1>3 DEF ChannelUp, managerVars
  <2>2. \A v \in Workers \ {w} : job'[v] = job[v]
    BY <1>0, <2>1
  <2>3. job'[w].pc = "idle"
    BY <1>0, <2>1 DEF Idle
  <2> HIDE DEF c
  <2>4. CASE d = c
    <3>1. w \in Holders(d) /\ x \notin Holders(d) /\ x # w
      BY <2>1, <2>4, InHolders DEF c
    <3>2. Holders(d)' = (Holders(d) \ {w}) \cup {x}
      BY <1>0, <2>1, <2>2, <2>3, <2>4, InHolders
    <3>3. IsFiniteSet(Holders(d) \ {w})
          /\ Cardinality(Holders(d) \ {w}) = Cardinality(Holders(d)) - 1
      BY <3>1, HoldersFinite, FS_RemoveElement
    <3>4. Cardinality(Holders(d)') = Cardinality(Holders(d)) - 1 + 1
      BY <3>1, <3>2, <3>3, FS_AddElement
    <3> QED
      BY <2>1, <3>4, HoldersFinite DEF Enough
  <2>5. CASE d # c
    <3>1. \A y : y \in Holders(d)' <=> y \in Holders(d)
      BY <1>0, <2>1, <2>2, <2>3, <2>5, InHolders DEF c
    <3> QED
      BY <2>1, <3>1, HoldKept
  <2> QED
    BY <2>4, <2>5
<1>4. CASE NoRoom(w) \/ ChannelFails(w)
  <2> DEFINE c == job[w].conn
  <2>1. /\ job[w].pc \in {"channel", "browse"} /\ c \in Conns
        /\ job' = [job EXCEPT ![w] = Idle]
        /\ Release(c) /\ UNCHANGED <<owner, sessions>>
    BY <1>4 DEF NoRoom, ChannelFails, Typed, JobInv
  <2>2. job'[w].pc = "idle" /\ \A v \in Workers \ {w} : job'[v] = job[v]
    BY <1>0, <2>1 DEF Idle
  <2> HIDE DEF c
  <2>3. CASE d = c
    <3>1. w \in Holders(d) /\ Holders(d)' = Holders(d) \ {w}
      BY <1>0, <2>1, <2>2, <2>3, InHolders DEF c
    <3> QED
      BY <2>1, <2>3, <3>1, HoldLoses
  <2>4. CASE d # c
    <3>1. \A y : y \in Holders(d)' <=> y \in Holders(d)
      BY <2>1, <2>2, <2>4, InHolders DEF c
    <3> QED
      BY <2>1, <2>4, <3>1, OthersKept, HoldKept
  <2> QED
    BY <2>3, <2>4
<1>5. CASE BrowseFails(w)
  <2> DEFINE c == job[w].conn
  <2>1. /\ job[w].pc = "browse" /\ c \in Conns
        /\ job' = [job EXCEPT ![w] = Idle] /\ UNCHANGED <<owner, refs, sessions>>
    BY <1>5 DEF BrowseFails, managerVars, Typed, JobInv
  <2>2. job'[w].pc = "idle" /\ \A v \in Workers \ {w} : job'[v] = job[v]
    BY <1>0, <2>1 DEF Idle
  <2> HIDE DEF c
  <2>3. CASE d = c
    <3>1. w \in Holders(d) /\ Holders(d)' = Holders(d) \ {w}
      BY <1>0, <2>1, <2>2, <2>3, InHolders DEF c
    <3> QED
      BY <2>1, <2>3, <3>1, HoldDrops
  <2>4. CASE d # c
    <3>1. \A y : y \in Holders(d)' <=> y \in Holders(d)
      BY <2>1, <2>2, <2>4, InHolders DEF c
    <3> QED
      BY <2>1, <3>1, HoldKept
  <2> QED
    BY <2>3, <2>4
<1>6. ASSUME NEW x \in Panes, ClosePane(w, x) PROVE Enough(d)'
  <2> DEFINE c == owner[x]
  <2>1. /\ c \in Conns /\ owner' = [owner EXCEPT ![x] = NoOne] /\ Release(c)
        /\ job[w] = Idle /\ Goto(w, "closeShell", NoOne, x, {})
        /\ UNCHANGED sessions
    BY <1>0, <1>6 DEF ClosePane
  <2>2. /\ job[w].pc = "idle" /\ job'[w].pc = "closeShell"
        /\ \A v \in Workers \ {w} : job'[v] = job[v]
    BY <1>0, <2>1 DEF Goto, Idle
  <2> HIDE DEF c
  <2>3. CASE d = c
    <3>1. x \in Holders(d) /\ Holders(d)' = Holders(d) \ {x}
      BY <1>0, <2>1, <2>2, <2>3, InHolders DEF c
    <3> QED
      BY <2>1, <2>3, <3>1, HoldLoses
  <2>4. CASE d # c
    <3>1. \A y : y \in Holders(d)' <=> y \in Holders(d)
      BY <1>0, <2>1, <2>2, <2>4, InHolders DEF c
    <3> QED
      BY <2>1, <2>4, <3>1, OthersKept, HoldKept
  <2> QED
    BY <2>3, <2>4
<1>7. CASE ClosePaneShell(w)
  <2>1. /\ job[w].pc = "closeShell" /\ job' = [job EXCEPT ![w] = Idle]
        /\ UNCHANGED <<owner, refs, sessions>>
    BY <1>7 DEF ClosePaneShell, managerVars
  <2>2. job'[w].pc = "idle" /\ \A v \in Workers \ {w} : job'[v] = job[v]
    BY <1>0, <2>1 DEF Idle
  <2>3. \A y : y \in Holders(d)' <=> y \in Holders(d)
    BY <2>1, <2>2, InHolders
  <2> QED
    BY <2>1, <2>3, HoldKept
<1> QED
  BY <1>1, <1>2, <1>3, <1>4, <1>5, <1>6, <1>7 DEF ConnectStep

LEMMA RunKeeps ==
  ASSUME NEW w \in Workers, RunStep(w)
  PROVE  UNCHANGED <<owner, link, refs, sessions, quit>>
BY DEF RunStep, ShellBegin, ShellStarted, ShellFails, ForwardsStarted, ForwardBegin,
       ForwardBinds, ForwardStarts, ForwardFails, managerVars, quitVars

LEMMA RunHolds ==
  ASSUME Typed, WaitInv, NEW w \in Workers, RunStep(w), NEW d \in Conns
  PROVE  UNCHANGED <<Holders(d), link, refs, sessions, quit>>
<1>0. job \in [Workers -> JobType]
  BY DEF Typed, TypeOK, JobType
<1>1. UNCHANGED <<owner, link, refs, sessions, quit>>
  BY RunKeeps
<1> DEFINE Elsewhere ==
             /\ job[w].pc \notin {"channel", "browse"} /\ job'[w].pc \notin {"channel", "browse"}
             /\ \A v \in Workers \ {w} : job'[v] = job[v]
<1>2. ASSUME \/ \E k \in Keys : ShellBegin(w, k)
             \/ \E c \in Conns, i \in Ports : ForwardBegin(w, c, i)
      PROVE  Elsewhere
  <2>0. job[w] = Idle
    BY <1>2 DEF ShellBegin, ForwardBegin
  <2>1. job[w].pc = "idle"
    BY <2>0 DEF Idle
  <2>2. \E c, k, todo : Goto(w, "start", c, k, todo) \/ Goto(w, "forward", c, k, todo)
    <3>1. ASSUME NEW k \in Keys, ShellBegin(w, k)
          PROVE  Goto(w, "start", IF k \in Panes THEN owner[k] ELSE k, k, {})
      BY <3>1 DEF ShellBegin
    <3>2. ASSUME NEW c \in Conns, NEW i \in Ports, ForwardBegin(w, c, i)
          PROVE  Goto(w, "forward", c, c, {i})
      BY <3>2 DEF ForwardBegin
    <3> QED
      BY <1>2, <3>1, <3>2
  <2> QED
    BY <1>0, <2>1, <2>2 DEF Goto
<1>3. ASSUME ShellStarted(w) \/ ShellFails(w) PROVE Elsewhere
  <2>1. job[w].pc = "start" /\ AfterShell(w)
    BY <1>3 DEF ShellStarted, ShellFails
  <2>2. job[w] \in JobType
    BY <1>0
  <2> QED
    BY <1>0, <2>1, <2>2 DEF AfterShell, Idle, JobType
<1>4. ASSUME \/ ForwardsStarted(w)
             \/ \E i \in Ports : ForwardStarts(w, i) \/ ForwardFails(w, i)
      PROVE  Elsewhere
  <2>1. /\ job[w].pc = "forward"
        /\ job' = [job EXCEPT ![w] = Idle] \/ \E i \in Ports : ForwardDone(w, i)
    BY <1>4 DEF ForwardsStarted, ForwardStarts, ForwardFails, WaitInv
  <2>2. job[w] \in JobType
    BY <1>0
  <2> QED
    BY <1>0, <2>1, <2>2 DEF ForwardDone, Idle, JobType
<1>5. ASSUME NEW i \in Ports, ForwardBinds(w, i) PROVE job' = job
  BY <1>5 DEF ForwardBinds
<1>6. \A y : y \in Holders(d)' <=> y \in Holders(d)
  BY <1>1, <1>2, <1>3, <1>4, <1>5, InHolders DEF RunStep
<1>7. Holders(d)' = Holders(d)
  BY <1>6
<1> QED
  BY <1>1, <1>7

\* Only what has been opened gets a holder.
LEMMA UnusedKept ==
  ASSUME Typed, WaitInv, SessionInv, [Next]_vars, NEW d \in Conns, link'[d] = "none"
  PROVE  Holders(d)' = {}
<1> USE SshAssumption
<1>1. link[d] = "none"
  BY PortSteps DEF PortsKept, CloseLinks, StopForward, ForwardBinds, ForwardStarts,
                   managerVars, Typed, TypeOK
<1>2. /\ Holders(d) = {} /\ d \notin sessions /\ \A x \in Panes : owner[x] # d
      /\ \A w \in Workers : job[w].pc \in {"channel", "browse"} => job[w].conn # d
  BY <1>1, InHolders DEF SessionInv
<1>3. owner \in [Panes -> Conns \cup {NoOne}] /\ job \in [Workers -> JobType]
  BY DEF Typed, TypeOK, JobType
<1>4. SUFFICES /\ d \notin sessions' /\ \A x \in Panes : owner'[x] # d
               /\ \A w \in Workers : job'[w].pc \in {"channel", "browse"} => job'[w].conn # d
  BY InHolders
<1> DEFINE Goal == /\ d \notin sessions' /\ \A x \in Panes : owner'[x] # d
                   /\ \A w \in Workers : job'[w].pc \in {"channel", "browse"} => job'[w].conn # d
<1>5. ASSUME NEW w \in Workers, RunStep(w) PROVE Goal
  <2>1. Holders(d)' = {}
    BY <1>2, <1>5, RunHolds
  <2> QED
    BY <2>1, InHolders
<1>6. ASSUME NEW w \in Workers, ConnectStep(w) PROVE Goal
  <2>1. ASSUME NEW c \in Conns, AcquireShared(w, c) \/ AcquireNew(w, c) \/ BrowseBegin(w, c)
        PROVE  Goal
    <3>1. c # d
      BY <1>1, <2>1 DEF AcquireShared, AcquireNew, BrowseBegin, IsOpen, Typed, TypeOK
    <3> QED
      BY <1>2, <1>3, <2>1, <3>1 DEF AcquireShared, AcquireNew, BrowseBegin, Goto
  <2>2. ASSUME NEW c \in Conns, AcquireDedicated(w, c) PROVE Goal
    <3>1. c # d
      BY <1>1, <2>2 DEF AcquireDedicated, Typed, TypeOK
    <3> QED
      BY <1>2, <1>3, <2>2, <3>1 DEF AcquireDedicated, Goto
  <2>3. ASSUME NEW x \in Panes, ChannelUp(w, x) PROVE Goal
    BY <1>2, <1>3, <2>3 DEF ChannelUp, Idle
  <2>4. CASE NoRoom(w) \/ ChannelFails(w) \/ BrowseFails(w) \/ ClosePaneShell(w)
    BY <1>2, <1>3, <2>4 DEF NoRoom, ChannelFails, BrowseFails, ClosePaneShell, Idle
  <2>5. ASSUME NEW x \in Panes, ClosePane(w, x) PROVE Goal
    BY <1>2, <1>3, <2>5 DEF ClosePane, Goto
  <2> QED
    BY <1>6, <2>1, <2>2, <2>3, <2>4, <2>5 DEF ConnectStep
<1>7. CASE AppStep
  BY <1>2, <1>3, <1>7 DEF AppStep, Disconnect, StopForward, ChildEnds, QuitShells, QuitPane,
                          QuitManager
<1>8. CASE UNCHANGED vars
  BY <1>2, <1>8 DEF vars
<1> QED
  BY <1>5, <1>6, <1>7, <1>8 DEF Next, Gone

LEMMA SessionsNext == Sound /\ SessionInv /\ [Next]_vars => SessionInv'
<1> SUFFICES ASSUME Typed, WaitInv, SessionInv, [Next]_vars PROVE SessionInv'
  BY DEF Sound
<1>1. quit' # "no" => sessions' = {}
  <2>1. ASSUME NEW w \in Workers, ConnectStep(w) PROVE quit' # "no" => sessions' = {}
    BY <2>1 DEF SessionInv, ConnectStep, AcquireShared, AcquireNew, AcquireDedicated, ChannelUp,
                NoRoom, ChannelFails, BrowseFails, BrowseBegin, ClosePane, ClosePaneShell,
                quitVars, Input
  <2>2. ASSUME NEW w \in Workers, RunStep(w) PROVE quit' # "no" => sessions' = {}
    BY <2>2, RunKeeps DEF SessionInv
  <2>3. CASE AppStep \/ UNCHANGED vars
    BY <2>3 DEF SessionInv, AppStep, Disconnect, StopForward, ChildEnds, QuitShells, QuitPane,
                QuitManager, vars, quitVars
  <2> QED
    BY <2>1, <2>2, <2>3 DEF Next, Gone
<1>2. ASSUME NEW d \in sessions' PROVE Enough(d)'
  <2>0. d \in Conns /\ quit' = "no"
    BY <1>1, <1>2, AppTyped, ConnectTyped, RunTyped DEF Next, Gone, Typed, TypeOK
  <2>1. ASSUME NEW w \in Workers, ConnectStep(w) PROVE Enough(d)'
    BY <1>2, <2>0, <2>1, ConnectHolds DEF SessionInv
  <2>2. ASSUME NEW w \in Workers, RunStep(w) PROVE Enough(d)'
    BY <1>2, <2>0, <2>2, RunHolds DEF SessionInv, Enough
  <2>3. ASSUME NEW c \in Conns, Disconnect(c) PROVE Enough(d)'
    <3>1. sessions' = sessions \ {c} /\ Release(c) /\ UNCHANGED <<owner, job>>
      BY <2>3 DEF Disconnect
    <3>2. d # c /\ Enough(d)
      BY <1>2, <3>1 DEF SessionInv
    <3>3. \A y : y \in Holders(d)' <=> y \in Holders(d)
      BY <2>0, <3>1, <3>2, InHolders
    <3> QED
      BY <2>0, <3>1, <3>2, <3>3, OthersKept, HoldKept
  <2>4. CASE \/ UNCHANGED vars \/ \E h \in Shells : ChildEnds(h)
             \/ \E c \in Conns, i \in Ports : StopForward(c, i)
    <3>1. UNCHANGED <<owner, job, refs, sessions>>
      BY <2>4 DEF StopForward, ChildEnds, vars, managerVars
    <3>2. \A y : y \in Holders(d)' <=> y \in Holders(d)
      BY <2>0, <3>1, InHolders
    <3> QED
      BY <1>2, <2>0, <3>1, <3>2, HoldKept DEF SessionInv
  <2>5. CASE QuitShells \/ QuitManager \/ \E x \in Panes : QuitPane(x)
    BY <2>0, <2>5 DEF QuitShells, QuitManager, QuitPane
  <2> QED
    BY <2>1, <2>2, <2>3, <2>4, <2>5 DEF Next, AppStep, Gone
<1> QED
  BY <1>1, <1>2, UnusedKept DEF SessionInv

\* A session that is listed in _ssh_sessions is open: it has a reference for itself
\* and for every pane and worker that holds it, so that none of them takes it down
\* (browse_sftp(), disconnect_flow(), RemoteConnection.close()).
THEOREM SessionsOutlivePanes == Spec => []SessionOutlivesPanes
<1>1. Init => SessionInv
  <2> SUFFICES ASSUME Init PROVE SessionInv
    OBVIOUS
  <2>1. ASSUME NEW c \in Conns PROVE Holders(c) = {}
    BY <2>1, SshAssumption, InHolders DEF Init, Idle
  <2> QED
    BY <2>1 DEF Init, SessionInv
<1>2. Sound /\ SessionInv => SessionOutlivesPanes
  <2> SUFFICES ASSUME Typed, SessionInv, NEW c \in sessions PROVE IsOpen(c)
    BY DEF Sound, SessionOutlivesPanes
  <2>1. c \in Conns /\ refs[c] \in Nat
    BY DEF Typed, TypeOK
  <2>2. c \in Holders(c) /\ Enough(c)
    BY <2>1, InHolders DEF SessionInv
  <2>3. refs[c] > 0
    BY <2>1, <2>2, HoldersFinite DEF Enough
  <2> QED
    BY <2>1, <2>3 DEF Typed, TypeOK
<1> QED
  BY <1>1, <1>2, InitSound, NextSound, SessionsNext, PTL DEF Spec

=============================================================================
