-------------------------- MODULE ConnectFlowProofs --------------------------
(* Proofs about ConnectFlow, for any number of flows, keys and profiles.   *)
EXTENDS ConnectFlow, SequenceTheorems, TLAPS

FlowType == [pc : Waiting \cup Working, typed : Secrets \cup {"absent"}, save : BOOLEAN,
             id : Ids \cup {NoId}, useVault : BOOLEAN, cred : Secrets]

\* The state but for the stack of dialogs.
DataOK ==
  /\ method \in Methods
  /\ serverKey \in HostKeys /\ known \subseteq HostKeys
  /\ file \in BOOLEAN /\ vault \in {"unopened", "locked", "open"} /\ opened \in Nat
  /\ stored \in [Ids -> Secrets \cup {"absent"}] /\ deleted \subseteq Ids
  /\ cache \in Secrets \cup {"absent"} /\ crashed \in BOOLEAN
  /\ flow \in [Flows -> FlowType]
  /\ screens \in Seq(Flows)

StackOK ==
  /\ \A f \in Flows : flow[f].pc \in Waiting <=> \E n \in 1..Len(screens) : screens[n] = f
  /\ \A m, n \in 1..Len(screens) : screens[m] = screens[n] => m = n

LEMMA TypeParts == TypeOK <=> DataOK /\ StackOK
BY DEF TypeOK, DataOK, StackOK, FlowType

LEMMA InitTyped == Init => DataOK /\ StackOK
<1> SUFFICES ASSUME Init PROVE DataOK /\ StackOK
  OBVIOUS
<1>1. flow \in [Flows -> FlowType]
  BY DEF FlowType, Init, Idle, Secrets, Waiting, Working
<1>2. /\ stored \in [Ids -> Secrets \cup {"absent"}] /\ deleted \subseteq Ids
      /\ cache \in Secrets \cup {"absent"} /\ screens \in Seq(Flows)
  BY DEF Init
<1>3. DataOK
  BY <1>1, <1>2, ConnectAssumption DEF Init, DataOK
<1>4. StackOK
  BY DEF StackOK, Init, Idle, Waiting
<1> QED
  BY <1>3, <1>4

----------------------------------------------------------------------------
(* The strengthening. *)

\* A flow saves only what was typed, not before it asks to, and goes on to
\* connect with the id it was given, under which the secret stays until the user
\* deletes the profile.
SaveOne(f) ==
  /\ flow[f].save => flow[f].typed # "absent"
  /\ flow[f].pc \in {"idle", "connect", "profiles", "dialog", "list", "message"} => ~flow[f].save
  /\ flow[f].save /\ flow[f].pc \in {"resolve", "secret", "connecting", "classify", "trust", "refetch"} =>
       /\ flow[f].id \in Ids
       /\ flow[f].id \in deleted \/ stored[flow[f].id] = flow[f].typed

IInv == DataOK /\ OneVault /\ \A f \in Flows : SaveOne(f)

\* Flow f has come to pc, and no other flow moved.
Moves(f, pc) ==
  /\ flow' \in [Flows -> FlowType]
  /\ flow'[f].pc = pc
  /\ \A g \in Flows \ {f} : flow'[g] = flow[g]

Carries(f) ==
  flow'[f].typed = flow[f].typed /\ flow'[f].save = flow[f].save /\ flow'[f].id = flow[f].id

LEMMA GoMoves ==
  ASSUME DataOK, NEW f \in Flows, NEW pc \in Waiting \cup Working, Go(f, pc)
  PROVE  Moves(f, pc) /\ Carries(f)
<1>1. flow[f] \in FlowType /\ flow'[f] = [flow[f] EXCEPT !.pc = pc]
  BY DEF Go, DataOK
<1>2. /\ flow'[f] \in FlowType /\ flow'[f].pc = pc /\ Carries(f)
  BY <1>1 DEF FlowType, Carries
<1> QED
  BY <1>2 DEF Moves, Go, DataOK

LEMMA EndMoves ==
  ASSUME DataOK, NEW f \in Flows, End(f)
  PROVE  Moves(f, "idle") /\ flow'[f].save = FALSE
<1>1. Idle \in FlowType /\ Idle.pc = "idle" /\ Idle.save = FALSE
  BY DEF Idle, FlowType, Secrets, Working
<1>2. flow'[f] = Idle
  BY DEF End, DataOK
<1> QED
  BY <1>1, <1>2 DEF Moves, End, DataOK

\* The stack of dialogs after a step.
LEMMA StackTyped ==
  ASSUME DataOK, NEW f \in Flows, Push(f) \/ (OnTop(f) /\ Pop) \/ UNCHANGED screens
  PROVE  screens' \in Seq(Flows)
BY SubSeqProperties DEF DataOK, Push, Pop, OnTop

\* The other flows after a step of one of them.
LEMMA OneMoves ==
  ASSUME IInv, NEW f \in Flows, NEW pc, Moves(f, pc), SaveOne(f)',
         \A i \in Ids : stored[i] # "absent" => i \in deleted' \/ stored'[i] = stored[i],
         deleted \subseteq deleted'
  PROVE  \A g \in Flows : SaveOne(g)'
<1>1. ASSUME NEW g \in Flows \ {f} PROVE SaveOne(g)'
  BY DEF Moves, SaveOne, IInv, DataOK, FlowType
<1> QED
  BY <1>1

----------------------------------------------------------------------------
(* The stack of dialogs. *)

Kept(f) == flow'[f].pc \in Waiting <=> flow[f].pc \in Waiting

\* A step leaves the dialogs alone, adds one, removes the topmost, or ends them all.
StackStep ==
  \/ screens' = screens /\ \A g \in Flows : Kept(g)
  \/ \E f \in Flows :
       /\ Push(f) /\ flow[f].pc \notin Waiting /\ flow'[f].pc \in Waiting
       /\ \A g \in Flows \ {f} : Kept(g)
  \/ \E f \in Flows :
       /\ OnTop(f) /\ Pop /\ flow'[f].pc \notin Waiting
       /\ \A g \in Flows \ {f} : Kept(g)
  \/ screens' = <<>> /\ \A g \in Flows : flow'[g].pc \notin Waiting

LEMMA StackNext ==
  ASSUME DataOK, StackOK, StackStep
  PROVE  StackOK'
<1> USE DEF DataOK, StackOK, Kept
<1>1. CASE screens' = screens /\ \A g \in Flows : Kept(g)
  BY <1>1
<1>2. ASSUME NEW f \in Flows, Push(f), flow[f].pc \notin Waiting, flow'[f].pc \in Waiting,
             \A g \in Flows \ {f} : Kept(g)
      PROVE  StackOK'
  <2>1. /\ Len(screens') = Len(screens) + 1 /\ screens'[Len(screens) + 1] = f
        /\ \A n \in 1..Len(screens) : screens'[n] = screens[n] /\ screens[n] # f
        /\ Len(screens) \in Nat
    BY <1>2 DEF Push
  <2> QED
    BY <1>2, <2>1
<1>3. ASSUME NEW f \in Flows, OnTop(f), Pop, flow'[f].pc \notin Waiting,
             \A g \in Flows \ {f} : Kept(g)
      PROVE  StackOK'
  <2>1. Len(screens) \in Nat /\ Len(screens) > 0 /\ screens[Len(screens)] = f
    BY <1>3 DEF OnTop
  <2>2. /\ Len(screens') = Len(screens) - 1
        /\ \A n \in 1..(Len(screens) - 1) : screens'[n] = screens[n]
    <3> DEFINE l == Len(screens) - 1
    <3>1. l \in Nat /\ 1 \in Int /\ \A n \in 1..l : screens[n] \in Flows
      BY <2>1
    <3>2. screens' = SubSeq(screens, 1, l)
      BY <1>3 DEF Pop
    <3>3. /\ Len(screens') = IF 1 <= l THEN l - 1 + 1 ELSE 0
          /\ \A n \in 1..(l - 1 + 1) : screens'[n] = screens[1 + n - 1]
      <4> HIDE DEF l
      <4> QED
        BY <3>1, <3>2, SubSeqProperties
    <3>4. Len(screens') = l /\ \A n \in 1..l : screens'[n] = screens[n]
      <4> HIDE DEF l
      <4>1. l - 1 + 1 = l /\ (~(1 <= l) => l = 0) /\ \A n \in 1..l : 1 + n - 1 = n
        BY <3>1
      <4> QED
        BY <3>1, <3>3, <4>1
    <3> QED
      BY <3>4
  <2>3. \A n \in 1..(Len(screens) - 1) : screens[n] # f
    BY <2>1
  <2> QED
    BY <1>3, <2>1, <2>2, <2>3
<1>4. CASE screens' = <<>> /\ \A g \in Flows : flow'[g].pc \notin Waiting
  BY <1>4
<1> QED
  BY <1>1, <1>2, <1>3, <1>4 DEF StackStep

\* What one flow does to the stack when it comes to pc.
Asks(f, pc) ==
  \/ UNCHANGED screens /\ (pc \in Waiting <=> flow[f].pc \in Waiting)
  \/ Push(f) /\ flow[f].pc \notin Waiting /\ pc \in Waiting
  \/ OnTop(f) /\ Pop /\ pc \notin Waiting

----------------------------------------------------------------------------
(* Steps of one flow. *)

LEMMA FlowStep ==
  ASSUME IInv, NEW f \in Flows, NEW pc \in Waiting \cup Working, Moves(f, pc), Asks(f, pc),
         UNCHANGED <<method, serverKey, known, crashed>>,
         file' \in BOOLEAN, vault' \in {"unopened", "locked", "open"}, opened' \in Nat,
         stored' \in [Ids -> Secrets \cup {"absent"}], deleted' \subseteq Ids,
         cache' \in Secrets \cup {"absent"}, OneVault', SaveOne(f)',
         \A i \in Ids : stored[i] # "absent" => i \in deleted' \/ stored'[i] = stored[i],
         deleted \subseteq deleted'
  PROVE  IInv' /\ StackStep
<1>1. screens' \in Seq(Flows)
  BY StackTyped DEF Asks, IInv
<1>2. DataOK'
  BY <1>1 DEF IInv, DataOK, Moves
<1>3. \A g \in Flows : SaveOne(g)'
  BY OneMoves
<1>4. StackStep
  BY DEF StackStep, Asks, Moves, Kept
<1> QED
  BY <1>2, <1>3, <1>4 DEF IInv

\* Most steps leave the vault alone.
LEMMA PlainStep ==
  ASSUME IInv, NEW f \in Flows, NEW pc \in Waiting \cup Working, Moves(f, pc), Asks(f, pc),
         UNCHANGED <<method, serverKey, known, vaultVars, crashed>>,
         cache' \in Secrets \cup {"absent"}, SaveOne(f)'
  PROVE  IInv' /\ StackStep
<1>1. /\ UNCHANGED <<file, vault, opened, stored, deleted>> /\ OneVault' /\ DataOK
  BY DEF IInv, OneVault, vaultVars
<1>2. /\ file' \in BOOLEAN /\ vault' \in {"unopened", "locked", "open"} /\ opened' \in Nat
      /\ stored' \in [Ids -> Secrets \cup {"absent"}] /\ deleted' \subseteq Ids
      /\ deleted \subseteq deleted'
      /\ \A i \in Ids : stored[i] # "absent" => i \in deleted' \/ stored'[i] = stored[i]
  BY <1>1 DEF DataOK
<1> QED
  BY <1>1, <1>2, FlowStep

\* A flow that ends.
LEMMA EndStep ==
  ASSUME IInv, NEW f \in Flows, End(f), Asks(f, "idle"),
         UNCHANGED <<method, serverKey, known, vaultVars, cache, crashed>>
  PROVE  IInv' /\ StackStep
<1>1. Moves(f, "idle") /\ flow'[f].save = FALSE
  BY EndMoves DEF IInv
<1>2. SaveOne(f)'
  BY <1>1 DEF SaveOne, Moves
<1>3. cache' \in Secrets \cup {"absent"} /\ "idle" \in Waiting \cup Working
  BY DEF IInv, DataOK, Working
<1> QED
  BY <1>1, <1>2, <1>3, PlainStep

\* The process ends with all it held.
LEMMA CrashStep ==
  ASSUME IInv, Crash
  PROVE  IInv' /\ StackStep
<1>1. /\ Idle \in FlowType /\ Idle.pc = "idle" /\ Idle.save = FALSE
  BY DEF Idle, FlowType, Secrets, Working
<1>2. \A f \in Flows : flow'[f] = Idle
  BY DEF Crash
<1>3. DataOK'
  BY <1>1 DEF Crash, IInv, DataOK
<1>4. OneVault'
  BY DEF Crash, OneVault
<1>5. \A f \in Flows : SaveOne(f)' /\ flow'[f].pc \notin Waiting
  BY <1>1, <1>2 DEF SaveOne, Waiting
<1>6. screens' = <<>>
  BY DEF Crash
<1> QED
  BY <1>3, <1>4, <1>5, <1>6 DEF IInv, StackStep

----------------------------------------------------------------------------
(* The steps. *)

\* Dialogs and questions about keys, which hand on what they hold.
LEMMA CarryingSteps ==
  ASSUME IInv, NEW f \in Flows,
         \/ Begin(f) \/ ConnectDialog(f) \/ MasterRefused(f) \/ OfferHostKey(f) \/ Trusted(f)
  PROVE  IInv' /\ StackStep
<1>1. DataOK /\ SaveOne(f)
  BY DEF IInv
<1>2. PICK pc \in Waiting \cup Working :
        /\ Go(f, pc) /\ Asks(f, pc)
        /\ pc \in {"idle", "connect", "profiles", "dialog", "list", "message"} =>
             flow[f].pc \in {"idle", "connect", "profiles", "dialog", "list", "message"}
        /\ pc \in {"resolve", "secret", "connecting", "classify", "trust", "refetch"} =>
             flow[f].pc \in {"resolve", "secret", "connecting", "classify", "trust", "refetch"}
  <2> USE DEF Waiting, Working, Asks, At
  <2>1. CASE Begin(f)
    BY <2>1 DEF Begin
  <2>2. CASE ConnectDialog(f)
    BY <2>2 DEF ConnectDialog
  <2>3. CASE MasterRefused(f)
    BY <2>3 DEF MasterRefused
  <2>4. CASE OfferHostKey(f)
    BY <2>4 DEF OfferHostKey
  <2>5. CASE Trusted(f)
    BY <2>5 DEF Trusted
  <2> QED
    BY <2>1, <2>2, <2>3, <2>4, <2>5
<1>3. Moves(f, pc) /\ Carries(f)
  BY <1>1, <1>2, GoMoves
<1>4. UNCHANGED <<method, serverKey, known, vaultVars, cache, crashed>>
  BY DEF Begin, ConnectDialog, MasterRefused, OfferHostKey, Trusted
<1>5. SaveOne(f)'
  BY <1>1, <1>2, <1>3, <1>4 DEF SaveOne, Moves, Carries, vaultVars
<1>7. cache' \in Secrets \cup {"absent"}
  BY <1>1, <1>4 DEF DataOK
<1> QED
  BY <1>2, <1>3, <1>4, <1>5, <1>7, PlainStep

LEMMA EndingSteps ==
  ASSUME IInv, NEW f \in Flows,
         \/ Cancel(f) \/ Connected(f) \/ ChannelRefused(f) \/ Failed(f) \/ RefetchFails(f)
         \/ VaultBroken(f)
  PROVE  IInv' /\ StackStep
<1> USE DEF Asks, Waiting
<1>1. CASE Cancel(f)
  BY <1>1, EndStep DEF Cancel
<1>2. CASE Connected(f)
  BY <1>2, EndStep DEF Connected, At
<1>3. CASE Failed(f)
  BY <1>3, EndStep DEF Failed, At
<1>4. CASE ChannelRefused(f) \/ RefetchFails(f) \/ VaultBroken(f)
  BY <1>4, CrashStep DEF ChannelRefused, RefetchFails, VaultBroken
<1> QED
  BY <1>1, <1>2, <1>3, <1>4

\* The form, the picker and the credential.
LEMMA FormSteps ==
  ASSUME IInv, NEW f \in Flows,
         \/ \E t \in Secrets, save \in BOOLEAN : Submit(f, t, save)
         \/ \E i \in Ids : PickProfile(f, i)
  PROVE  IInv' /\ StackStep
<1>0. DataOK /\ SaveOne(f) /\ flow[f] \in FlowType /\ flow \in [Flows -> FlowType]
  BY DEF IInv, DataOK
<1>1. ASSUME NEW t \in Secrets, NEW save \in BOOLEAN, Submit(f, t, save)
      PROVE  IInv' /\ StackStep
  <2> DEFINE pc == IF save THEN "ensure" ELSE "resolve"
  <2>1. flow'[f] = [flow[f] EXCEPT !.pc = pc, !.typed = t, !.save = save,
                                   !.useVault = (vault = "open")]
        /\ \A g \in Flows \ {f} : flow'[g] = flow[g]
    BY <1>0, <1>1 DEF Submit
  <2>2. pc \in Waiting \cup Working /\ pc \notin Waiting
    BY DEF Waiting, Working
  <2>3. flow'[f] \in FlowType /\ flow'[f].pc = pc /\ flow'[f].typed = t /\ flow'[f].save = save
    BY <1>0, <2>1, <2>2 DEF FlowType
  <2>4. flow' \in [Flows -> FlowType]
    BY <1>0, <1>1, <2>3 DEF Submit
  <2>5. Moves(f, pc) /\ Asks(f, pc)
    BY <1>1, <2>1, <2>2, <2>3, <2>4 DEF Moves, Asks, Submit
  <2>6. SaveOne(f)'
    BY <2>3 DEF SaveOne, Secrets
  <2>7. UNCHANGED <<method, serverKey, known, vaultVars, cache, crashed>>
        /\ cache' \in Secrets \cup {"absent"}
    BY <1>0, <1>1 DEF Submit, DataOK
  <2> HIDE DEF pc
  <2> QED
    BY <2>2, <2>5, <2>6, <2>7, PlainStep
<1>2. ASSUME NEW i \in Ids, PickProfile(f, i)
      PROVE  IInv' /\ StackStep
  <2> DEFINE pc == IF method = "agent" \/ vault = "open" THEN "resolve" ELSE "ensure"
  <2>1. flow'[f] = [flow[f] EXCEPT !.pc = pc, !.id = i, !.useVault = (vault = "open")]
        /\ \A g \in Flows \ {f} : flow'[g] = flow[g]
    BY <1>0, <1>2 DEF PickProfile
  <2>2. pc \in Waiting \cup Working /\ pc \notin Waiting
    BY DEF Waiting, Working
  <2>3. flow'[f] \in FlowType /\ flow'[f].pc = pc /\ flow'[f].save = flow[f].save
    <3> HIDE DEF pc
    <3> QED
      BY <1>0, <2>1, <2>2 DEF FlowType
  <2>4. flow' \in [Flows -> FlowType]
    BY <1>0, <1>2, <2>3 DEF PickProfile
  <2>5. Moves(f, pc) /\ Asks(f, pc)
    BY <1>2, <2>1, <2>2, <2>3, <2>4 DEF Moves, Asks, PickProfile
  <2>6. SaveOne(f)'
    <3>1. flow[f].save = FALSE
      BY <1>0, <1>2 DEF SaveOne, PickProfile, At, FlowType
    <3> HIDE DEF pc
    <3> QED
      BY <2>3, <3>1 DEF SaveOne
  <2>7. UNCHANGED <<method, serverKey, known, vaultVars, cache, crashed>>
        /\ cache' \in Secrets \cup {"absent"}
    BY <1>0, <1>2 DEF PickProfile, DataOK
  <2> HIDE DEF pc
  <2> QED
    BY <2>2, <2>5, <2>6, <2>7, PlainStep
<1> QED
  BY <1>1, <1>2

\* Where a flow goes with an unlocked vault, and without.
LEMMA AfterVault ==
  ASSUME DataOK, NEW f \in Flows, WithVault(f) \/ WithoutVault(f),
         flow[f].pc \in {"ensure", "master", "refused"}
  PROVE  \/ End(f)
         \/ \E pc \in {"persist", "resolve"} :
              /\ Moves(f, pc) /\ Carries(f)
              /\ pc = "resolve" => flow[f].save = FALSE
<1> DEFINE r(pc, b) == [flow[f] EXCEPT !.pc = pc, !.useVault = b]
<1>1. flow[f] \in FlowType
  BY DEF DataOK
<1>2. ASSUME NEW pc \in {"persist", "resolve"}, NEW b \in BOOLEAN,
             flow' = [flow EXCEPT ![f] = r(pc, b)]
      PROVE  Moves(f, pc) /\ Carries(f)
  <2>1. r(pc, b) \in FlowType /\ r(pc, b).pc = pc /\ r(pc, b).typed = flow[f].typed
        /\ r(pc, b).save = flow[f].save /\ r(pc, b).id = flow[f].id
    BY <1>1 DEF FlowType, Working
  <2>2. flow'[f] = r(pc, b) /\ \A g \in Flows \ {f} : flow'[g] = flow[g]
    BY <1>2 DEF DataOK
  <2>3. flow' \in [Flows -> FlowType]
    BY <1>2, <2>1 DEF DataOK
  <2> HIDE DEF r
  <2> QED
    BY <2>1, <2>2, <2>3 DEF Moves, Carries
<1>3. flow[f].save \in BOOLEAN
  BY <1>1 DEF FlowType
<1>4. CASE WithVault(f)
  <2> DEFINE pc == IF flow[f].save THEN "persist" ELSE "resolve"
  <2>1. flow' = [flow EXCEPT ![f] = r(pc, TRUE)]
    BY <1>4 DEF WithVault, DataOK
  <2>2. pc \in {"persist", "resolve"} /\ (pc = "resolve" => flow[f].save = FALSE)
    BY <1>3
  <2> HIDE DEF pc, r
  <2> QED
    BY <1>2, <2>1, <2>2
<1>5. CASE WithoutVault(f) /\ ~End(f)
  <2> DEFINE b == (vault = "open")
  <2>1. ~flow[f].save /\ flow' = [flow EXCEPT ![f] = r("resolve", b)]
    BY <1>5 DEF WithoutVault, DataOK
  <2>2. b \in BOOLEAN /\ flow[f].save = FALSE
    BY <1>3, <2>1
  <2> HIDE DEF b, r
  <2> QED
    BY <1>2, <2>1, <2>2
<1> QED
  BY <1>4, <1>5

LEMMA VaultSteps ==
  ASSUME IInv, NEW f \in Flows,
         EnsureVault(f) \/ MasterCancelled(f) \/ MasterAccepted(f) \/ RefusalRead(f)
  PROVE  IInv' /\ StackStep
<1>0. DataOK /\ SaveOne(f)
  BY DEF IInv
<1>1. /\ UNCHANGED <<method, serverKey, known, stored, deleted, cache, crashed>>
      /\ file' \in BOOLEAN /\ vault' \in {"unopened", "locked", "open"} /\ opened' \in Nat
      /\ OneVault'
  <2>1. DataOK /\ OneVault
    BY DEF IInv
  <2>2. CASE MasterAccepted(f)
    BY <2>1, <2>2 DEF MasterAccepted, DataOK, OneVault
  <2>3. CASE EnsureVault(f) \/ MasterCancelled(f) \/ RefusalRead(f)
    BY <2>1, <2>3 DEF EnsureVault, MasterCancelled, RefusalRead, vaultVars, DataOK, OneVault
  <2> QED
    BY <2>2, <2>3
<1>2. /\ stored' \in [Ids -> Secrets \cup {"absent"}] /\ deleted' \subseteq Ids
      /\ cache' \in Secrets \cup {"absent"} /\ deleted \subseteq deleted'
      /\ \A i \in Ids : stored[i] # "absent" => i \in deleted' \/ stored'[i] = stored[i]
  BY <1>0, <1>1 DEF DataOK
<1>3. flow[f].pc \in {"ensure", "master", "refused"}
  BY DEF EnsureVault, MasterCancelled, MasterAccepted, RefusalRead, At
<1>4. ASSUME NEW pc \in Waiting \cup Working, Moves(f, pc), Asks(f, pc), SaveOne(f)'
      PROVE  IInv' /\ StackStep
  BY <1>1, <1>2, <1>4, FlowStep
<1>5. CASE EnsureVault(f) /\ Push(f) /\ Go(f, "master")
  <2>1. "master" \in Waiting \cup Working /\ "master" \in Waiting
    BY DEF Waiting
  <2>2. Moves(f, "master") /\ Carries(f)
    BY <1>0, <1>5, <2>1, GoMoves
  <2>3. SaveOne(f)'
    BY <1>0, <1>1, <2>2 DEF SaveOne, Moves, Carries
  <2>4. Asks(f, "master")
    BY <1>5, <2>1 DEF Asks, EnsureVault, At, Waiting
  <2> QED
    BY <1>4, <2>1, <2>2, <2>3, <2>4
<1>6. CASE /\ WithVault(f) \/ WithoutVault(f)
           /\ \/ UNCHANGED screens /\ flow[f].pc \notin Waiting
              \/ OnTop(f) /\ Pop
  <2>1. ASSUME NEW pc \in Waiting \cup Working, pc \notin Waiting PROVE Asks(f, pc)
    BY <1>6, <2>1 DEF Asks
  <2>2. CASE End(f)
    <3>1. Moves(f, "idle") /\ flow'[f].save = FALSE /\ "idle" \in Waiting \cup Working
          /\ "idle" \notin Waiting
      BY <1>0, <2>2, EndMoves DEF Working, Waiting
    <3>2. SaveOne(f)'
      BY <3>1 DEF SaveOne, Moves
    <3> QED
      BY <1>4, <2>1, <3>1, <3>2
  <2>3. ASSUME NEW pc \in {"persist", "resolve"}, Moves(f, pc), Carries(f),
               pc = "resolve" => flow[f].save = FALSE
        PROVE  IInv' /\ StackStep
    <3>1. pc \in Waiting \cup Working /\ pc \notin Waiting
      BY DEF Working, Waiting
    <3>2. SaveOne(f)'
      BY <1>0, <2>3 DEF SaveOne, Moves, Carries
    <3> QED
      BY <1>4, <2>1, <2>3, <3>1, <3>2
  <2> QED
    BY <1>0, <1>3, <1>6, <2>2, <2>3, AfterVault
<1>7. CASE EnsureVault(f)
  <2>1. \/ Push(f) /\ Go(f, "master")
        \/ WithVault(f) /\ UNCHANGED screens /\ flow[f].pc \notin Waiting
    BY <1>7 DEF EnsureVault, At, Waiting
  <2> QED
    BY <1>5, <1>6, <1>7, <2>1
<1>8. CASE MasterCancelled(f) \/ MasterAccepted(f) \/ RefusalRead(f)
  BY <1>6, <1>8 DEF MasterCancelled, MasterAccepted, RefusalRead
<1> QED
  BY <1>7, <1>8

LEMMA PickerSteps ==
  ASSUME IInv, NEW f \in Flows,
         \/ ProfileList(f)
         \/ \E i \in Ids : PersistProfile(f, i) \/ DeleteProfile(f, i)
  PROVE  IInv' /\ StackStep
<1>0. DataOK /\ SaveOne(f) /\ flow[f] \in FlowType
  BY DEF IInv, DataOK
<1>1. CASE ProfileList(f)
  <2>1. PICK pc \in {"message", "list"} : Go(f, pc)
    BY <1>1 DEF ProfileList
  <2>2. pc \in Waiting \cup Working /\ pc \in Waiting
    BY DEF Waiting
  <2>3. Moves(f, pc) /\ Carries(f)
    BY <1>0, <2>1, <2>2, GoMoves
  <2>4. Asks(f, pc)
    BY <1>1, <2>2 DEF Asks, ProfileList, At, Waiting
  <2>5. SaveOne(f)'
    BY <1>0, <1>1, <2>3 DEF SaveOne, Moves, Carries, ProfileList, At
  <2>6. /\ UNCHANGED <<method, serverKey, known, file, stored, deleted, cache, crashed>>
        /\ vault' \in {"unopened", "locked", "open"} /\ opened' \in Nat /\ OneVault'
    BY <1>0, <1>1 DEF ProfileList, DataOK, OneVault, IInv
  <2>7. /\ stored' \in [Ids -> Secrets \cup {"absent"}] /\ deleted' \subseteq Ids
        /\ cache' \in Secrets \cup {"absent"} /\ deleted \subseteq deleted' /\ file' \in BOOLEAN
        /\ \A i \in Ids : stored[i] # "absent" => i \in deleted' \/ stored'[i] = stored[i]
    BY <1>0, <2>6 DEF DataOK
  <2> QED
    BY <2>2, <2>3, <2>4, <2>5, <2>6, <2>7, FlowStep
<1>2. ASSUME NEW i \in Ids, PersistProfile(f, i) PROVE IInv' /\ StackStep
  <2>1. /\ flow' = [flow EXCEPT ![f] = [flow[f] EXCEPT !.pc = "resolve", !.id = i]]
        /\ stored' = [stored EXCEPT ![i] = flow[f].typed]
        /\ stored[i] = "absent" /\ i \notin deleted /\ flow[f].pc = "persist"
        /\ UNCHANGED <<method, serverKey, known, file, vault, opened, deleted, cache, screens, crashed>>
    BY <1>0, <1>2 DEF PersistProfile, At, DataOK
  <2>2. "resolve" \in Waiting \cup Working /\ "resolve" \notin Waiting
    BY DEF Working, Waiting
  <2>3. /\ flow'[f] \in FlowType /\ flow'[f].pc = "resolve" /\ flow'[f].id = i
        /\ flow'[f].typed = flow[f].typed /\ flow'[f].save = flow[f].save
    BY <1>0, <2>1, <2>2 DEF FlowType, DataOK
  <2>4. Moves(f, "resolve")
    BY <1>0, <2>1, <2>3 DEF Moves, DataOK
  <2>5. Asks(f, "resolve")
    BY <2>1, <2>2 DEF Asks, Waiting
  <2>6. flow[f].typed \in Secrets \cup {"absent"} /\ stored' \in [Ids -> Secrets \cup {"absent"}]
        /\ stored'[i] = flow[f].typed
    BY <1>0, <2>1 DEF FlowType, DataOK
  <2>7. SaveOne(f)'
    BY <1>0, <2>3, <2>6 DEF SaveOne
  <2>8. /\ file' \in BOOLEAN /\ vault' \in {"unopened", "locked", "open"} /\ opened' \in Nat
        /\ deleted' \subseteq Ids /\ cache' \in Secrets \cup {"absent"}
        /\ deleted \subseteq deleted' /\ OneVault'
        /\ \A j \in Ids : stored[j] # "absent" => j \in deleted' \/ stored'[j] = stored[j]
    BY <1>0, <2>1 DEF DataOK, OneVault, IInv
  <2> QED
    BY <2>1, <2>2, <2>4, <2>5, <2>6, <2>7, <2>8, FlowStep
<1>3. ASSUME NEW i \in Ids, DeleteProfile(f, i) PROVE IInv' /\ StackStep
  <2>1. /\ stored' = [stored EXCEPT ![i] = "absent"] /\ deleted' = deleted \cup {i}
        /\ UNCHANGED <<method, serverKey, known, file, vault, opened, cache, screens, flow, crashed>>
    BY <1>3 DEF DeleteProfile
  <2>2. DataOK'
    BY <1>0, <2>1 DEF DataOK
  <2>3. \A g \in Flows : SaveOne(g)'
    BY <1>0, <2>1 DEF SaveOne, IInv, DataOK
  <2> QED
    BY <2>1, <2>2, <2>3 DEF IInv, OneVault, StackStep, Kept
<1> QED
  BY <1>1, <1>2, <1>3

\* The secret that is found or asked for.
LEMMA ProceedMoves ==
  ASSUME DataOK, NEW f \in Flows, NEW s \in Secrets, NEW b \in BOOLEAN, Proceed(f, s, b)
  PROVE  Moves(f, "connecting") /\ Carries(f) /\ cache' \in Secrets \cup {"absent"}
<1>1. flow[f] \in FlowType
        /\ flow'[f] = [flow[f] EXCEPT !.pc = "connecting", !.cred = s]
        /\ \A g \in Flows \ {f} : flow'[g] = flow[g]
  BY DEF Proceed, DataOK
<1>2. flow'[f] \in FlowType /\ flow'[f].pc = "connecting" /\ Carries(f)
  BY <1>1 DEF FlowType, Carries, Working
<1>3. flow' \in [Flows -> FlowType]
  BY <1>2 DEF Proceed, DataOK
<1>4. cache' \in Secrets \cup {"absent"}
  BY DEF Proceed, DataOK
<1> QED
  BY <1>1, <1>2, <1>3, <1>4 DEF Moves

LEMMA ResolveSteps ==
  ASSUME IInv, NEW f \in Flows,
         Resolve(f) \/ \E s \in Secrets : SecretAnswered(f, s)
  PROVE  IInv' /\ StackStep
<1>0. DataOK /\ SaveOne(f) /\ flow[f] \in FlowType
  BY DEF IInv, DataOK
<1>1. /\ UNCHANGED <<method, serverKey, known, vaultVars, crashed>>
      /\ flow[f].pc \in {"resolve", "secret"}
  BY DEF Resolve, SecretAnswered, At
<1>2. ASSUME NEW pc \in {"connecting", "secret"}, Moves(f, pc), Carries(f), Asks(f, pc),
             cache' \in Secrets \cup {"absent"}
      PROVE  IInv' /\ StackStep
  <2>1. pc \in Waiting \cup Working
    BY DEF Waiting, Working
  <2>2. SaveOne(f)'
    BY <1>0, <1>1, <1>2 DEF SaveOne, Moves, Carries, vaultVars
  <2> QED
    BY <1>1, <1>2, <2>1, <2>2, PlainStep
<1>3. Found(f) \in Secrets
  BY <1>0 DEF Found, Held, Stored, Secrets, FlowType, DataOK
<1>4. "connecting" \notin Waiting /\ "resolve" \notin Waiting /\ "secret" \in Waiting
  BY DEF Waiting
<1>5. ASSUME NEW s \in Secrets, SecretAnswered(f, s) PROVE IInv' /\ StackStep
  BY <1>0, <1>2, <1>4, <1>5, ProceedMoves DEF SecretAnswered, Asks
<1>6. CASE Resolve(f)
  <2>1. CASE UNCHANGED screens /\ Proceed(f, Found(f), FALSE)
    BY <1>0, <1>2, <1>3, <1>4, <1>6, <2>1, ProceedMoves DEF Resolve, Asks, At
  <2>2. CASE /\ flow' = [flow EXCEPT ![f].pc = "connecting", ![f].cred = "good"]
             /\ UNCHANGED <<cache, screens>>
    <3>1. /\ flow'[f] = [flow[f] EXCEPT !.pc = "connecting", !.cred = "good"]
          /\ \A g \in Flows \ {f} : flow'[g] = flow[g]
      BY <2>2, <1>0 DEF DataOK
    <3>2. flow'[f] \in FlowType /\ flow'[f].pc = "connecting" /\ Carries(f)
      BY <1>0, <3>1 DEF FlowType, Carries, Working, Secrets
    <3>3. flow' \in [Flows -> FlowType]
      BY <1>0, <2>2, <3>2 DEF DataOK
    <3>4. Moves(f, "connecting") /\ cache' \in Secrets \cup {"absent"}
      BY <1>0, <2>2, <3>1, <3>2, <3>3 DEF Moves, DataOK
    <3> QED
      BY <1>2, <1>4, <1>6, <2>2, <3>2, <3>4 DEF Resolve, Asks, At
  <2>3. CASE Push(f) /\ Go(f, "secret") /\ UNCHANGED cache
    <3>1. "secret" \in Waiting \cup Working /\ cache' \in Secrets \cup {"absent"}
      BY <1>0, <1>4, <2>3 DEF DataOK
    <3> QED
      BY <1>0, <1>2, <1>4, <1>6, <2>3, <3>1, GoMoves DEF Resolve, Asks, At
  <2> QED
    BY <1>6, <2>1, <2>2, <2>3 DEF Resolve
<1> QED
  BY <1>5, <1>6

\* What is decided and remembered about a key.
LEMMA KeySteps ==
  ASSUME IInv, NEW f \in Flows, Unverifiable(f) \/ RememberHostKey(f)
  PROVE  IInv' /\ StackStep
<1>0. DataOK /\ SaveOne(f) /\ flow[f] \in FlowType
  BY DEF IInv, DataOK
<1>1. CASE Unverifiable(f) /\ HasKnownEntry
  BY <1>1, EndStep DEF Unverifiable, Asks, At, Waiting
<1>2. CASE Unverifiable(f) /\ ~HasKnownEntry
  <2>1. /\ flow' = [flow EXCEPT ![f].pc = "classify", ![f].cred = "none"]
        /\ known = {} /\ flow[f].pc = "connecting"
        /\ UNCHANGED <<method, serverKey, known, vaultVars, cache, screens, crashed>>
    BY <1>2 DEF Unverifiable, Classify, HasKnownEntry, At
  <2>2. /\ flow'[f] = [flow[f] EXCEPT !.pc = "classify", !.cred = "none"]
        /\ \A g \in Flows \ {f} : flow'[g] = flow[g]
    BY <1>0, <2>1 DEF DataOK
  <2>3. flow'[f] \in FlowType /\ flow'[f].pc = "classify" /\ Carries(f)
    BY <1>0, <2>2 DEF FlowType, Carries, Working, Secrets
  <2>4. Moves(f, "classify")
    BY <1>0, <2>1, <2>2, <2>3 DEF Moves, DataOK
  <2>5. DataOK'
    BY <1>0, <2>1, <2>4 DEF DataOK, Moves, vaultVars
  <2>6. SaveOne(f)'
    BY <1>0, <2>1, <2>3 DEF SaveOne, Carries, vaultVars
  <2>7. \A g \in Flows : SaveOne(g)'
    BY <2>1, <2>4, <2>6 DEF SaveOne, Moves, IInv, vaultVars
  <2>8. OneVault'
    BY <2>1 DEF OneVault, IInv, vaultVars
  <2>9. StackStep
    BY <2>1, <2>4 DEF StackStep, Kept, Moves, Waiting
  <2> QED
    BY <2>5, <2>7, <2>8, <2>9 DEF IInv
<1>3. CASE RememberHostKey(f)
  <2>1. /\ known' = known \cup {serverKey} /\ Go(f, "resolve") /\ flow[f].pc = "refetch"
        /\ UNCHANGED <<method, serverKey, vaultVars, cache, screens, crashed>>
    BY <1>3 DEF RememberHostKey, At
  <2>2. "resolve" \in Waiting \cup Working
    BY DEF Working
  <2>3. Moves(f, "resolve") /\ Carries(f)
    BY <1>0, <2>1, <2>2, GoMoves
  <2>4. DataOK'
    BY <1>0, <2>1, <2>3 DEF DataOK, Moves, vaultVars
  <2>5. SaveOne(f)'
    BY <1>0, <2>1, <2>3 DEF SaveOne, Carries, Moves, vaultVars
  <2>6. \A g \in Flows : SaveOne(g)'
    BY <2>1, <2>3, <2>5 DEF SaveOne, Moves, IInv, vaultVars
  <2>7. OneVault'
    BY <2>1 DEF OneVault, IInv, vaultVars
  <2>9. StackStep
    BY <2>1, <2>3 DEF StackStep, Kept, Moves, Waiting
  <2> QED
    BY <2>4, <2>6, <2>7, <2>9 DEF IInv
<1> QED
  BY <1>1, <1>2, <1>3

LEMMA StepNext ==
  ASSUME IInv, [Next]_vars
  PROVE  IInv' /\ StackStep
<1>1. CASE LockVault
  <2>1. /\ UNCHANGED <<method, serverKey, known, file, opened, stored, deleted, screens, flow, crashed>>
        /\ vault' = "locked" /\ cache' = "absent" /\ vault # "unopened"
    BY <1>1 DEF LockVault
  <2> QED
    BY <2>1 DEF IInv, DataOK, OneVault, SaveOne, StackStep, Kept
<1>2. ASSUME NEW k \in HostKeys, Rebuild(k) PROVE IInv' /\ StackStep
  <2>1. UNCHANGED <<method, known, vaultVars, cache, screens, flow, crashed>> /\ serverKey' = k
    BY <1>2 DEF Rebuild
  <2>2. DataOK' /\ OneVault' /\ \A f \in Flows : SaveOne(f)'
    BY <2>1 DEF IInv, DataOK, OneVault, SaveOne, vaultVars
  <2> QED
    BY <2>1, <2>2 DEF IInv, StackStep, Kept
<1>3. CASE UNCHANGED vars
  BY <1>3 DEF vars, vaultVars, IInv, DataOK, OneVault, SaveOne, StackStep, Kept
<1>4. ASSUME NEW f \in Flows, Work(f) PROVE IInv' /\ StackStep
  BY <1>4, CarryingSteps, EndingSteps, VaultSteps, PickerSteps, ResolveSteps, KeySteps DEF Work
<1>5. ASSUME NEW f \in Flows, Answer(f) PROVE IInv' /\ StackStep
  BY <1>5, CarryingSteps, EndingSteps, FormSteps, VaultSteps, ResolveSteps DEF Answer
<1>6. ASSUME NEW f \in Flows, Begin(f) \/ \E i \in Ids : DeleteProfile(f, i)
      PROVE  IInv' /\ StackStep
  BY <1>6, CarryingSteps, PickerSteps
<1> QED
  BY <1>1, <1>2, <1>3, <1>4, <1>5, <1>6 DEF Next

LEMMA InitInv == Init => IInv
<1> SUFFICES ASSUME Init PROVE IInv
  OBVIOUS
<1>1. OneVault
  BY DEF Init, OneVault
<1>2. \A f \in Flows : SaveOne(f)
  BY DEF Init, Idle, SaveOne
<1> QED
  BY <1>1, <1>2, InitTyped DEF IInv

----------------------------------------------------------------------------
(* The theorems. *)

\* Every flow that waits for the user has exactly one dialog on the stack, and
\* every dialog belongs to such a flow (push_screen_wait()).
THEOREM DialogsHaveOwners == Spec => []TypeOK
<1>1. IInv /\ StackOK => TypeOK
  BY TypeParts DEF IInv
<1>2. IInv /\ StackOK /\ [Next]_vars => (IInv /\ StackOK)'
  BY StepNext, StackNext DEF IInv
<1>3. Init => IInv /\ StackOK
  BY InitInv, InitTyped
<1> QED
  BY <1>1, <1>2, <1>3, PTL DEF Spec

\* However many flows ask for the master password at once, one Vault is opened
\* (ensure_vault()).
THEOREM OneVaultIsOpened == Spec => []OneVault
<1>1. IInv => OneVault
  BY DEF IInv
<1> QED
  BY <1>1, InitInv, StepNext, PTL DEF Spec

\* A connection that was to be saved is not tried before its secret is in the
\* vault (connect_flow(), persist_profile()).
THEOREM SavedBeforeTried == Spec => []SavedFirst
<1>1. IInv => SavedFirst
  BY ConnectAssumption DEF IInv, SaveOne, SavedFirst
<1> QED
  BY <1>1, InitInv, StepNext, PTL DEF Spec

=============================================================================
