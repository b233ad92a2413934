------------------------- MODULE ShellSessionProofs -------------------------
(***************************************************************************)
(* Theorems about ShellSession, for any amount of output, any window, any  *)
(* pipes and any number of resizes.                                        *)
(***************************************************************************)
EXTENDS ShellSession, FiniteSetTheorems, SequenceTheorems, TLAPS

USE ShellAssumption

----------------------------------------------------------------------------
(* The bytes a pipe carries. *)

\* A message of one of the kinds T.
Message(T) == [t : T, n : 0..Output]

\* A pipe carries finitely many bytes of a kind.
LEMMA BytesFinite ==
  ASSUME NEW T, NEW q \in Seq(Message(T)), NEW t
  PROVE  IsFiniteSet(BytesOf(t, q)) /\ Bytes(t, q) \in Nat
<1>1. Len(q) \in Nat /\ \A k \in 1..Len(q) : q[k] \in Message(T)
  BY LenProperties, ElementOfSeq
<1>2. BytesOf(t, q) \in SUBSET ((1..Len(q)) \X (1..Output))
  BY <1>1 DEF BytesOf, Message
<1>3. IsFiniteSet((1..Len(q)) \X (1..Output))
  <2>1. IsFiniteSet(1..Len(q)) /\ IsFiniteSet(1..Output)
    BY <1>1, FS_Interval
  <2> QED
    BY <2>1, FS_Product
<1> QED
  BY <1>2, <1>3, FS_Subset, FS_CardinalityType DEF Bytes

\* The bytes of one message.
LEMMA BytesOfOne ==
  ASSUME NEW k, NEW n \in 0..Output
  PROVE  IsFiniteSet({k} \X (1..n)) /\ Cardinality({k} \X (1..n)) = n
<1>1. IsFiniteSet({k}) /\ Cardinality({k}) = 1
  BY FS_Singleton
<1>2. IsFiniteSet(1..n) /\ Cardinality(1..n) = n
  BY FS_Interval
<1>3. IsFiniteSet({k} \X (1..n)) /\ Cardinality({k} \X (1..n)) = 1 * n
  <2> HIDE <1>1
  <2> QED BY <1>1, <1>2, FS_Product
<1> QED
  BY <1>3

\* A message that is sent adds its bytes to those of its kind.
LEMMA BytesAppend ==
  ASSUME NEW T, NEW q \in Seq(Message(T)), NEW m \in Message(T), NEW t
  PROVE  Bytes(t, Append(q, m)) = Bytes(t, q) + (IF m.t = t THEN m.n ELSE 0)
<1> DEFINE r == Append(q, m)
           new == IF m.t = t THEN {Len(q) + 1} \X (1..m.n) ELSE {}
<1>1. /\ Len(q) \in Nat /\ Len(r) = Len(q) + 1 /\ r[Len(q) + 1] = m
      /\ \A k \in 1..Len(q) : r[k] = q[k]
  BY LenProperties, AppendProperties
<1>2. BytesOf(t, r) = BytesOf(t, q) \cup new
  <2>1. \A k, b : <<k, b>> \in BytesOf(t, r) <=> <<k, b>> \in BytesOf(t, q) \cup new
    BY <1>1 DEF BytesOf
  <2>2. \A x \in BytesOf(t, r) \cup BytesOf(t, q) \cup new : \E k, b : x = <<k, b>>
    BY DEF BytesOf
  <2> QED
    BY <2>1, <2>2
<1>3. BytesOf(t, q) \cap new = {}
  BY <1>1 DEF BytesOf
<1>4. m.n \in 0..Output
  BY DEF Message
<1>5. IsFiniteSet(new) /\ Cardinality(new) = IF m.t = t THEN m.n ELSE 0
  BY <1>4, BytesOfOne, FS_EmptySet
<1>6. IsFiniteSet(BytesOf(t, q)) /\ Bytes(t, q) \in Nat
  BY BytesFinite
<1>7. Cardinality(BytesOf(t, q) \cup new)
        = Cardinality(BytesOf(t, q)) + Cardinality(new) - Cardinality({})
  <2> HIDE DEF new
  <2> QED BY <1>3, <1>5, <1>6, FS_Union
<1> QED
  BY <1>2, <1>4, <1>5, <1>6, <1>7, FS_EmptySet DEF Bytes

\* A message that is received takes its bytes with it.
LEMMA BytesTail ==
  ASSUME NEW T, NEW q \in Seq(Message(T)), q # <<>>, NEW t
  PROVE  Bytes(t, q) = Bytes(t, Tail(q)) + (IF Head(q).t = t THEN Head(q).n ELSE 0)
<1> DEFINE m == Head(q)
           r == Tail(q)
           first == IF m.t = t THEN {1} \X (1..m.n) ELSE {}
           rest == {x \in BytesOf(t, q) : x[1] # 1}
           shift == [x \in BytesOf(t, r) |-> <<x[1] + 1, x[2]>>]
<1>1. /\ Len(q) \in Nat /\ Len(q) > 0 /\ Len(r) = Len(q) - 1 /\ q[1] = m
      /\ r \in Seq(Message(T)) /\ m \in Message(T)
      /\ \A k \in 1..Len(r) : r[k] = q[k + 1]
  BY LenProperties, HeadTailProperties, EmptySeq
<1>2. /\ \A k, b : <<k, b>> \in BytesOf(t, q) <=>
           k \in 1..Len(q) /\ q[k].t = t /\ b \in 1..q[k].n
      /\ \A k, b : <<k, b>> \in BytesOf(t, r) <=>
           k \in 1..Len(r) /\ r[k].t = t /\ b \in 1..r[k].n
  BY DEF BytesOf
<1>3. /\ \A x \in BytesOf(t, q) : x = <<x[1], x[2]>>
      /\ \A x \in BytesOf(t, r) : x = <<x[1], x[2]>>
  BY DEF BytesOf
<1>4. BytesOf(t, q) = first \cup rest
  BY <1>1, <1>2, <1>3
<1>5. first \cap rest = {}
  OBVIOUS
<1>6. IsFiniteSet(BytesOf(t, r)) /\ Bytes(t, r) \in Nat
  BY <1>1, BytesFinite
<1>7. Cardinality(rest) = Cardinality(BytesOf(t, r)) /\ IsFiniteSet(rest)
  <2>1. shift \in Bijection(BytesOf(t, r), rest)
    <3>1. \A x \in BytesOf(t, r) : shift[x] \in rest
      BY <1>1, <1>2, <1>3
    <3>2. \A x, y \in BytesOf(t, r) : shift[x] = shift[y] => x = y
      <4>1. \A x \in BytesOf(t, r) : x[1] \in Nat
        BY <1>1, <1>2, <1>3
      <4> QED BY <1>3, <4>1
    <3>3. \A y \in rest : \E x \in BytesOf(t, r) : shift[x] = y
      <4> TAKE y \in rest
      <4> DEFINE x == <<y[1] - 1, y[2]>>
      <4>1. /\ y = <<y[1], y[2]>> /\ y[1] # 1 /\ y[1] \in 1..Len(q)
            /\ q[y[1]].t = t /\ y[2] \in 1..q[y[1]].n
        BY <1>2, <1>3
      <4>2. y[1] - 1 \in 1..Len(r) /\ r[y[1] - 1] = q[y[1]]
        BY <1>1, <4>1
      <4>3. x \in BytesOf(t, r)
        BY <1>2, <4>1, <4>2
      <4>4. x[1] + 1 = y[1] /\ x[2] = y[2]
        BY <1>1, <4>1
      <4>5. shift[x] = y
        BY <4>1, <4>3, <4>4
      <4> QED BY <4>3, <4>5
    <3> HIDE DEF shift, rest
    <3>4. shift \in [BytesOf(t, r) -> rest]
      BY <3>1 DEF shift
    <3> QED
      BY <3>2, <3>3, <3>4 DEF Bijection, Injection, Surjection, IsInjective
  <2> HIDE DEF rest
  <2> QED
    BY <1>6, <2>1, FS_Bijection DEF ExistsBijection
<1>8. m.n \in 0..Output
  BY <1>1 DEF Message
<1>9. IsFiniteSet(first) /\ Cardinality(first) = IF m.t = t THEN m.n ELSE 0
  BY <1>8, BytesOfOne, FS_EmptySet
<1>10. Cardinality(first \cup rest)
         = Cardinality(first) + Cardinality(rest) - Cardinality({})
  <2> HIDE DEF first, rest
  <2> QED BY <1>5, <1>7, <1>9, FS_Union
<1>11. Bytes(t, q) = Cardinality(first) + Cardinality(rest)
  <2> HIDE DEF first, rest
  <2> QED BY <1>4, <1>6, <1>7, <1>8, <1>9, <1>10, FS_EmptySet DEF Bytes
<1> QED
  <2>1. Cardinality(rest) = Bytes(t, r)
    BY <1>7 DEF Bytes
  <2> HIDE DEF first, rest
  <2> QED BY <1>6, <1>8, <1>9, <1>11, <2>1

----------------------------------------------------------------------------
(* The types, and that no output is lost. *)

ToChildKinds == {"feed", "resize", "quit"}

\* TypeOK, with the types of what TypeOK is silent about: the messages in the pipes,
\* the one in the reader's hand and the loaded counters.  Only the drain task that
\* has read a chunk holds one, and what awaits an ack is on the screen.
TypeInv ==
  /\ TypeOK
  /\ toChild \in Seq(Message(ToChildKinds)) /\ toParent \in Seq(Message({"ack", "frame"}))
  /\ \A k \in 1..Len(toChild) : toChild[k].t # "feed" => toChild[k].n = 0
  /\ message \in Message({"ack", "frame"})
  /\ load \in [drain : Nat, reader : Nat]
  /\ drain \in {"check", "read", "broken", "done"} => got = 0
  /\ pending <= screen

\* The output that is on its way to the screen.
Underway == unread + got + Bytes("feed", toChild) + screen

\* A child that died took with it what was sent after its death.
ConserveInv ==
  /\ Underway <= Output
  /\ OutputConserved

ShellInv == TypeInv /\ ConserveInv

LEMMA InitShell == Init => ShellInv
<1> SUFFICES ASSUME Init PROVE ShellInv
  OBVIOUS
<1>1. /\ toChild = <<Resize>> /\ Resize \in Message(ToChildKinds)
      /\ Len(toChild) = 1 /\ toChild[1] = Resize /\ toChild \in Seq(Message(ToChildKinds))
  BY DEF Init, Resize, Message, ToChildKinds
<1>2. toParent = <<>> /\ Len(toParent) = 0 /\ toParent \in Seq(Message({"ack", "frame"}))
  BY DEF Init
<1>3. Bytes("feed", toChild) = 0
  <2>1. BytesOf("feed", toChild) = {}
    BY <1>1 DEF BytesOf, Resize
  <2> QED BY <2>1, FS_EmptySet DEF Bytes
<1>5. message \in Message({"ack", "frame"}) /\ load \in [drain : Nat, reader : Nat]
  BY DEF Init, Ack, Message
<1>6. TypeInv
  <2>1. TypeOK
    <3>1. Len(toChild) <= ToChild /\ Len(toParent) <= ToParent
      BY <1>1, <1>2
    <3>2. /\ unread = Output /\ unacked = 0 /\ exited = FALSE /\ drain = "check" /\ got = 0
          /\ loop = "free" /\ closing = "no" /\ child = "poll" /\ pending = 0
          /\ dirty = FALSE /\ screen = 0 /\ reader = "check" /\ painted = 0
      BY DEF Init
    <3>3. /\ unread \in 0..Output /\ unacked \in Nat /\ got \in 0..ReadChunk
          /\ pending \in 0..Output /\ screen \in 0..Output /\ painted \in 0..Output
      BY <3>2
    <3> QED BY <3>1, <3>2, <3>3, Zenon DEF TypeOK
  <2>2. \A k \in 1..Len(toChild) : toChild[k].n = 0
    BY <1>1 DEF Resize
  <2> QED
    BY <1>1, <1>2, <1>5, <2>1, <2>2 DEF Init, TypeInv
<1>7. ConserveInv
  BY <1>3 DEF Init, ConserveInv, OutputConserved, Underway
<1> QED
  BY <1>6, <1>7 DEF ShellInv

\* What sending to the child does to the pipe.
LEMMA SendGrows ==
  ASSUME TypeInv, NEW m \in Message(ToChildKinds), m.t # "feed" => m.n = 0, SendToChild(m)
  PROVE  /\ exited' \in BOOLEAN
         /\ toChild' \in Seq(Message(ToChildKinds)) /\ Len(toChild') <= ToChild
         /\ \A k \in 1..Len(toChild') : toChild'[k].t # "feed" => toChild'[k].n = 0
         /\ Bytes("feed", toChild) \in Nat
         /\ Bytes("feed", toChild') = Bytes("feed", toChild)
              + (IF child # "dead" /\ m.t = "feed" THEN m.n ELSE 0)
<1>1. toChild \in Seq(Message(ToChildKinds)) /\ Bytes("feed", toChild) \in Nat
  BY BytesFinite DEF TypeInv
<1>2. CASE child = "dead"
  BY <1>1, <1>2 DEF SendToChild, TypeInv, TypeOK
<1>3. CASE child # "dead" /\ Len(toChild) < ToChild /\ toChild' = Append(toChild, m)
           /\ UNCHANGED exited
  <2>1. Bytes("feed", toChild') = Bytes("feed", toChild) + (IF m.t = "feed" THEN m.n ELSE 0)
    BY <1>1, <1>3, BytesAppend
  <2>2. /\ toChild' \in Seq(Message(ToChildKinds)) /\ Len(toChild') = Len(toChild) + 1
        /\ \A k \in 1..Len(toChild) : toChild'[k] = toChild[k]
        /\ toChild'[Len(toChild) + 1] = m /\ Len(toChild) \in Nat
    BY <1>1, <1>3, AppendProperties, LenProperties
  <2> QED
    BY <1>1, <1>3, <2>1, <2>2 DEF TypeInv, TypeOK
<1> QED
  BY <1>2, <1>3 DEF SendToChild

\* The reader thread takes a message off the pipe.
LEMMA ReaderReceiveKeeps ==
  ASSUME ShellInv, ReaderReceive
  PROVE  ShellInv'
<1>1. toParent \in Seq(Message({"ack", "frame"})) /\ toParent # <<>>
  BY DEF ShellInv, TypeInv, ReaderReceive
<1>2. /\ message' \in Message({"ack", "frame"}) /\ toParent' \in Seq(Message({"ack", "frame"}))
      /\ Len(toParent') <= Len(toParent)
      /\ Len(toParent') \in Nat /\ Len(toParent) \in Nat
  <2>1. /\ Head(toParent) \in Message({"ack", "frame"})
        /\ Tail(toParent) \in Seq(Message({"ack", "frame"}))
        /\ Len(Tail(toParent)) = Len(toParent) - 1
    BY <1>1, HeadTailProperties
  <2>2. Len(Tail(toParent)) \in Nat /\ Len(toParent) \in Nat
    BY <1>1, <2>1, LenProperties
  <2>3. message' = Head(toParent) /\ toParent' = Tail(toParent)
    BY DEF ReaderReceive
  <2> QED
    BY <2>1, <2>2, <2>3
<1>3. load' \in [drain : Nat, reader : Nat] /\ reader' \in {"subtract", "call"}
  <2>1. load \in [drain : Nat, reader : Nat] /\ unacked \in Nat
    BY DEF ShellInv, TypeInv, TypeOK
  <2> QED
    BY <2>1 DEF ReaderReceive
<1>4. UNCHANGED <<drainVars, unacked, exited, loop, appVars, toChild, childVars, painted>>
  BY DEF ReaderReceive
<1>5. Len(toParent') <= ToParent
  BY <1>2 DEF ShellInv, TypeInv, TypeOK
<1>6. TypeOK'
  BY <1>3, <1>4, <1>5 DEF ShellInv, TypeInv, TypeOK, drainVars, appVars, childVars
<1>7. TypeInv'
  BY <1>2, <1>3, <1>4, <1>6 DEF ShellInv, TypeInv, drainVars, childVars
<1>8. ConserveInv'
  BY <1>4 DEF ShellInv, ConserveInv, OutputConserved, Underway, drainVars, childVars
<1> QED
  BY <1>7, <1>8 DEF ShellInv

\* The child sends an ack or a frame.
LEMMA ChildSendKeeps ==
  ASSUME ShellInv, ChildAck \/ ChildEmit
  PROVE  ShellInv'
<1>1. PICK m \in Message({"ack", "frame"}) : toParent' = Append(toParent, m)
  <2>1. pending \in 0..Output /\ screen \in 0..Output
    BY DEF ShellInv, TypeInv, TypeOK
  <2>2. Ack(pending) \in Message({"ack", "frame"}) /\ Frame(screen) \in Message({"ack", "frame"})
    BY <2>1 DEF Ack, Frame, Message
  <2> QED
    BY <2>2 DEF ChildAck, ChildEmit
<1>2. /\ toParent \in Seq(Message({"ack", "frame"})) /\ Len(toParent) \in Nat
      /\ toParent' \in Seq(Message({"ack", "frame"})) /\ Len(toParent') = Len(toParent) + 1
  BY <1>1, AppendProperties, LenProperties DEF ShellInv, TypeInv
<1>3. Len(toParent') <= ToParent
  BY <1>2 DEF ChildAck, ChildEmit
<1>4. /\ UNCHANGED <<drainVars, counter, exited, loop, appVars, toChild, screen, readerVars>>
      /\ child # "dead" /\ child' \in {"emit", "poll"}
  BY DEF ChildAck, ChildEmit
<1>5. pending' \in 0..Output /\ pending' <= screen' /\ dirty' \in BOOLEAN
  <2>1. /\ pending \in 0..Output /\ screen \in 0..Output /\ pending <= screen
        /\ dirty \in BOOLEAN
    BY DEF ShellInv, TypeInv, TypeOK
  <2>2. CASE ChildAck
    BY <2>1, <2>2 DEF ChildAck
  <2>3. CASE ChildEmit
    BY <2>1, <2>3 DEF ChildEmit
  <2> QED
    BY <2>2, <2>3
<1>6. TypeOK'
  BY <1>3, <1>4, <1>5
     DEF ShellInv, TypeInv, TypeOK, drainVars, counter, appVars, readerVars
<1>7. TypeInv'
  BY <1>2, <1>4, <1>5, <1>6 DEF ShellInv, TypeInv, drainVars, counter, readerVars
<1>8. ConserveInv'
  BY <1>4 DEF ShellInv, ConserveInv, OutputConserved, Underway, drainVars
<1> QED
  BY <1>7, <1>8 DEF ShellInv

\* The child takes a message off the pipe, and feeds the emulator what it carries.
LEMMA ChildReceiveKeeps ==
  ASSUME ShellInv, ChildReceive
  PROVE  ShellInv'
<1> DEFINE m == Head(toChild)
<1>1. toChild # <<>> /\ toChild' = Tail(toChild) /\ child = "poll"
  BY DEF ChildReceive
<1>2. toChild \in Seq(Message(ToChildKinds))
  BY DEF ShellInv, TypeInv
<1>3. /\ m \in Message(ToChildKinds) /\ m = toChild[1]
      /\ toChild' \in Seq(Message(ToChildKinds)) /\ Len(toChild') = Len(toChild) - 1
      /\ Len(toChild) \in Nat /\ Len(toChild) > 0
      /\ \A k \in 1..Len(toChild') : toChild'[k] = toChild[k + 1]
  BY <1>1, <1>2, HeadTailProperties, LenProperties, EmptySeq
<1>4. m.n \in 0..Output
  BY <1>3 DEF Message
<1>5. m.t # "feed" => m.n = 0
  BY <1>3 DEF ShellInv, TypeInv
<1>6. \A k \in 1..Len(toChild') : toChild'[k].t # "feed" => toChild'[k].n = 0
  <2> TAKE k \in 1..Len(toChild')
  <2>1. k + 1 \in 1..Len(toChild) /\ toChild'[k] = toChild[k + 1]
    BY <1>3
  <2> QED
    BY <2>1 DEF ShellInv, TypeInv
<1>7. /\ Bytes("feed", toChild) = Bytes("feed", toChild') + m.n
      /\ Bytes("feed", toChild') \in Nat
  <2>1. Bytes("feed", toChild) = Bytes("feed", toChild') + (IF m.t = "feed" THEN m.n ELSE 0)
    BY <1>1, <1>2, BytesTail
  <2> QED
    BY <1>3, <1>5, <2>1, BytesFinite
<1>8. Len(toChild') <= ToChild
  BY <1>3 DEF ShellInv, TypeInv, TypeOK
<1>9. UNCHANGED <<drainVars, counter, exited, loop, appVars, toParent, readerVars>>
  BY DEF ChildReceive
<1>10. unread \in Nat /\ got \in Nat /\ screen \in Nat /\ pending \in Nat /\ pending <= screen
  BY DEF ShellInv, TypeInv, TypeOK
<1>11. unread + got + Bytes("feed", toChild) + screen <= Output
  BY DEF ShellInv, ConserveInv, Underway
<1>12. CASE m.t = "quit"
  <2>1. child' = "dead" /\ UNCHANGED <<pending, dirty, screen>>
    BY <1>12 DEF ChildReceive
  <2>2. TypeOK'
    BY <1>8, <1>9, <2>1
       DEF ShellInv, TypeInv, TypeOK, drainVars, counter, appVars, readerVars
  <2>3. TypeInv'
    BY <1>3, <1>6, <1>9, <2>1, <2>2 DEF ShellInv, TypeInv, drainVars, counter, readerVars
  <2>4. ConserveInv'
    <3>1. m.n = 0 /\ Bytes("feed", toChild) = Bytes("feed", toChild')
      BY <1>5, <1>7, <1>12
    <3> QED
      BY <1>9, <1>11, <2>1, <3>1 DEF ConserveInv, OutputConserved, Underway, drainVars
  <2> QED
    BY <2>3, <2>4 DEF ShellInv
<1>13. CASE m.t # "quit"
  <2>1. /\ child' = "ack" /\ dirty' = TRUE
        /\ pending' = pending + m.n /\ screen' = screen + m.n
    BY <1>13 DEF ChildReceive
  <2>2. unread' + got' + Bytes("feed", toChild') + screen'
          = unread + got + Bytes("feed", toChild) + screen
    BY <1>4, <1>7, <1>9, <1>10, <2>1 DEF drainVars
  <2>3. /\ screen' \in 0..Output /\ pending' \in 0..Output /\ pending' <= screen'
    BY <1>4, <1>7, <1>10, <1>11, <2>1
  <2>4. TypeOK'
    BY <1>8, <1>9, <2>1, <2>3
       DEF ShellInv, TypeInv, TypeOK, drainVars, counter, appVars, readerVars
  <2>5. TypeInv'
    BY <1>3, <1>6, <1>9, <2>3, <2>4 DEF ShellInv, TypeInv, drainVars, counter, readerVars
  <2>6. ConserveInv'
    BY <1>1, <2>2 DEF ShellInv, ConserveInv, OutputConserved, Underway
  <2> QED
    BY <2>5, <2>6 DEF ShellInv
<1> QED
  BY <1>12, <1>13

\* What the actions of one actor leave alone, they leave as it was.
LEMMA ShellNext == ShellInv /\ [Next]_vars => ShellInv'
<1> SUFFICES ASSUME ShellInv, [Next]_vars PROVE ShellInv'
  OBVIOUS
<1>a. /\ Bytes("feed", toChild) \in Nat
      /\ toChild \in Seq(Message(ToChildKinds)) /\ toParent \in Seq(Message({"ack", "frame"}))
  BY BytesFinite DEF ShellInv, TypeInv
<1> USE <1>a DEF ShellInv, TypeInv, TypeOK, ConserveInv, OutputConserved, Underway,
            vars, drainVars, counter, appVars, childVars, readerVars
<1>1. CASE UNCHANGED vars
  BY <1>1
<1>2. CASE DrainCheck
  BY <1>2 DEF DrainCheck
<1>3. CASE DrainRead
  BY <1>3 DEF DrainRead
<1>4. CASE DrainLoad
  BY <1>4 DEF DrainLoad
<1>5. CASE DrainStore
  BY <1>5 DEF DrainStore
<1>6. CASE DrainSend
  <2>1. Feed(got) \in Message(ToChildKinds) /\ Feed(got).t = "feed" /\ Feed(got).n = got
    BY DEF Feed, Message, ToChildKinds
  <2> QED
    BY <1>6, <2>1, SendGrows DEF DrainSend
<1>7. CASE ReaderCheck
  BY <1>7 DEF ReaderCheck
<1>8. CASE ReaderReceive
  BY <1>8, ReaderReceiveKeeps
<1>9. CASE ReaderTimeout
  BY <1>9 DEF ReaderTimeout
<1>10. CASE ReaderEOF
  BY <1>10 DEF ReaderEOF
<1>11. CASE ReaderSubtract
  BY <1>11 DEF ReaderSubtract, Message
<1>12. CASE ChildReceive
  BY <1>12, ChildReceiveKeeps
<1>13. CASE ChildAck
  BY <1>13, ChildSendKeeps
<1>14. CASE ChildEmit
  BY <1>14, ChildSendKeeps
<1>15. CASE ChildIdle
  BY <1>15 DEF ChildIdle
<1>16. CASE ResizeSend
  <2>1. Resize \in Message(ToChildKinds) /\ Resize.t # "feed" /\ Resize.n = 0
    BY DEF Resize, Message, ToChildKinds
  <2> QED
    BY <1>16, <2>1, SendGrows DEF ResizeSend
<1>17. CASE CloseQuit
  <2>1. Quit \in Message(ToChildKinds) /\ Quit.t # "feed" /\ Quit.n = 0
    BY DEF Quit, Message, ToChildKinds
  <2> QED
    BY <1>17, <2>1, SendGrows DEF CloseQuit
<1>18. CASE CloseKill
  <2>1. Len(<<>>) = 0 /\ <<>> \in Seq(Message({"ack", "frame"}))
    OBVIOUS
  <2> QED
    BY <1>18, <2>1 DEF CloseKill
<1>19. CASE Paint
  BY <1>19 DEF Paint, Message
<1>20. CASE DrainEOF
  BY <1>20 DEF DrainEOF
<1>21. CASE DrainFails
  BY <1>21 DEF DrainFails
<1>22. CASE ResizeBegin
  BY <1>22 DEF ResizeBegin
<1>23. CASE CloseBegin
  BY <1>23 DEF CloseBegin
<1>24. CASE ChildCrash
  BY <1>24 DEF ChildCrash
<1>25. CASE Finished
  BY <1>25 DEF Finished
<1> QED
  BY <1>1, <1>2, <1>3, <1>4, <1>5, <1>6, <1>7, <1>8, <1>9, <1>10, <1>11, <1>12, <1>13, <1>14,
     <1>15, <1>16, <1>17, <1>18, <1>19, <1>20, <1>21, <1>22, <1>23, <1>24, <1>25
     DEF Next, DrainStep, ReaderStep, ChildStep, AppStep

\* Every variable keeps its type: no read is longer than READ_CHUNK and no pipe is
\* over-full, whatever the reader thread, the child and the user do.
THEOREM ShellTypes == Spec => []TypeOK
<1>1. ShellInv => TypeOK
  BY DEF ShellInv, TypeInv
<1> QED
  BY <1>1, InitShell, ShellNext, PTL DEF Spec

\* While the child lives no byte of the output is lost or doubled between the
\* channel and the screen, for any size of the pipes (_drain_channel, main).
THEOREM NoOutputIsLost == Spec => []OutputConserved
<1>1. ShellInv => OutputConserved
  BY DEF ShellInv, ConserveInv
<1> QED
  BY <1>1, InitShell, ShellNext, PTL DEF Spec

=============================================================================
