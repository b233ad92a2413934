-------------------------- MODULE MirrorTreeProofs --------------------------
(* Theorems about MirrorTree, for every finite tree: the plan holds what can  *)
(* be read once and in order, and what make_directory() of FTP has in hand    *)
(* are levels of what it was asked for.                                       *)
EXTENDS MirrorTree, SequenceTheorems, FiniteSetTheorems,
        WellFoundedInduction, TLAPS

----------------------------------------------------------------------------
(* The directories above a place. *)

Nodes == Entries \cup Places

LEMMA AboveTyped == Above \in [Nodes -> SUBSET Places] /\ Above[Slash] = {}
BY DEF Above, Nodes, Places

\* The parent of a directory that is above p is above p.
LEMMA AboveClimbs ==
  ASSUME NEW p \in Nodes
  PROVE  Climbs(Above[p])
<1> SUFFICES ASSUME NEW a \in Above[p] \ {Slash} PROVE Parent[a] \in Above[p]
  BY DEF Climbs
<1>1. p # Slash /\ a \in Places /\ Parent[a] \in Places
  BY AboveTyped, MirrorAssumption DEF Places
<1>2. ASSUME NEW S \in SUBSET Places, Parent[p] \in S, Climbs(S) PROVE Parent[a] \in S
  <2>1. a \in S
    BY <1>1, <1>2 DEF Above, Nodes
  <2> QED
    BY <1>2, <2>1 DEF Climbs
<1> QED
  BY <1>1, <1>2 DEF Above, Nodes

LEMMA AboveStep ==
  ASSUME NEW p \in Nodes \ {Slash}
  PROVE  Parent[p] \in Places /\ Above[p] = {Parent[p]} \cup Above[Parent[p]]
<1> DEFINE q == Parent[p]
<1>1. q \in Places /\ q \in Nodes
  BY MirrorAssumption DEF Nodes, Places
<1>2. Above[p] = {a \in Places : \A S \in SUBSET Places : q \in S /\ Climbs(S) => a \in S}
  BY DEF Above, Nodes
<1>3. q # Slash => Above[q] = {a \in Places : \A S \in SUBSET Places : Parent[q] \in S /\ Climbs(S) => a \in S}
  BY <1>1 DEF Above, Nodes
<1>4. Above[q] \subseteq Above[p]
  <2>1. CASE q = Slash
    BY <2>1, AboveTyped
  <2>2. CASE q # Slash
    BY <1>2, <1>3, <2>2 DEF Climbs
  <2> QED BY <2>1, <2>2
<1>5. ASSUME NEW a \in Above[p] PROVE a \in {q} \cup Above[q]
  <2> DEFINE S == {q} \cup Above[q]
  <2>1. S \in SUBSET Places /\ q \in S
    BY <1>1, AboveTyped
  <2>2. q # Slash => Parent[q] \in Above[q]
    <3> SUFFICES ASSUME q # Slash PROVE Parent[q] \in Above[q]
      OBVIOUS
    <3>1. Parent[q] \in Places
      BY <1>1, MirrorAssumption DEF Places
    <3> QED
      BY <1>3, <3>1
  <2>3. Climbs(S)
    BY <1>1, <2>2, AboveClimbs DEF Climbs
  <2> QED
    BY <1>2, <2>1, <2>3
<1>6. q \in Above[p]
  BY <1>1, <1>2
<1> QED
  BY <1>1, <1>4, <1>5, <1>6

LEMMA AboveIsTransitive ==
  ASSUME NEW p \in Nodes, NEW a \in Above[p]
  PROVE  a \in Nodes /\ Above[a] \subseteq Above[p]
<1>1. a \in Places /\ a \in Nodes
  BY AboveTyped DEF Nodes
<1>2. CASE a = Slash
  BY <1>1, <1>2, AboveTyped
<1>3. CASE a # Slash
  <2>1. Parent[a] \in Above[p] /\ Climbs(Above[p]) /\ Above[p] \in SUBSET Places
    BY <1>3, AboveClimbs, AboveTyped DEF Climbs
  <2>2. Above[a] = {b \in Places : \A S \in SUBSET Places : Parent[a] \in S /\ Climbs(S) => b \in S}
    BY <1>1, <1>3 DEF Above, Nodes
  <2> QED
    BY <1>1, <2>1, <2>2
<1> QED
  BY <1>2, <1>3

\* No entry is above itself, and none is above the one the user selected.
LEMMA TreeFacts ==
  /\ \A e \in Entries : e \in Nodes \ {Slash} /\ e \notin Above[e]
  /\ Above[Dest] \subseteq {Slash}
  /\ Above[Top] \cap Entries = {}
<1>1. \A e \in Entries : e \in Nodes \ {Slash} /\ e \notin Above[e]
  BY AboveTyped, MirrorAssumption DEF Nodes, Places
<1>2. Above[Dest] \subseteq {Slash}
  <2>1. Dest # Slash => Above[Dest] = {Slash} \cup Above[Slash]
    BY AboveStep, MirrorAssumption DEF Nodes, Places
  <2> QED
    BY <2>1, AboveTyped
<1>3. Above[Top] = {Dest} \cup Above[Dest]
  BY <1>1, AboveStep, MirrorAssumption
<1> QED
  BY <1>1, <1>2, <1>3, MirrorAssumption

----------------------------------------------------------------------------
(* Lists without duplicates. *)

\* What is left when the first is taken.
LEMMA TailOf ==
  ASSUME NEW S, NEW q \in Seq(S), q # <<>>, IsInjective(q)
  PROVE  /\ Tail(q) \in Seq(S) /\ IsInjective(Tail(q)) /\ Head(q) \in S /\ Contains(q, Head(q))
         /\ \A e : Contains(Tail(q), e) <=> Contains(q, e) /\ e # Head(q)
<1> DEFINE m == Len(q)
           r == Tail(q)
<1>1. /\ m \in Nat /\ m # 0 /\ r \in Seq(S) /\ Len(r) = m - 1 /\ Head(q) = q[1] /\ Head(q) \in S
      /\ \A n \in 1..(m - 1) : r[n] = q[n + 1]
  BY HeadTailProperties, LenProperties, EmptySeq
<1>2. DOMAIN q = 1..m /\ DOMAIN r = 1..Len(r)
  BY <1>1, LenProperties
<1> HIDE DEF m, r
<1>3. \A i, j \in 1..m : q[i] = q[j] => i = j
  BY <1>2 DEF IsInjective
<1>4. \A n \in 1..(m - 1) : n + 1 \in 1..m /\ n + 1 # 1
  BY <1>1
<1>5. IsInjective(r)
  <2>1. ASSUME NEW i \in 1..(m - 1), NEW j \in 1..(m - 1), r[i] = r[j] PROVE i = j
    <3>1. i + 1 = j + 1
      BY <1>1, <1>3, <1>4, <2>1
    <3> QED
      BY <3>1
  <2> QED
    BY <1>1, <1>2, <2>1 DEF IsInjective
<1>6. 1 \in 1..m
  BY <1>1
<1>7. \A e : Contains(q, e) <=> \E k \in 1..m : q[k] = e
  BY DEF Contains, m
<1>8. \A e : Contains(r, e) <=> \E k \in 1..(m - 1) : r[k] = e
  BY <1>1 DEF Contains
<1>9. \A k \in 1..m : k # 1 => k - 1 \in 1..(m - 1) /\ r[k - 1] = q[k]
  <2> TAKE k \in 1..m
  <2> HAVE k # 1
  <2>1. k - 1 \in 1..(m - 1) /\ (k - 1) + 1 = k
    BY <1>1
  <2> QED
    BY <1>1, <2>1
<1>10. ASSUME NEW e PROVE Contains(r, e) <=> Contains(q, e) /\ e # q[1]
  <2>1. ASSUME Contains(r, e) PROVE Contains(q, e) /\ e # q[1]
    <3>1. PICK k \in 1..(m - 1) : r[k] = e
      BY <1>8, <2>1
    <3>2. k + 1 \in 1..m /\ q[k + 1] = e /\ k + 1 # 1
      BY <1>1, <1>4, <3>1
    <3> QED
      BY <1>3, <1>6, <1>7, <3>2
  <2>2. ASSUME Contains(q, e), e # q[1] PROVE Contains(r, e)
    BY <1>7, <1>8, <1>9, <2>2
  <2> QED
    BY <2>1, <2>2
<1> QED
  BY <1>1, <1>5, <1>6, <1>7, <1>10 DEF r

\* Two lists with nothing in common, one after the other.
LEMMA ConcatOf ==
  ASSUME NEW S, NEW a \in Seq(S), NEW b \in Seq(S), IsInjective(a), IsInjective(b),
         \A e : Contains(a, e) => ~Contains(b, e)
  PROVE  /\ a \o b \in Seq(S) /\ IsInjective(a \o b)
         /\ \A e : Contains(a \o b, e) <=> Contains(a, e) \/ Contains(b, e)
<1> DEFINE m == Len(a)
           n == Len(b)
           r == a \o b
<1>1. m \in Nat /\ n \in Nat /\ DOMAIN a = 1..m /\ DOMAIN b = 1..n
  BY LenProperties
<1>2. /\ r \in Seq(S) /\ Len(r) = m + n
      /\ \A i \in 1..(m + n) : r[i] = IF i <= m THEN a[i] ELSE b[i - m]
  BY ConcatProperties
<1>3. DOMAIN r = 1..(m + n)
  BY <1>2, LenProperties
<1>4. /\ \A e : Contains(a, e) <=> \E k \in 1..m : a[k] = e
      /\ \A e : Contains(b, e) <=> \E k \in 1..n : b[k] = e
      /\ \A e : Contains(r, e) <=> \E k \in 1..(m + n) : r[k] = e
  BY <1>2 DEF Contains
<1>5. /\ \A i, j \in 1..m : a[i] = a[j] => i = j
      /\ \A i, j \in 1..n : b[i] = b[j] => i = j
  BY <1>1 DEF IsInjective
<1> HIDE DEF m, n, r
<1>6. \A i \in 1..m : i \in 1..(m + n) /\ r[i] = a[i]
  BY <1>1, <1>2
<1>7. \A i \in 1..n : m + i \in 1..(m + n) /\ r[m + i] = b[i]
  <2> TAKE i \in 1..n
  <2>1. m + i \in 1..(m + n) /\ ~(m + i <= m) /\ (m + i) - m = i
    BY <1>1
  <2> QED
    BY <1>2, <2>1
<1>8. \A k \in 1..(m + n) : k \in 1..m \/ (~(k <= m) /\ k - m \in 1..n /\ r[k] = b[k - m])
  BY <1>1, <1>2
<1>9. ASSUME NEW e PROVE Contains(r, e) <=> Contains(a, e) \/ Contains(b, e)
  BY <1>4, <1>6, <1>7, <1>8
<1>10. ASSUME NEW i \in 1..(m + n), NEW j \in 1..(m + n), r[i] = r[j] PROVE i = j
  <2>1. CASE i \in 1..m /\ j \in 1..m
    BY <1>5, <1>6, <1>10, <2>1
  <2>2. CASE i \notin 1..m /\ j \notin 1..m
    <3>1. i - m = j - m
      BY <1>5, <1>8, <1>10, <2>2
    <3> QED
      BY <1>1, <3>1
  <2>3. CASE i \in 1..m /\ j \notin 1..m
    BY <1>4, <1>6, <1>8, <1>10, <2>3
  <2>4. CASE i \notin 1..m /\ j \in 1..m
    BY <1>4, <1>6, <1>8, <1>10, <2>4
  <2> QED
    BY <2>1, <2>2, <2>3, <2>4
<1>11. IsInjective(r)
  BY <1>3, <1>10 DEF IsInjective
<1> QED
  BY <1>2, <1>9, <1>11 DEF r

\* What list.append() does to a list that does not hold the element.
LEMMA AppendOf ==
  ASSUME NEW S, NEW q \in Seq(S), IsInjective(q), NEW x \in S, ~Contains(q, x)
  PROVE  /\ Append(q, x) \in Seq(S) /\ IsInjective(Append(q, x))
         /\ \A e : Contains(Append(q, x), e) <=> Contains(q, e) \/ e = x
<1> DEFINE r == Append(q, x)
<1>1. /\ r \in Seq(S) /\ Len(r) = Len(q) + 1 /\ Len(q) \in Nat /\ r[Len(q) + 1] = x
      /\ \A i \in 1..Len(q) : r[i] = q[i]
      /\ DOMAIN r = 1..Len(r) /\ DOMAIN q = 1..Len(q)
  BY AppendProperties, LenProperties
<1> HIDE DEF r
<1>2. IsInjective(r)
  BY <1>1 DEF IsInjective, Contains
<1>3. \A e : Contains(r, e) <=> Contains(q, e) \/ e = x
  BY <1>1 DEF Contains
<1> QED
  BY <1>1, <1>2, <1>3 DEF r

----------------------------------------------------------------------------
(* The walk of plan_transfer(). *)

WalkTyped == todo \in Seq(Entries) /\ plan \in Seq(Entries) /\ unread \subseteq Folders

\* The walk has come across e.
Seen(e) == Contains(plan, e) \/ Contains(todo, e)

\* What waits has not been visited and is above nothing that was seen; all that was
\* seen can be reached by the listings that succeeded, and what is in a directory
\* that was listed has been seen.
WalkInv ==
  /\ pc # "plan" => todo = <<>>
  /\ IsInjective(plan) /\ IsInjective(todo)
  /\ \A e \in Entries : Contains(plan, e) => ~Contains(todo, e)
  /\ \A m, n \in 1..Len(plan) : plan[m] \in Above[plan[n]] => m < n
  /\ \A x, e \in Entries : Contains(todo, x) /\ Seen(e) => x \notin Above[e]
  /\ Seen(Top)
  /\ \A e \in Entries : Seen(e) => e \in Readable /\ (e = Top \/ Contains(plan, Parent[e]))
  /\ \A e \in Entries \ {Top} : Contains(plan, Parent[e]) /\ Parent[e] \notin unread => Seen(e)
  /\ \A d \in unread : Contains(plan, d)

LEMMA WalkInit == Init => WalkTyped /\ WalkInv
<1> SUFFICES ASSUME Init PROVE WalkTyped /\ WalkInv
  OBVIOUS
<1>1. Top \in Entries
  BY MirrorAssumption
<1>2. /\ todo = <<Top>> /\ todo \in Seq(Entries) /\ Len(todo) = 1 /\ todo[1] = Top
      /\ plan = <<>> /\ plan \in Seq(Entries) /\ Len(plan) = 0 /\ unread = {} /\ pc = "plan"
  BY <1>1 DEF Init
<1>3. \A e : ~Contains(plan, e) /\ (Contains(todo, e) <=> e = Top)
  BY <1>2 DEF Contains
<1>4. IsInjective(plan) /\ IsInjective(todo)
  BY <1>2 DEF IsInjective
<1>5. Top \notin Above[Top]
  BY <1>1, TreeFacts
<1>6. Top \in Readable
  BY <1>1 DEF Readable
<1>7. \A m, n \in 1..Len(plan) : FALSE
  BY <1>2
<1> QED
  BY <1>2, <1>3, <1>4, <1>5, <1>6, <1>7 DEF WalkTyped, WalkInv, Seen

\* What is in a directory that is visited now was not seen before.
LEMMA ChildrenAreNew ==
  ASSUME WalkTyped, WalkInv, NEW x \in Entries, Contains(todo, x),
         NEW c \in Entries, Parent[c] = x
  PROVE  ~Seen(c)
<1>1. c # Top
  BY MirrorAssumption
<1> QED
  BY <1>1 DEF WalkInv

\* One entry is visited; what is in it, C, is found unless it could not be listed.
LEMMA VisitKeeps ==
  ASSUME WalkTyped, WalkInv, NEW x \in Entries, Contains(todo, x), pc' = "plan",
         plan' = Append(plan, x),
         NEW C \in SUBSET Entries, \A c \in C : Parent[c] = x,
         todo' \in Seq(Entries), IsInjective(todo'),
         \A e : Contains(todo', e) <=> e \in C \/ (Contains(todo, e) /\ e # x),
         \/ unread' = unread /\ (\A e \in Entries : Parent[e] = x => e \in C)
         \/ unread' = unread \cup {x} /\ x \in Folders /\ C = {}
  PROVE  WalkTyped' /\ WalkInv'
<1>1. ~Contains(plan, x) /\ x \notin unread /\ x \notin Above[x] /\ Seen(x)
  BY TreeFacts DEF WalkInv, Seen
<1>2. /\ plan' \in Seq(Entries) /\ IsInjective(plan')
      /\ \A e : Contains(plan', e) <=> Contains(plan, e) \/ e = x
  BY <1>1, AppendOf DEF WalkTyped, WalkInv
<1>3. \A c \in C : ~Seen(c) /\ Above[c] = {x} \cup Above[x]
  BY ChildrenAreNew, AboveStep, TreeFacts
<1>4. \A e : Seen(e)' <=> Seen(e) \/ e \in C
  BY <1>2 DEF Seen
<1>5. WalkTyped'
  BY <1>2 DEF WalkTyped
<1>6. \A e \in Entries : Contains(plan', e) => ~Contains(todo', e)
  BY <1>1, <1>2, <1>3 DEF WalkInv, Seen
<1>7. \A m, n \in 1..Len(plan') : plan'[m] \in Above[plan'[n]] => m < n
  <2>1. /\ Len(plan) \in Nat /\ Len(plan') = Len(plan) + 1 /\ plan'[Len(plan) + 1] = x
        /\ \A i \in 1..Len(plan) : plan'[i] = plan[i] /\ plan[i] \in Entries
    BY AppendProperties, LenProperties, ElementOfSeq DEF WalkTyped
  <2>2. \A i \in 1..Len(plan) : x \notin Above[plan[i]]
    BY <2>1 DEF WalkInv, Seen, Contains
  <2>3. \A m, n \in 1..Len(plan) : plan[m] \in Above[plan[n]] => m < n
    BY DEF WalkInv
  <2> TAKE m, n \in 1..Len(plan')
  <2>4. CASE m \in 1..Len(plan) /\ n \in 1..Len(plan)
    BY <2>1, <2>3, <2>4
  <2>5. CASE m = Len(plan) + 1 /\ n \in 1..Len(plan)
    BY <2>1, <2>2, <2>5
  <2>6. CASE m \in 1..Len(plan) /\ n = Len(plan) + 1
    BY <2>1, <2>6
  <2>7. CASE m = Len(plan) + 1 /\ n = Len(plan) + 1
    BY <1>1, <2>1, <2>7
  <2>8. \A k \in 1..Len(plan') : k \in 1..Len(plan) \/ k = Len(plan) + 1
    BY <2>1
  <2> QED
    BY <2>4, <2>5, <2>6, <2>7, <2>8
<1>8. ASSUME NEW y \in Entries, NEW e \in Entries, Contains(todo', y), Seen(e)'
      PROVE  y \notin Above[e]
  <2>1. \A z, f \in Entries : Contains(todo, z) /\ Seen(f) => z \notin Above[f]
    BY DEF WalkInv
  <2>2. CASE y \in C
    <3>1. x \in Above[y] /\ y # x
      BY <1>1, <1>3, <2>2
    <3>2. y \in Above[x] => x \in Above[x]
      BY <3>1, AboveIsTransitive, TreeFacts
    <3>3. y \in Above[e] => x \in Above[e]
      BY <3>1, AboveIsTransitive, TreeFacts
    <3>4. CASE e \in C
      BY <1>1, <1>3, <3>1, <3>2, <3>4
    <3>5. CASE Seen(e)
      BY <2>1, <3>3, <3>5
    <3> QED
      BY <1>4, <1>8, <3>4, <3>5
  <2>3. CASE Contains(todo, y) /\ y # x
    <3>1. CASE e \in C
      BY <1>1, <1>3, <2>1, <2>3, <3>1
    <3>2. CASE Seen(e)
      BY <2>1, <2>3, <3>2
    <3> QED
      BY <1>4, <1>8, <3>1, <3>2
  <2> QED
    BY <1>8, <2>2, <2>3
<1>9. ASSUME NEW e \in Entries, Seen(e)'
      PROVE  e \in Readable' /\ (e = Top \/ Contains(plan', Parent[e]))
  <2>1. CASE Seen(e)
    <3>1. e \in Readable /\ (e = Top \/ Contains(plan, Parent[e])) /\ x \notin Above[e]
      BY <2>1 DEF WalkInv
    <3>2. unread' \subseteq unread \cup {x}
      OBVIOUS
    <3> QED
      BY <1>2, <3>1, <3>2 DEF Readable
  <2>2. CASE e \in C
    <3>1. unread' = unread /\ Above[e] = {x} \cup Above[x] /\ Parent[e] = x
      BY <1>3, <2>2
    <3>2. x = Top \/ Top \in Above[x]
      BY <1>1 DEF WalkInv, Readable
    <3>3. Above[x] \cap unread = {}
      <4>1. x = Top => Above[x] \cap unread = {}
        BY TreeFacts, MirrorAssumption DEF WalkTyped
      <4> QED
        BY <1>1, <4>1 DEF WalkInv, Readable
    <3> QED
      BY <1>1, <1>2, <3>1, <3>2, <3>3 DEF Readable
  <2> QED
    BY <1>4, <1>9, <2>1, <2>2
<1>10. ASSUME NEW e \in Entries \ {Top}, Contains(plan', Parent[e]), Parent[e] \notin unread'
       PROVE  Seen(e)'
  <2>1. CASE Parent[e] = x
    BY <1>4, <1>10, <2>1
  <2>2. CASE Parent[e] # x
    BY <1>2, <1>4, <1>10, <2>2 DEF WalkInv
  <2> QED
    BY <2>1, <2>2
<1>11. Seen(Top)' /\ \A d \in unread' : Contains(plan', d)
  BY <1>2, <1>4 DEF WalkInv
<1> QED
  BY <1>2, <1>5, <1>6, <1>7, <1>8, <1>9, <1>10, <1>11 DEF WalkInv

LEMMA WalkNext == WalkTyped /\ WalkInv /\ [Next]_vars => WalkTyped' /\ WalkInv'
<1> SUFFICES ASSUME WalkTyped, WalkInv, [Next]_vars PROVE WalkTyped' /\ WalkInv'
  OBVIOUS
<1>1. ASSUME VisitFile \/ VisitDirectory PROVE WalkTyped' /\ WalkInv'
  <2>0. PICK x : x = Head(todo)
    OBVIOUS
  <2>1. todo # <<>> /\ pc' = "plan" /\ plan' = Append(plan, x)
    BY <1>1, <2>0 DEF VisitFile, VisitDirectory
  <2>2. /\ Tail(todo) \in Seq(Entries) /\ IsInjective(Tail(todo)) /\ x \in Entries /\ Contains(todo, x)
        /\ \A e : Contains(Tail(todo), e) <=> Contains(todo, e) /\ e # x
    BY <2>0, <2>1, TailOf DEF WalkTyped, WalkInv
  <2>3. CASE \/ todo' = Tail(todo) /\ unread' = unread /\ x \notin Folders
             \/ todo' = Tail(todo) /\ unread' = unread \cup {x} /\ x \in Folders
    <3>1. x \notin Folders => \A e \in Entries : Parent[e] # x
      BY <2>2, MirrorAssumption DEF Places
    <3>2. PICK C : C = {}
      OBVIOUS
    <3>3. C \in SUBSET Entries /\ \A c \in C : Parent[c] = x
      BY <3>2
    <3>4. /\ todo' \in Seq(Entries) /\ IsInjective(todo')
          /\ \A e : Contains(todo', e) <=> e \in C \/ (Contains(todo, e) /\ e # x)
      BY <2>2, <2>3, <3>2
    <3>5. \/ unread' = unread /\ (\A e \in Entries : Parent[e] = x => e \in C)
          \/ unread' = unread \cup {x} /\ x \in Folders /\ C = {}
      BY <2>3, <3>1, <3>2
    <3> QED
      BY <2>1, <2>2, <3>3, <3>4, <3>5, VisitKeeps
  <2>4. CASE todo' = Children[x] \o Tail(todo) /\ unread' = unread /\ x \in Folders
    <3>1. PICK C : C = {e \in Entries : Parent[e] = x}
      OBVIOUS
    <3>2. Children[x] \in Seq(Entries) /\ IsInjective(Children[x]) /\ ToSet(Children[x]) = C
      BY <2>4, <3>1, MirrorAssumption
    <3>3. \A e : Contains(Children[x], e) <=> e \in C
      <4>1. DOMAIN Children[x] = 1..Len(Children[x])
        BY <3>2, LenProperties
      <4> QED
        BY <3>2, <4>1 DEF ToSet, Contains
    <3>4. \A e : Contains(Children[x], e) => ~Contains(Tail(todo), e)
      BY <2>2, <3>1, <3>3, ChildrenAreNew DEF Seen
    <3>5. /\ todo' \in Seq(Entries) /\ IsInjective(todo')
          /\ \A e : Contains(todo', e) <=> Contains(Children[x], e) \/ Contains(Tail(todo), e)
      BY <2>2, <2>4, <3>2, <3>4, ConcatOf
    <3>6. \A e : Contains(todo', e) <=> e \in C \/ (Contains(todo, e) /\ e # x)
      BY <2>2, <3>3, <3>5
    <3>7. C \in SUBSET Entries /\ \A c \in C : Parent[c] = x
      BY <3>1
    <3>8. \/ unread' = unread /\ (\A e \in Entries : Parent[e] = x => e \in C)
          \/ unread' = unread \cup {x} /\ x \in Folders /\ C = {}
      BY <2>4, <3>1
    <3> QED
      BY <2>1, <2>2, <3>5, <3>6, <3>7, <3>8, VisitKeeps
  <2> QED
    BY <1>1, <2>0, <2>3, <2>4 DEF VisitFile, VisitDirectory
<1>2. CASE UNCHANGED walkVars /\ (pc # "plan" \/ pc' = "plan" \/ todo = <<>>)
  BY <1>2 DEF walkVars, WalkTyped, WalkInv, Seen, Readable
<1>3. CASE Planned \/ Create \/ FTP \/ Cancel \/ Ended \/ UNCHANGED vars
  <2>1. UNCHANGED walkVars /\ (pc # "plan" \/ pc' = "plan" \/ todo = <<>>)
    BY <1>3 DEF Planned, Create, PassFile, SkipCancelled, MakeDirs, Begins, FTP, BeginFTP,
         AscendMade, AscendRefused, DescendMade, DescendRefused, IsThere, IsNotThere,
         DescendDone, ConnectionLost, Cancel, Ended, vars
  <2> QED
    BY <1>2, <2>1
<1> QED
  BY <1>1, <1>3 DEF Next, Walk

\* Every entry that can be read is in the plan when the walk is over: of those that
\* were not, one would have the fewest directories above it.
LEMMA AllIsPlanned ==
  ASSUME WalkTyped, WalkInv, todo = <<>>
  PROVE  \A e \in Readable : Contains(plan, e)
<1>1. \A e : Seen(e) <=> Contains(plan, e)
  BY EmptySeq DEF Seen, Contains
<1> DEFINE Missed == {e \in Readable : ~Contains(plan, e)}
           Lines == {Above[e] : e \in Missed}
<1> SUFFICES ASSUME Missed # {} PROVE FALSE
  OBVIOUS
<1>2. IsFiniteSet(Places)
  <2>1. IsFiniteSet(Folders \cup {Dest}) /\ IsFiniteSet(Folders \cup {Dest} \cup {Slash})
    BY MirrorAssumption, FS_AddElement
  <2>2. Places = Folders \cup {Dest} \cup {Slash}
    BY DEF Places
  <2> QED
    BY <2>1, <2>2
<1>3. Lines \subseteq FiniteSubsetsOf(Places) /\ Lines # {}
  <2>1. \A e \in Missed : Above[e] \in SUBSET Places /\ IsFiniteSet(Above[e])
    BY <1>2, FS_Subset, AboveTyped DEF Readable, Nodes
  <2> QED
    BY <2>1 DEF FiniteSubsetsOf
<1>4. PICK e \in Missed : \A f \in Missed : <<Above[f], Above[e]>> \notin StrictSubsetOrdering(Places)
  <2>1. PICK L \in Lines : \A M \in Lines : <<M, L>> \notin StrictSubsetOrdering(Places)
    BY <1>3, WFMin, FS_StrictSubsetOrderingWellFounded
  <2> QED
    BY <2>1
<1>5. e \in Entries /\ e # Top /\ Top \in Above[e] /\ Above[e] \cap unread = {}
  BY <1>1 DEF Readable, WalkInv
<1> DEFINE d == Parent[e]
<1>6. d \in Places /\ Above[e] = {d} \cup Above[d]
  BY <1>5, AboveStep, TreeFacts
<1>7. d \in Entries /\ d \notin Above[d]
  <2>1. d # Dest /\ d # Slash
    BY <1>5, <1>6, TreeFacts, AboveTyped, MirrorAssumption
  <2> QED
    BY <1>6, <2>1, TreeFacts, MirrorAssumption DEF Places
<1>8. d \in Readable
  BY <1>5, <1>6, <1>7 DEF Readable
<1>9. d \notin Missed
  <2>1. Above[d] \subseteq Above[e] /\ Above[d] # Above[e] /\ Above[e] \in SUBSET Places
    BY <1>5, <1>6, <1>7, AboveTyped DEF Nodes
  <2>2. <<Above[d], Above[e]>> \in StrictSubsetOrdering(Places)
    BY <2>1 DEF StrictSubsetOrdering
  <2> QED
    BY <1>4, <2>2
<1>10. Contains(plan, e)
  BY <1>1, <1>5, <1>6, <1>8, <1>9 DEF WalkInv
<1> QED
  BY <1>10

\* For every finite tree and whatever listings fail: plan_transfer() plans each entry
\* that can be read exactly once, and a directory before what is in it.
THEOREM PlanHoldsTheTree == Spec => []PlanIsTree
<1>1. WalkTyped /\ WalkInv => PlanIsTree
  <2> SUFFICES ASSUME WalkTyped, WalkInv, pc # "plan"
               PROVE  /\ Readable = {plan[n] : n \in 1..Len(plan)}
                      /\ \A m, n \in 1..Len(plan) :
                           /\ plan[m] = plan[n] => m = n
                           /\ plan[m] \in Above[plan[n]] => m < n
    BY DEF PlanIsTree
  <2>1. todo = <<>> /\ \A e \in Entries : Contains(plan, e) => e \in Readable
    BY DEF WalkInv, Seen
  <2>2. \A e \in Readable : Contains(plan, e)
    BY <2>1, AllIsPlanned
  <2>3. DOMAIN plan = 1..Len(plan) /\ \A n \in 1..Len(plan) : plan[n] \in Entries
    BY LenProperties, ElementOfSeq DEF WalkTyped
  <2>4. Readable = {plan[n] : n \in 1..Len(plan)}
    BY <2>1, <2>2, <2>3 DEF Contains
  <2> QED
    BY <2>3, <2>4 DEF WalkInv, IsInjective
<1> QED
  BY <1>1, WalkInit, WalkNext, PTL DEF Spec

----------------------------------------------------------------------------
(* The loop of run() over the directories, and make_directory(). *)

LoopTyped ==
  /\ backend \in Backends
  /\ pc \in {"plan", "next", "ascend", "descend", "probe", "aborted"}
  /\ next \in 1..(Len(plan) + 1)
  /\ made \in [Folders -> States] /\ exists \subseteq Places
  /\ current \in Places /\ cancelled \in BOOLEAN
  /\ parts \in Seq(Places) /\ \A n \in 1..Len(parts) : parts[n] \in Line(Item) \ {Slash}

\* make_directory() of FTP is at work.
Making == pc \in {"ascend", "descend", "probe"}

\* The level it is at is one of the directory that was asked for, below the root;
\* between two calls it holds none.
LoopInv ==
  /\ Making => next <= Len(plan) /\ Item \in Folders
  /\ pc = "ascend" => current \in Line(Item) \ {Slash}
  /\ pc \in {"plan", "next"} => parts = <<>>

MirrorInv == WalkTyped /\ WalkInv /\ LoopTyped /\ LoopInv

LEMMA LineTyped ==
  ASSUME NEW p \in Nodes
  PROVE  /\ p \in Line(p) /\ Line(p) \subseteq {p} \cup Places
         /\ \A a \in Line(p) \ {Slash} : a \in Nodes /\ Parent[a] \in Line(p)
<1>1. Above[p] \subseteq Places /\ Climbs(Above[p])
  BY AboveTyped, AboveClimbs
<1>2. p # Slash => Parent[p] \in Above[p]
  BY AboveStep
<1> QED
  BY <1>1, <1>2 DEF Line, Climbs, Nodes

LEMMA MirrorInit == Init => MirrorInv
<1> SUFFICES ASSUME Init PROVE MirrorInv
  OBVIOUS
<1>1. plan = <<>> /\ parts = <<>> /\ Len(plan) = 0 /\ Len(parts) = 0 /\ parts \in Seq(Places)
  BY DEF Init
<1>2. Dest \in Nodes /\ Line(Dest) \subseteq Places /\ Dest \in Line(Dest) /\ Slash \in Places
  BY LineTyped DEF Nodes, Places
<1>3. exists \subseteq Places
  BY <1>2 DEF Init, Places
<1>5. LoopTyped
  <2>1. next \in 1..(Len(plan) + 1) /\ \A n \in 1..Len(parts) : FALSE
    BY <1>1 DEF Init
  <2>2. made \in [Folders -> States]
    BY DEF Init, States
  <2> QED
    BY <1>1, <1>2, <1>3, <2>1, <2>2 DEF Init, LoopTyped
<1>6. LoopInv
  BY <1>1 DEF Init, LoopInv, Making
<1> QED
  BY <1>5, <1>6, WalkInit DEF MirrorInv

\* What is left of the levels when the last was tried.
LEMMA FrontOf ==
  ASSUME NEW S, NEW q \in Seq(S), q # <<>>
  PROVE  /\ Front(q) \in Seq(S) /\ Len(Front(q)) = Len(q) - 1 /\ Len(q) \in Nat \ {0}
         /\ \A i \in 1..(Len(q) - 1) : Front(q)[i] = q[i]
         /\ Last(q) = q[Len(q)] /\ Last(q) \in S
<1>1. Len(q) \in Nat \ {0} /\ \A i \in 1..Len(q) : q[i] \in S
  BY LenProperties, ElementOfSeq, EmptySeq
<1>2. Last(q) = q[Len(q)] /\ Len(q) \in 1..Len(q)
  BY <1>1 DEF Last
<1>3. \A i \in 1..(Len(q) - 1) : q[i] \in S
  BY <1>1
<1>4. /\ SubSeq(q, 1, Len(q) - 1) \in Seq(S) /\ Len(SubSeq(q, 1, Len(q) - 1)) = Len(q) - 1
      /\ \A i \in 1..(Len(q) - 1) : SubSeq(q, 1, Len(q) - 1)[i] = q[i]
  <2> DEFINE n == Len(q) - 1
             r == SubSeq(q, 1, n)
  <2>1. n \in Nat
    BY <1>1
  <2>2. /\ r \in Seq(S) /\ Len(r) = IF 1 <= n THEN n - 1 + 1 ELSE 0
        /\ \A i \in 1..(n - 1 + 1) : r[i] = q[1 + i - 1]
    BY <1>3, <2>1, SubSeqProperties
  <2>3. n - 1 + 1 = n /\ (IF 1 <= n THEN n - 1 + 1 ELSE 0) = n /\ \A i \in 1..n : 1 + i - 1 = i
    BY <2>1
  <2> HIDE DEF n, r
  <2>4. r \in Seq(S) /\ Len(r) = n /\ \A i \in 1..n : r[i] = q[i]
    BY <2>2, <2>3
  <2> QED
    BY <2>4 DEF n, r
<1> QED
  BY <1>1, <1>2, <1>4 DEF Front

\* The level that is asked for next, and what may have been made of it and above it.
LEMMA LineStays ==
  ASSUME NEW p \in Places
  PROVE  Line(p) \subseteq Places /\ \A a \in Line(p) : Line(a) \subseteq Places
<1>1. p \in Nodes /\ \A a \in Places : a \in Nodes
  BY DEF Nodes
<1> QED
  BY <1>1, LineTyped

\* The state of a directory is set.
LEMMA SettleKeeps ==
  ASSUME MirrorInv, NEW s \in States, Settle(s), next <= Len(plan),
         UNCHANGED <<backend, walkVars>>, cancelled' \in BOOLEAN, exists' \subseteq Places
  PROVE  LoopTyped' /\ LoopInv'
<1>1. /\ Len(plan) \in Nat /\ next \in 1..Len(plan) /\ next' = next + 1 /\ pc' = "next"
      /\ parts' = <<>> /\ Len(parts') = 0 /\ current' = Slash /\ plan' = plan
      /\ made' = [made EXCEPT ![Item] = s]
  BY LenProperties DEF Settle, MirrorInv, LoopTyped, WalkTyped, walkVars
<1>2. made' \in [Folders -> States]
  BY <1>1 DEF MirrorInv, LoopTyped
<1>3. next + 1 \in 1..(Len(plan) + 1) /\ Slash \in Places /\ <<>> \in Seq(Places)
  BY <1>1 DEF Places
<1> QED
  BY <1>1, <1>2, <1>3 DEF MirrorInv, LoopTyped, LoopInv, Making

\* Steps of make_directory() that settle nothing.
LEMMA MakingFrame ==
  ASSUME MirrorInv, UNCHANGED <<backend, walkVars, next, made, cancelled>>
  PROVE  /\ plan' = plan /\ Item' = Item /\ Line(Item)' = Line(Item)
         /\ next' \in 1..(Len(plan') + 1) /\ made' \in [Folders -> States]
         /\ backend' \in Backends /\ cancelled' \in BOOLEAN
BY DEF MirrorInv, LoopTyped, Item, Line, walkVars

LEMMA LoopNext == MirrorInv /\ [Next]_vars => LoopTyped' /\ LoopInv'
<1> SUFFICES ASSUME MirrorInv, [Next]_vars PROVE LoopTyped' /\ LoopInv'
  OBVIOUS
<1>0. Len(plan) \in Nat /\ next \in 1..(Len(plan) + 1)
  BY LenProperties DEF MirrorInv, WalkTyped, LoopTyped
<1>1. ASSUME VisitFile \/ VisitDirectory PROVE LoopTyped' /\ LoopInv'
  <2>1. /\ pc = "plan" /\ UNCHANGED <<backend, pc, next, made, exists, current, parts, cancelled>>
        /\ plan' = Append(plan, Head(todo)) /\ todo # <<>>
    BY <1>1 DEF VisitFile, VisitDirectory, ftpVars
  <2>2. parts = <<>> /\ Len(parts) = 0
    BY <2>1 DEF MirrorInv, LoopInv
  <2>3. Len(plan') = Len(plan) + 1
    BY <2>1, HeadTailProperties, AppendProperties DEF MirrorInv, WalkTyped
  <2>4. next' \in 1..(Len(plan') + 1)
    BY <1>0, <2>1, <2>3
  <2> QED
    BY <2>1, <2>2, <2>4 DEF MirrorInv, LoopTyped, LoopInv, Making
<1>2. CASE Planned \/ Cancel \/ UNCHANGED vars \/ Ended
  <2>1. /\ UNCHANGED <<backend, walkVars, next, made, exists, ftpVars>> /\ cancelled' \in BOOLEAN
        /\ UNCHANGED pc \/ (pc = "plan" /\ pc' = "next")
    BY <1>2 DEF Planned, Cancel, Ended, vars, MirrorInv, LoopTyped
  <2> QED
    BY <2>1 DEF MirrorInv, LoopTyped, LoopInv, Making, Item, Line, walkVars, ftpVars
<1>3. CASE PassFile
  <2>1. /\ pc = "next" /\ next <= Len(plan) /\ next' = next + 1 /\ UNCHANGED <<pc, plan>>
        /\ UNCHANGED <<backend, made, exists, current, parts, cancelled>>
        /\ parts = <<>> /\ Len(parts) = 0
    BY <1>3 DEF PassFile, walkVars, ftpVars, MirrorInv, LoopInv
  <2>2. next + 1 \in 1..(Len(plan) + 1)
    BY <1>0, <2>1
  <2> QED
    BY <2>1, <2>2 DEF MirrorInv, LoopTyped, LoopInv, Making
<1>4. CASE SkipCancelled
  BY <1>4, SettleKeeps DEF SkipCancelled, MirrorInv, LoopTyped, States
<1>5. CASE MakeDirs
  <2>1. /\ next <= Len(plan) /\ UNCHANGED <<backend, walkVars, cancelled>>
        /\ Item \in Places /\ exists \subseteq Places /\ cancelled' \in BOOLEAN
    BY <1>5 DEF MakeDirs, Begins, Places, MirrorInv, LoopTyped
  <2>2. exists' \subseteq Places
    BY <1>5, <2>1, LineStays DEF MakeDirs, Line
  <2>3. \E s \in States : Settle(s)
    BY <1>5 DEF MakeDirs, States
  <2> QED
    BY <2>1, <2>2, <2>3, SettleKeeps
<1>6. CASE BeginFTP
  <2>1. /\ pc' = "ascend" /\ current' = Item /\ parts' = parts /\ parts = <<>>
        /\ next <= Len(plan) /\ Item \in Folders /\ exists' = exists
        /\ UNCHANGED <<backend, walkVars, next, made, cancelled>>
    BY <1>6 DEF BeginFTP, Begins, MirrorInv, LoopInv
  <2>2. Item \in Line(Item) \ {Slash} /\ Item \in Places
    BY <2>1, MirrorAssumption DEF Line, Places
  <2>3. Len(parts) = 0 /\ exists \subseteq Places /\ parts \in Seq(Places)
    BY <2>1 DEF MirrorInv, LoopTyped
  <2> QED
    BY <2>1, <2>2, <2>3, MakingFrame DEF LoopTyped, LoopInv, Making
<1>7. CASE AscendMade
  <2>1. /\ exists' = exists \cup Line(current) /\ Settle("done") /\ next <= Len(plan)
        /\ UNCHANGED <<backend, walkVars, cancelled>>
        /\ current \in Places /\ exists \subseteq Places /\ cancelled' \in BOOLEAN
    BY <1>7 DEF AscendMade, MKD, MirrorInv, LoopInv, LoopTyped, Making
  <2>2. exists' \subseteq Places
    BY <2>1, LineStays
  <2> QED
    BY <2>1, <2>2, SettleKeeps DEF States
<1>8. CASE AscendRefused
  <2>1. /\ pc = "ascend" /\ parts' = Append(parts, current) /\ current' = Parent[current]
        /\ pc' = (IF Parent[current] = Slash THEN "descend" ELSE "ascend")
        /\ \E a \in Above[current] : exists' = exists \cup Line(a)
        /\ UNCHANGED <<backend, walkVars, next, made, cancelled>>
        /\ next <= Len(plan) /\ Item \in Folders
        /\ current \in Line(Item) \ {Slash} /\ current \in Places /\ exists \subseteq Places
        /\ parts \in Seq(Places) /\ \A n \in 1..Len(parts) : parts[n] \in Line(Item) \ {Slash}
    BY <1>8 DEF AscendRefused, Refused, MirrorInv, LoopInv, LoopTyped, Making
  <2>2. Parent[current] \in Line(Item) /\ Parent[current] \in Places
    BY <2>1, LineTyped DEF Nodes, Places
  <2>3. /\ parts' \in Seq(Places) /\ Len(parts) \in Nat /\ Len(parts') = Len(parts) + 1
        /\ parts'[Len(parts) + 1] = current /\ \A n \in 1..Len(parts) : parts'[n] = parts[n]
    BY <2>1, AppendProperties, LenProperties
  <2>4. \A n \in 1..Len(parts') : parts'[n] \in Line(Item) \ {Slash}
    BY <2>1, <2>3
  <2>5. exists' \subseteq Places
    BY <2>1, LineStays DEF Line
  <2> QED
    BY <2>1, <2>2, <2>3, <2>4, <2>5, MakingFrame DEF LoopTyped, LoopInv, Making
<1>9. CASE DescendMade \/ DescendRefused
  <2>1. /\ parts # <<>> /\ parts' = Front(parts) /\ current' = Last(parts)
        /\ pc' \in {"descend", "probe"}
        /\ \E a \in Line(Last(parts)) : exists' = exists \cup Line(a)
        /\ UNCHANGED <<backend, walkVars, next, made, cancelled>>
        /\ next <= Len(plan) /\ Item \in Folders /\ exists \subseteq Places
        /\ parts \in Seq(Places) /\ \A n \in 1..Len(parts) : parts[n] \in Line(Item) \ {Slash}
    BY <1>9 DEF DescendMade, DescendRefused, MKD, Refused, Line, MirrorInv, LoopInv, LoopTyped, Making
  <2>2. /\ parts' \in Seq(Places) /\ Len(parts') = Len(parts) - 1 /\ Len(parts) \in Nat \ {0}
        /\ \A n \in 1..(Len(parts) - 1) : parts'[n] = parts[n]
        /\ Last(parts) \in Places
    BY <2>1, FrontOf
  <2>3. exists' \subseteq Places
    BY <2>1, <2>2, LineStays
  <2>4. \A n \in 1..Len(parts') : parts'[n] \in Line(Item) \ {Slash}
    BY <2>1, <2>2
  <2> QED
    BY <2>1, <2>2, <2>3, <2>4, MakingFrame DEF LoopTyped, LoopInv, Making
<1>10. CASE IsThere
  <2>1. /\ Making /\ UNCHANGED <<backend, walkVars, next, made, exists, current, parts, cancelled>>
        /\ pc' = "descend"
    BY <1>10 DEF IsThere, Making, ftpVars
  <2> QED
    BY <2>1, MakingFrame DEF MirrorInv, LoopTyped, LoopInv, Making
<1>11. CASE ConnectionLost
  <2>1. /\ UNCHANGED <<backend, walkVars, next, made, current, parts, cancelled>> /\ pc' = "aborted"
        /\ parts \in Seq(Places) /\ current \in Places /\ exists \subseteq Places
    BY <1>11 DEF ConnectionLost, ftpVars, MirrorInv, LoopTyped
  <2>2. \E p \in Places : \E a \in Line(p) : exists' = exists \cup Line(a)
    BY <1>11, <2>1, FrontOf DEF ConnectionLost
  <2>3. exists' \subseteq Places
    BY <2>1, <2>2, LineStays
  <2> QED
    BY <2>1, <2>3, MakingFrame DEF MirrorInv, LoopTyped, LoopInv, Making
<1>12. CASE IsNotThere \/ DescendDone
  BY <1>12, SettleKeeps DEF IsNotThere, DescendDone, MirrorInv, LoopTyped, LoopInv, Making, States
<1> QED
  BY <1>1, <1>2, <1>3, <1>4, <1>5, <1>6, <1>7, <1>8, <1>9, <1>10, <1>11, <1>12
  DEF Next, Walk, Create, FTP

LEMMA MirrorNext == MirrorInv /\ [Next]_vars => MirrorInv'
BY WalkNext, LoopNext DEF MirrorInv

\* Every variable keeps its type; the levels that make_directory() of FTP has still to
\* make are of the directory it was asked for, and the root is not among them.
THEOREM MirrorTypes == Spec => []TypeOK
<1>1. MirrorInv => TypeOK
  BY DEF MirrorInv, WalkTyped, LoopTyped, TypeOK
<1> QED
  BY <1>1, MirrorInit, MirrorNext, PTL DEF Spec

=============================================================================
