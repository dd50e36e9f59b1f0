-------------------------- MODULE SafeQueueProofs --------------------------
(***************************************************************************)
(* Proofs about SafeQueue, for every heap and any number of threads.       *)
(***************************************************************************)
EXTENDS SafeQueue, Integers, FiniteSetTheorems, WellFoundedInduction, TLAPS

-----------------------------------------------------------------------------
(* Lists in a heap                                                          *)

\* Induction over the naturals, for a set.
LEMMA SetInduction ==
  ASSUME NEW S, S \subseteq Nat, 0 \in S, \A n \in S : n + 1 \in S
  PROVE  S = Nat
<1> DEFINE T == Nat \ S
           R == OpToRel(<, Nat)
<1>1. SUFFICES ASSUME T # {} PROVE FALSE
  OBVIOUS
<1>2. IsWellFoundedOn(R, Nat)
  BY NatLessThanWellFounded, Zenon
<1> HIDE DEF R
<1>3. PICK x \in T : \A y \in T : ~ (<<y, x>> \in R)
  <2>1. T \subseteq Nat
    OBVIOUS
  <2> HIDE DEF T
  <2> QED BY <1>1, <1>2, <2>1, WFMin, Zenon
<1>4. \A y, z \in Nat : y < z => <<y, z>> \in R
  BY DEF R, OpToRel
<1>5. x # 0 /\ x - 1 \in Nat /\ x - 1 < x /\ x - 1 + 1 = x
  BY <1>3
<1>6. x - 1 \in S
  BY <1>3, <1>4, <1>5
<1> QED BY <1>3, <1>5, <1>6

\* A path is a sequence of nodes.
LEMMA PathIsSeq == Path \subseteq Seq(Node)
<1> SUFFICES ASSUME NEW k \in 0 .. Cardinality(Node), NEW s \in [1 .. k -> Node]
             PROVE  s \in Seq(Node)
  BY DEF Path
<1> Cardinality(Node) \in Nat
  BY QueueAssumption, FS_CardinalityType
<1> QED OBVIOUS

\* Of two lists from one node that agree, none is the longer one.
LEMMA NoneIsLonger ==
  ASSUME NEW f, NEW g, NEW s \in Seq(Node), NEW u \in Seq(Node),
         IsListFrom(s, f, g), IsListFrom(u, f, g),
         \A n \in Nat : n \in DOMAIN s /\ n \in DOMAIN u => s[n] = u[n]
  PROVE  ~ Len(s) < Len(u)
<1> SUFFICES ASSUME Len(s) < Len(u) PROVE FALSE
  OBVIOUS
<1>1. CASE s = <<>>
  <2>1. f = NULL /\ f = u[1] /\ u[1] \in Node
    BY <1>1 DEF IsListFrom
  <2> QED BY <2>1, QueueAssumption
<1>2. CASE s # <<>>
  <2> DEFINE k == Len(s)
  <2>1. k \in DOMAIN s /\ k \in DOMAIN u /\ k \in Nat /\ k # Len(u) /\ u[k + 1] \in Node
    BY <1>2
  <2>2. g[s[k]] = NULL /\ g[u[k]] = u[k + 1] /\ s[k] = u[k]
    BY <2>1 DEF IsListFrom
  <2> QED BY <2>1, <2>2, QueueAssumption
<1> QED BY <1>1, <1>2

\* There is one list from a node.
LEMMA ListIsUnique ==
  ASSUME NEW f, NEW g, NEW s \in Seq(Node), NEW u \in Seq(Node),
         IsListFrom(s, f, g), IsListFrom(u, f, g)
  PROVE  s = u
<1> DEFINE S == {n \in Nat : n \in DOMAIN s /\ n \in DOMAIN u => s[n] = u[n]}
<1>1. 0 \in S
  OBVIOUS
<1>2. ASSUME NEW n \in S PROVE n + 1 \in S
  <2> SUFFICES ASSUME n + 1 \in DOMAIN s, n + 1 \in DOMAIN u PROVE s[n + 1] = u[n + 1]
    OBVIOUS
  <2>1. CASE n = 0
    BY <2>1 DEF IsListFrom
  <2>2. CASE n # 0
    <3>1. n \in DOMAIN s /\ n \in DOMAIN u /\ n # Len(s) /\ n # Len(u)
      BY <2>2
    <3>2. g[s[n]] = s[n + 1] /\ g[u[n]] = u[n + 1] /\ s[n] = u[n]
      BY <3>1 DEF IsListFrom
    <3> QED BY <3>2
  <2> QED BY <2>1, <2>2
<1>3. S = Nat
  <2>1. S \subseteq Nat
    OBVIOUS
  <2> HIDE DEF S
  <2> QED BY <1>1, <1>2, <2>1, SetInduction
<1>4. \A n \in Nat : n \in DOMAIN s /\ n \in DOMAIN u => s[n] = u[n]
  BY <1>3
<1>5. ~ Len(s) < Len(u) /\ ~ Len(u) < Len(s)
  BY <1>4, NoneIsLonger
<1> QED BY <1>4, <1>5

\* A list that has no node twice is the one that ListFrom finds.
LEMMA ListIsFound ==
  ASSUME NEW f, NEW g, NEW s \in Seq(Node), IsListFrom(s, f, g),
         \A i, j \in DOMAIN s : s[i] = s[j] => i = j
  PROVE  ListFrom(f, g) = s /\ s \in Path
<1>1. s \in Injection(1 .. Len(s), Node)
  BY DEF Injection, IsInjective
<1>2. Cardinality(1 .. Len(s)) = Len(s)
  <2>1. 1 \in Int /\ Len(s) \in Int /\ Len(s) >= 0
    OBVIOUS
  <2> HIDE <2>1
  <2> QED BY <2>1, FS_Interval
<1>3. Len(s) <= Cardinality(Node) /\ Cardinality(Node) \in Nat
  BY <1>1, <1>2, FS_Injection, FS_CardinalityType, QueueAssumption
<1>4. s \in Path
  BY <1>3 DEF Path
<1>5. ListFrom(f, g) \in Path /\ IsListFrom(ListFrom(f, g), f, g)
  BY <1>4 DEF ListFrom
<1> QED BY <1>4, <1>5, PathIsSeq, ListIsUnique
-----------------------------------------------------------------------------
(* The list in a state and in a step                                        *)

\* The list from head on.
LEMMA ListFacts ==
  ASSUME ListInv
  PROVE  /\ Nodes \in Seq(Node) /\ IsListFrom(Nodes, head, next)
         /\ \A i, j \in DOMAIN Nodes : Nodes[i] = Nodes[j] => i = j
         /\ \A i \in DOMAIN Nodes : Nodes[i] \in allocated
         /\ head = NULL <=> Nodes = <<>>
         /\ head # NULL => 1 \in DOMAIN Nodes /\ head = Nodes[1]
<1>1. Nodes \in Seq(Node) /\ IsListFrom(Nodes, head, next)
  BY PathIsSeq DEF ListInv
<1>2. \A i, j \in DOMAIN Nodes : Nodes[i] = Nodes[j] => i = j
  BY DEF ListInv, NodesAreOwned
<1>3. \A i \in DOMAIN Nodes : Nodes[i] \in allocated
  BY DEF ListInv, NodesAreOwned
<1>4. Nodes # <<>> => 1 \in DOMAIN Nodes /\ head = Nodes[1] /\ Nodes[1] \in Node
  BY <1>1 DEF IsListFrom
<1>5. Nodes = <<>> => head = NULL
  BY <1>1 DEF IsListFrom
<1> QED BY <1>1, <1>2, <1>3, <1>4, <1>5, QueueAssumption

\* A step that leaves head and the pointers of the list alone leaves the list alone.
LEMMA SameList ==
  ASSUME ListInv, head' = head, \A i \in DOMAIN Nodes : next'[Nodes[i]] = next[Nodes[i]]
  PROVE  Nodes' = Nodes /\ IsListFrom(Nodes', head', next')
<1>1. IsListFrom(Nodes, head', next')
  BY ListFacts DEF IsListFrom
<1>2. ListFrom(head', next') = Nodes
  <2> DEFINE n == Nodes
  <2>1. n \in Seq(Node) /\ IsListFrom(n, head', next') /\ \A i, j \in DOMAIN n : n[i] = n[j] => i = j
    BY <1>1, ListFacts
  <2> HIDE DEF n
  <2>2. ListFrom(head', next') = n
    BY <2>1, ListIsFound
  <2> QED BY <2>2 DEF n
<1>3. Nodes' = Nodes
  BY <1>2 DEF Nodes
<1> QED BY <1>1, <1>3

\* Link puts the pusher's node at the end of the list.
LEMMA LinkAppends ==
  ASSUME TypeOK, ControlInv, ListInv, NEW t \in Pusher, Link(t)
  PROVE  /\ Nodes' = Append(Nodes, mine[t])
         /\ Nodes' \in Path /\ IsListFrom(Nodes', head', next')
<1> DEFINE n == Nodes
           s == Append(n, mine[t])
<1>1. /\ t \in Thread /\ HasNode(t) /\ mine[t] \in Node /\ next[mine[t]] = NULL
      /\ \A i \in DOMAIN n : n[i] # mine[t]
  <2>1. t \in Thread /\ pc[t] = "locked" /\ mine[t] # NULL
    BY DEF Thread, Link, ControlInv
  <2>2. HasNode(t)
    BY <2>1 DEF HasNode
  <2>3. mine[t] \in Node
    BY <2>1 DEF TypeOK
  <2>4. \A i \in DOMAIN n : n[i] # mine[t]
    BY <2>1, <2>2 DEF ListInv, NodesAreOwned
  <2> QED BY <2>1, <2>2, <2>3, <2>4 DEF ListInv
<1>2. tail = IF n = <<>> THEN NULL ELSE n[Len(n)]
  <2>1. owner = t /\ pc[owner] = "locked"
    BY <1>1 DEF ControlInv, Critical, Link
  <2> QED BY <2>1 DEF ListInv, TailInv
<1>3. n \in Seq(Node) /\ IsListFrom(n, head, next) /\ \A i, j \in DOMAIN n : n[i] = n[j] => i = j
  BY ListFacts
<1>4. /\ IF tail # NULL THEN next' = [next EXCEPT ![tail] = mine[t]] /\ head' = head
                        ELSE head' = mine[t] /\ next' = next
      /\ next \in [Node -> Node \union {NULL}]
  BY DEF Link, TypeOK
<1> HIDE DEF n
<1>5. s \in Seq(Node) /\ Len(s) = Len(n) + 1 /\ s # <<>> /\ s[Len(s)] = mine[t]
  BY <1>1, <1>3
<1>6. \A i \in DOMAIN n : s[i] = n[i] /\ n[i] \in Node
  BY <1>1, <1>3
<1>7. IsListFrom(s, head', next')
  <2>1. CASE n = <<>>
    <3>1. head' = mine[t] /\ next' = next
      BY <2>1, <1>2, <1>4
    <3> QED BY <2>1, <3>1, <1>1, <1>5 DEF IsListFrom
  <2>2. CASE n # <<>>
    <3>1. tail = n[Len(n)] /\ tail \in Node /\ tail # NULL /\ Len(n) \in DOMAIN n
      BY <2>2, <1>2, <1>3, <1>6, QueueAssumption
    <3>2. next' = [next EXCEPT ![tail] = mine[t]] /\ head' = head
      BY <3>1, <1>4
    <3>3. head' = s[1]
      BY <2>2, <3>2, <1>3, <1>6 DEF IsListFrom
    <3>4. ASSUME NEW i \in DOMAIN s
          PROVE  next'[s[i]] = IF i = Len(s) THEN NULL ELSE s[i + 1]
      <4>1. CASE i = Len(s)
        BY <4>1, <3>1, <3>2, <1>1, <1>4, <1>5
      <4>2. CASE i = Len(n)
        BY <4>2, <3>1, <3>2, <1>4, <1>5, <1>6, <1>3
      <4>3. CASE i # Len(s) /\ i # Len(n)
        <5>1. i \in DOMAIN n /\ i + 1 \in DOMAIN n /\ s[i] = n[i] /\ s[i + 1] = n[i + 1]
          BY <4>3, <1>3, <1>5, <1>6
        <5>2. next[n[i]] = n[i + 1] /\ n[i] # tail
          BY <4>3, <5>1, <3>1, <1>3 DEF IsListFrom
        <5> QED BY <4>3, <5>1, <5>2, <3>2, <1>4, <1>6
      <4> QED BY <4>1, <4>2, <4>3
    <3> QED BY <3>3, <3>4, <1>5 DEF IsListFrom
  <2> QED BY <2>1, <2>2
<1>8. \A i, j \in DOMAIN s : s[i] = s[j] => i = j
  BY <1>1, <1>3, <1>5, <1>6
<1>9. ListFrom(head', next') = s /\ s \in Path
  <2> HIDE DEF s
  <2> QED BY <1>5, <1>7, <1>8, ListIsFound
<1>10. Nodes' = s
  BY <1>9 DEF Nodes
<1> QED BY <1>7, <1>9, <1>10 DEF n

\* TakeHead takes the first node off the list.
LEMMA TakeHeadPops ==
  ASSUME TypeOK, ListInv, NEW t \in Consumer, TakeHead(t)
  PROVE  /\ Nodes # <<>> /\ head = Nodes[1] /\ Nodes' = Tail(Nodes)
         /\ Nodes' \in Path /\ IsListFrom(Nodes', head', next')
<1> DEFINE n == Nodes
           s == Tail(n)
<1>1. n \in Seq(Node) /\ IsListFrom(n, head, next) /\ \A i, j \in DOMAIN n : n[i] = n[j] => i = j
  BY ListFacts
<1>2. head # NULL /\ head' = next[head] /\ next' = next
  BY DEF TakeHead
<1>3. n # <<>> /\ head = n[1]
  BY <1>2, ListFacts
<1> HIDE DEF n
<1>4. s \in Seq(Node) /\ Len(s) = Len(n) - 1 /\ \A i \in DOMAIN s : s[i] = n[i + 1] /\ i + 1 \in DOMAIN n
  BY <1>1, <1>3
<1>5. \A i, j \in DOMAIN s : s[i] = s[j] => i = j
  <2> SUFFICES ASSUME NEW i \in DOMAIN s, NEW j \in DOMAIN s, s[i] = s[j] PROVE i = j
    OBVIOUS
  <2>1. i + 1 = j + 1
    BY <1>1, <1>4
  <2> QED BY <2>1, <1>4
<1>6. IsListFrom(s, head', next')
  <2>1. head' = IF s = <<>> THEN NULL ELSE s[1]
    <3> 1 \in DOMAIN n
      BY <1>1, <1>3
    <3>1. next[n[1]] = IF 1 = Len(n) THEN NULL ELSE n[1 + 1]
      BY <1>1 DEF IsListFrom
    <3> QED BY <3>1, <1>1, <1>2, <1>3, <1>4
  <2>2. ASSUME NEW i \in DOMAIN s
        PROVE  next'[s[i]] = IF i = Len(s) THEN NULL ELSE s[i + 1]
    <3>1. next[n[i + 1]] = IF i + 1 = Len(n) THEN NULL ELSE n[i + 1 + 1]
      BY <1>1, <1>4 DEF IsListFrom
    <3> QED BY <3>1, <1>1, <1>2, <1>4
  <2> QED BY <2>1, <2>2 DEF IsListFrom
<1>7. ListFrom(head', next') = s /\ s \in Path
  <2> HIDE DEF s
  <2> QED BY <1>4, <1>5, <1>6, ListIsFound
<1>8. Nodes' = s
  BY <1>7 DEF Nodes
<1> QED BY <1>3, <1>6, <1>7, <1>8 DEF n

-----------------------------------------------------------------------------
(* The invariant                                                            *)

\* The steps, each with the threads that can take it.
LEMMA NextCases ==
  Next => \/ \E t \in Thread : Lock(t) \/ Unlock(t)
          \/ \E t \in Pusher : Malloc(t) \/ Link(t) \/ SetTail(t) \/ Signal(t)
          \/ \E t \in Popper : Wait(t) \/ WakeUp(t)
          \/ \E t \in TryPopper : AnswerEmpty(t)
          \/ \E t \in Consumer : Call(t) \/ TakeHead(t) \/ FreeTemp(t)
BY DEF Next, Push, Pop, TryPop, Consumer

LEMMA InitHolds == Init => QueueInv
<1> SUFFICES ASSUME Init PROVE QueueInv
  OBVIOUS
<1>1. TypeOK
  BY DEF Init, TypeOK
<1>2. ControlInv
  BY QueueAssumption DEF Init, ControlInv, Critical, Thread, Consumer
<1>3. Nodes = <<>> /\ <<>> \in Path /\ IsListFrom(<<>>, head, next)
  <2> DEFINE s == <<>>
  <2>1. /\ s \in Seq(Node) /\ IsListFrom(s, head, next)
        /\ \A i, j \in DOMAIN s : s[i] = s[j] => i = j
    BY DEF Init, IsListFrom
  <2> HIDE DEF s
  <2>2. ListFrom(head, next) = s /\ s \in Path
    BY <2>1, ListIsFound
  <2> QED BY <2>1, <2>2 DEF Nodes, s
<1>4. ListInv
  <2>1. \A t \in Thread : ~ HasNode(t)
    BY DEF Init, HasNode
  <2>2. NodesAreOwned
    BY <1>3, <2>1 DEF Init, NodesAreOwned
  <2>3. TailInv
    BY <1>3 DEF Init, TailInv
  <2> QED BY <1>3, <2>1, <2>2, <2>3 DEF Init, ListInv, Thread
<1> QED BY <1>1, <1>2, <1>4 DEF QueueInv

LEMMA ControlStep == QueueInv /\ [Next]_vars => ControlInv'
<1> SUFFICES ASSUME QueueInv, [Next]_vars PROVE ControlInv'
  OBVIOUS
<1> USE QueueAssumption DEF QueueInv, TypeOK, ControlInv, Critical, Goto, Thread, Consumer
<1>1. ASSUME NEW t \in Thread, Lock(t) PROVE ControlInv'
  BY <1>1 DEF Lock
<1>2. ASSUME NEW t \in Thread, Unlock(t) PROVE ControlInv'
  BY <1>2 DEF Unlock
<1>3. ASSUME NEW t \in Pusher, Malloc(t) PROVE ControlInv'
  BY <1>3 DEF Malloc
<1>4. ASSUME NEW t \in Pusher, Link(t) PROVE ControlInv'
  BY <1>4 DEF Link
<1>5. ASSUME NEW t \in Pusher, SetTail(t) PROVE ControlInv'
  BY <1>5 DEF SetTail
<1>6. ASSUME NEW t \in Pusher, Signal(t) PROVE ControlInv'
  <2>1. CASE waiting = {}
    BY <1>6, <2>1 DEF Signal
  <2>2. CASE waiting # {}
    BY <1>6, <2>2 DEF Signal
  <2> QED BY <2>1, <2>2
<1>7. ASSUME NEW t \in Popper, Wait(t) PROVE ControlInv'
  BY <1>7 DEF Wait
<1>8. ASSUME NEW t \in Popper, WakeUp(t) PROVE ControlInv'
  BY <1>8 DEF WakeUp
<1>9. ASSUME NEW t \in TryPopper, AnswerEmpty(t) PROVE ControlInv'
  BY <1>9 DEF AnswerEmpty
<1>10. ASSUME NEW t \in Consumer, Call(t) PROVE ControlInv'
  BY <1>10 DEF Call
<1>11. ASSUME NEW t \in Consumer, TakeHead(t) PROVE ControlInv'
  <2>1. head \in allocated /\ head # NULL /\ data[head] \in Value
    BY <1>11 DEF TakeHead, ListInv
  <2> QED BY <1>11, <2>1 DEF TakeHead
<1>12. ASSUME NEW t \in Consumer, FreeTemp(t) PROVE ControlInv'
  BY <1>12 DEF FreeTemp
<1>13. CASE UNCHANGED vars
  BY <1>13 DEF vars, list
<1> QED BY <1>1, <1>2, <1>3, <1>4, <1>5, <1>6, <1>7, <1>8, <1>9, <1>10, <1>11, <1>12, <1>13, NextCases

\* A step that leaves the list alone, and who has which node, keeps ListInv.
LEMMA QuietStep ==
  ASSUME ListInv, UNCHANGED list,
         \A t \in Thread : /\ HasNode(t)' <=> HasNode(t)
                           /\ HasNode(t) => mine'[t] = mine[t],
         \A l \in {"linked", "taken"} :
            /\ owner' # Nobody /\ pc'[owner'] = l <=> owner # Nobody /\ pc[owner] = l
            /\ owner # Nobody /\ pc[owner] = l => owner' = owner /\ mine'[owner] = mine[owner]
  PROVE  ListInv'
<1>1. Nodes' = Nodes /\ IsListFrom(Nodes', head', next')
  BY SameList DEF list
<1>2. NodesAreOwned'
  <2>1. {t \in Thread : HasNode(t)}' = {t \in Thread : HasNode(t)}
    OBVIOUS
  <2>2. {mine[t] : t \in {u \in Thread : HasNode(u)}}' = {mine[t] : t \in {u \in Thread : HasNode(u)}}
    BY <2>1
  <2> QED BY <1>1, <2>1, <2>2 DEF ListInv, NodesAreOwned, list
<1>3. TailInv'
  BY <1>1 DEF ListInv, TailInv, list
<1>4. (\A t \in Pusher : HasNode(t) => next[mine[t]] = NULL)'
  BY DEF ListInv, list, Thread
<1>5. (\A n \in allocated : data[n] \in Value)'
  BY DEF ListInv, list
<1> QED BY <1>1, <1>2, <1>3, <1>4, <1>5 DEF ListInv

LEMMA MallocKeepsList ==
  ASSUME QueueInv, NEW t \in Pusher, Malloc(t) PROVE ListInv' /\ Nodes' = Nodes
<1>1. PICK n \in Node \ allocated, v \in Value :
        /\ allocated' = allocated \union {n}
        /\ data' = [data EXCEPT ![n] = v]
        /\ next' = [next EXCEPT ![n] = NULL]
        /\ mine' = [mine EXCEPT ![t] = n]
  BY DEF Malloc
<1>2. Nodes' = Nodes /\ IsListFrom(Nodes', head', next')
  BY <1>1, SameList, ListFacts DEF QueueInv, TypeOK, Malloc
<1>3. /\ t \in Thread /\ pc[t] = "idle" /\ pc' = [pc EXCEPT ![t] = "lock"] /\ owner' = owner /\ tail' = tail
      /\ owner # t
  BY DEF Malloc, Goto, Thread, QueueInv, ControlInv, Critical
<1>4. /\ HasNode(t)' /\ ~ HasNode(t) /\ mine'[t] = n
      /\ \A u \in Thread \ {t} : (HasNode(u)' <=> HasNode(u)) /\ mine'[u] = mine[u]
  BY <1>1, <1>3, QueueAssumption DEF HasNode, QueueInv, TypeOK
<1>5. NodesAreOwned'
  <2>1. \A u \in Thread : HasNode(u) => mine[u] \in allocated
    BY DEF QueueInv, ListInv, NodesAreOwned
  <2>2. \A i \in DOMAIN Nodes : Nodes[i] \in allocated
    BY ListFacts DEF QueueInv
  <2>3. {mine[u] : u \in {w \in Thread : HasNode(w)}}' = {mine[u] : u \in {w \in Thread : HasNode(w)}} \union {n}
    BY <1>3, <1>4
  <2> QED BY <1>1, <1>2, <1>4, <2>1, <2>2, <2>3 DEF QueueInv, ListInv, NodesAreOwned
<1>6. TailInv'
  BY <1>1, <1>2, <1>3 DEF QueueInv, TypeOK, ListInv, TailInv
<1>7. (\A u \in Pusher : HasNode(u) => next[mine[u]] = NULL)'
  BY <1>1, <1>4 DEF QueueInv, TypeOK, ListInv, Thread
<1>8. (\A m \in allocated : data[m] \in Value)'
  BY <1>1 DEF QueueInv, TypeOK, ListInv
<1> QED BY <1>2, <1>5, <1>6, <1>7, <1>8 DEF QueueInv, ListInv

LEMMA LinkKeepsList ==
  ASSUME QueueInv, NEW t \in Pusher, Link(t) PROVE ListInv'
<1> DEFINE n == Nodes
           m == mine[t]
<1>1. /\ Nodes' = Append(n, m) /\ Nodes' \in Path /\ IsListFrom(Nodes', head', next')
      /\ n \in Seq(Node) /\ \A i, j \in DOMAIN n : n[i] = n[j] => i = j
  BY LinkAppends, ListFacts DEF QueueInv
<1>2. /\ t \in Thread /\ pc[t] = "locked" /\ owner = t /\ owner # Nobody /\ m # NULL /\ m \in Node
      /\ pc' = [pc EXCEPT ![t] = "linked"] /\ UNCHANGED <<owner, tail, mine, data, allocated>>
  BY QueueAssumption DEF Link, Goto, Thread, QueueInv, ControlInv, Critical, TypeOK
<1>3. tail = IF n = <<>> THEN NULL ELSE n[Len(n)]
  BY <1>2 DEF QueueInv, ListInv, TailInv
<1>4. /\ HasNode(t) /\ ~ HasNode(t)'
      /\ \A u \in Thread \ {t} : HasNode(u)' <=> HasNode(u)
  BY <1>2 DEF HasNode, QueueInv, TypeOK
<1>5. /\ \A u, w \in Thread : HasNode(u) /\ HasNode(w) /\ mine[u] = mine[w] => u = w
      /\ \A u \in Thread : HasNode(u) => \A i \in DOMAIN n : mine[u] # n[i]
      /\ allocated = {n[i] : i \in DOMAIN n} \union {mine[u] : u \in {w \in Thread : HasNode(w)}}
  BY DEF QueueInv, ListInv, NodesAreOwned
<1>6. (\A u \in Pusher : HasNode(u) => next[mine[u]] = NULL)'
  <2> SUFFICES ASSUME NEW u \in Pusher, HasNode(u)' PROVE next'[mine[u]] = NULL
    BY <1>2
  <2>1. u \in Thread /\ u # t /\ HasNode(u)
    BY <1>4 DEF Thread
  <2>2. mine[u] # tail /\ next[mine[u]] = NULL
    <3>1. mine[u] # NULL
      BY <2>1 DEF HasNode
    <3>2. n # <<>> => Len(n) \in DOMAIN n
      BY <1>1
    <3> HIDE DEF n
    <3>3. mine[u] # tail
      BY <2>1, <3>1, <3>2, <1>3, <1>5
    <3> QED BY <2>1, <3>3 DEF QueueInv, ListInv
  <2>3. next \in [Node -> Node \union {NULL}] /\ (next' = next \/ next' = [next EXCEPT ![tail] = m])
    BY DEF Link, QueueInv, TypeOK
  <2>4. mine[u] \in Node
    BY <2>1 DEF HasNode, QueueInv, TypeOK
  <2> HIDE DEF m
  <2> QED BY <2>2, <2>3, <2>4
<1>7. (\A x \in allocated : data[x] \in Value)'
  BY <1>2 DEF QueueInv, ListInv
<1> HIDE DEF n, m
<1>8. /\ Len(Nodes') = Len(n) + 1 /\ DOMAIN Nodes' = 1 .. Len(n) + 1 /\ Nodes'[Len(n) + 1] = m
      /\ \A i \in DOMAIN n : Nodes'[i] = n[i] /\ i \in DOMAIN Nodes'
      /\ Nodes' # <<>>
  BY <1>1, <1>2
<1>9. NodesAreOwned'
  <2>1. \A i, j \in DOMAIN Nodes' : Nodes'[i] = Nodes'[j] => i = j
    BY <1>1, <1>2, <1>4, <1>5, <1>8 DEF m
  <2>2. {Nodes[i] : i \in DOMAIN Nodes}' = {n[i] : i \in DOMAIN n} \union {m}
    BY <1>1, <1>8
  <2>3. {mine[u] : u \in {w \in Thread : HasNode(w)}}' \union {m} = {mine[u] : u \in {w \in Thread : HasNode(w)}}
    BY <1>2, <1>4 DEF m
  <2>4. \A u \in Thread : HasNode(u)' => mine'[u] \notin {Nodes[i] : i \in DOMAIN Nodes}'
    BY <1>2, <1>4, <1>5, <2>2 DEF m
  <2>5. \A u, w \in Thread : HasNode(u)' /\ HasNode(w)' /\ mine'[u] = mine'[w] => u = w
    BY <1>2, <1>4, <1>5
  <2> QED BY <1>2, <1>5, <2>1, <2>2, <2>3, <2>4, <2>5 DEF NodesAreOwned
<1>10. TailInv'
  BY <1>1, <1>2, <1>3, <1>8 DEF TailInv, m, QueueInv, TypeOK
<1> QED BY <1>1, <1>6, <1>7, <1>9, <1>10 DEF ListInv

LEMMA SetTailKeepsList ==
  ASSUME QueueInv, NEW t \in Pusher, SetTail(t) PROVE ListInv' /\ Nodes' = Nodes
<1>1. Nodes' = Nodes /\ IsListFrom(Nodes', head', next')
  BY SameList DEF QueueInv, SetTail
<1>2. /\ t \in Thread /\ pc[t] = "linked" /\ owner = t /\ owner # Nobody
      /\ pc' = [pc EXCEPT ![t] = "signal"] /\ tail' = mine[t]
      /\ UNCHANGED <<owner, head, next, mine, data, allocated>>
  BY QueueAssumption DEF SetTail, Goto, Thread, QueueInv, ControlInv, Critical
<1>3. \A u \in Thread : HasNode(u)' <=> HasNode(u)
  BY <1>2 DEF HasNode, QueueInv, TypeOK
<1>4. NodesAreOwned'
  <2>1. {u \in Thread : HasNode(u)}' = {u \in Thread : HasNode(u)}
    BY <1>3
  <2>2. {mine[u] : u \in {w \in Thread : HasNode(w)}}' = {mine[u] : u \in {w \in Thread : HasNode(w)}}
    BY <1>2, <2>1
  <2> QED BY <1>1, <1>2, <2>1, <2>2 DEF QueueInv, ListInv, NodesAreOwned
<1>5. TailInv'
  <2>1. mine[t] = IF Nodes = <<>> THEN NULL ELSE Nodes[Len(Nodes)]
    BY <1>2 DEF QueueInv, ListInv, TailInv
  <2>2. pc'[owner'] = "signal"
    BY <1>2 DEF QueueInv, TypeOK
  <2> QED BY <1>1, <1>2, <2>1, <2>2 DEF TailInv
<1>6. (\A u \in Pusher : HasNode(u) => next[mine[u]] = NULL)'
  BY <1>2, <1>3 DEF QueueInv, ListInv, Thread
<1>7. (\A m \in allocated : data[m] \in Value)'
  BY <1>2 DEF QueueInv, ListInv
<1> QED BY <1>1, <1>4, <1>5, <1>6, <1>7 DEF QueueInv, ListInv

LEMMA TakeHeadKeepsList ==
  ASSUME QueueInv, NEW t \in Consumer, TakeHead(t) PROVE ListInv'
<1> DEFINE n == Nodes
<1>1. /\ n # <<>> /\ head = n[1] /\ Nodes' = Tail(n) /\ Nodes' \in Path /\ IsListFrom(Nodes', head', next')
      /\ n \in Seq(Node) /\ \A i, j \in DOMAIN n : n[i] = n[j] => i = j
  BY TakeHeadPops, ListFacts DEF QueueInv
<1>2. /\ t \in Thread /\ t \notin Pusher /\ pc[t] = "locked" /\ owner = t /\ owner # Nobody
      /\ pc' = [pc EXCEPT ![t] = "taken"] /\ mine' = [mine EXCEPT ![t] = head] /\ head # NULL
      /\ UNCHANGED <<owner, tail, next, data, allocated>>
  BY QueueAssumption DEF TakeHead, Goto, Thread, QueueInv, ControlInv, Critical
<1>3. tail = n[Len(n)]
  BY <1>1, <1>2 DEF QueueInv, ListInv, TailInv
<1>4. /\ ~ HasNode(t) /\ HasNode(t)' /\ mine'[t] = head
      /\ \A u \in Thread \ {t} : (HasNode(u)' <=> HasNode(u)) /\ mine'[u] = mine[u]
  BY <1>2 DEF HasNode, QueueInv, TypeOK
<1>5. /\ \A u, w \in Thread : HasNode(u) /\ HasNode(w) /\ mine[u] = mine[w] => u = w
      /\ \A u \in Thread : HasNode(u) => \A i \in DOMAIN n : mine[u] # n[i]
      /\ allocated = {n[i] : i \in DOMAIN n} \union {mine[u] : u \in {w \in Thread : HasNode(w)}}
  BY DEF QueueInv, ListInv, NodesAreOwned
<1>6. (\A u \in Pusher : HasNode(u) => next[mine[u]] = NULL)'
  <2> SUFFICES ASSUME NEW u \in Pusher, HasNode(u)' PROVE next[mine'[u]] = NULL
    BY <1>2
  <2>1. u \in Thread \ {t}
    BY <1>2 DEF Thread
  <2> QED BY <1>4, <2>1 DEF QueueInv, ListInv
<1>7. (\A x \in allocated : data[x] \in Value)'
  BY <1>2 DEF QueueInv, ListInv
<1> HIDE DEF n
<1>8. /\ Len(Nodes') = Len(n) - 1 /\ 1 \in DOMAIN n
      /\ \A i \in DOMAIN Nodes' : Nodes'[i] = n[i + 1] /\ i + 1 \in DOMAIN n /\ i \in Nat /\ i # 0
      /\ \A i \in DOMAIN n : i = 1 \/ (i - 1 \in DOMAIN Nodes' /\ Nodes'[i - 1] = n[i])
      /\ Nodes' \in Seq(Node)
  BY <1>1
<1>9. NodesAreOwned'
  <2>1. \A i, j \in DOMAIN Nodes' : Nodes'[i] = Nodes'[j] => i = j
    <3> SUFFICES ASSUME NEW i \in DOMAIN Nodes', NEW j \in DOMAIN Nodes', Nodes'[i] = Nodes'[j] PROVE i = j
      OBVIOUS
    <3>1. i + 1 = j + 1
      BY <1>1, <1>8
    <3> QED BY <3>1, <1>8
  <2>2. {Nodes[i] : i \in DOMAIN Nodes}' = {n[i] : i \in DOMAIN n} \ {head}
    <3>1. ASSUME NEW i \in DOMAIN Nodes' PROVE Nodes'[i] \in {n[j] : j \in DOMAIN n} \ {head}
      <4>1. i + 1 \in DOMAIN n /\ i + 1 # 1 /\ Nodes'[i] = n[i + 1]
        BY <1>8
      <4> QED BY <4>1, <1>1, <1>8
    <3>2. ASSUME NEW i \in DOMAIN n, n[i] # head PROVE \E j \in DOMAIN Nodes' : Nodes'[j] = n[i]
      BY <3>2, <1>1, <1>8
    <3> QED BY <3>1, <3>2
  <2>3. {mine[u] : u \in {w \in Thread : HasNode(w)}}' = {mine[u] : u \in {w \in Thread : HasNode(w)}} \union {head}
    BY <1>2, <1>4
  <2>4. head \in {n[i] : i \in DOMAIN n}
    BY <1>1, <1>8
  <2>5. \A u \in Thread : HasNode(u)' => mine'[u] \notin {Nodes[i] : i \in DOMAIN Nodes}'
    BY <1>4, <1>5, <2>2
  <2>6. \A u, w \in Thread : HasNode(u)' /\ HasNode(w)' /\ mine'[u] = mine'[w] => u = w
    BY <1>1, <1>4, <1>5, <1>8
  <2> QED BY <1>2, <1>5, <2>1, <2>2, <2>3, <2>4, <2>5, <2>6 DEF NodesAreOwned
<1>10. TailInv'
  <2>1. pc'[owner'] = "taken" /\ owner' # Nobody /\ mine'[owner'] = head
    BY <1>2, <1>4 DEF QueueInv, TypeOK
  <2>2. tail' = IF Nodes' = <<>> THEN head ELSE Nodes'[Len(Nodes')]
    <3>1. CASE Len(n) = 1
      BY <3>1, <1>1, <1>2, <1>3, <1>8
    <3>2. CASE Len(n) # 1
      <4>1. Len(n) \in DOMAIN n /\ Len(n) - 1 \in DOMAIN Nodes' /\ Nodes' # <<>>
        BY <3>2, <1>1, <1>8
      <4> QED BY <3>2, <4>1, <1>2, <1>3, <1>8
    <3> QED BY <3>1, <3>2
  <2> QED BY <2>1, <2>2 DEF TailInv
<1> QED BY <1>1, <1>6, <1>7, <1>9, <1>10 DEF ListInv

LEMMA FreeTempKeepsList ==
  ASSUME QueueInv, NEW t \in Consumer, FreeTemp(t) PROVE ListInv' /\ Nodes' = Nodes
<1> DEFINE n == Nodes
           m == mine[t]
<1>1. /\ t \in Thread /\ t \notin Pusher /\ pc[t] = "taken" /\ owner = t /\ owner # Nobody
      /\ m # NULL /\ m \in Node
      /\ pc' = [pc EXCEPT ![t] = "unlock"] /\ UNCHANGED <<owner, head, mine>>
      /\ tail' = IF head = NULL THEN NULL ELSE tail
      /\ allocated' = allocated \ {m}
      /\ next' = [next EXCEPT ![m] = NULL] /\ data' = [data EXCEPT ![m] = NULL]
  BY QueueAssumption DEF FreeTemp, Free, Goto, Thread, QueueInv, ControlInv, Critical, TypeOK
<1>2. /\ HasNode(t) /\ ~ HasNode(t)'
      /\ \A u \in Thread \ {t} : HasNode(u)' <=> HasNode(u)
  BY <1>1 DEF HasNode, QueueInv, TypeOK
<1>3. /\ \A u, w \in Thread : HasNode(u) /\ HasNode(w) /\ mine[u] = mine[w] => u = w
      /\ \A u \in Thread : HasNode(u) => \A i \in DOMAIN n : mine[u] # n[i]
      /\ allocated = {n[i] : i \in DOMAIN n} \union {mine[u] : u \in {w \in Thread : HasNode(w)}}
      /\ \A i, j \in DOMAIN n : n[i] = n[j] => i = j
  BY DEF QueueInv, ListInv, NodesAreOwned
<1>4. Nodes' = n /\ IsListFrom(Nodes', head', next') /\ (head = NULL <=> n = <<>>)
  BY <1>1, <1>2, <1>3, SameList, ListFacts DEF QueueInv, TypeOK
<1>5. (\A u \in Pusher : HasNode(u) => next[mine[u]] = NULL)'
  BY <1>1, <1>2 DEF QueueInv, TypeOK, ListInv, Thread
<1>6. (\A x \in allocated : data[x] \in Value)'
  BY <1>1 DEF QueueInv, TypeOK, ListInv
<1>7. TailInv'
  <2>1. tail = IF n = <<>> THEN m ELSE n[Len(n)]
    BY <1>1 DEF QueueInv, ListInv, TailInv
  <2>2. pc'[owner'] = "unlock"
    BY <1>1 DEF QueueInv, TypeOK
  <2> QED BY <1>1, <1>4, <2>1, <2>2 DEF TailInv
<1>8. NodesAreOwned'
  <2>1. {mine[u] : u \in {w \in Thread : HasNode(w)}}' = {mine[u] : u \in {w \in Thread : HasNode(w)}} \ {m}
    BY <1>1, <1>2, <1>3
  <2>2. m \notin {n[i] : i \in DOMAIN n}
    BY <1>1, <1>2, <1>3
  <2>3. \A u \in Thread : HasNode(u)' => mine'[u] \notin {Nodes[i] : i \in DOMAIN Nodes}'
    BY <1>1, <1>2, <1>3, <1>4
  <2>4. \A u, w \in Thread : HasNode(u)' /\ HasNode(w)' /\ mine'[u] = mine'[w] => u = w
    BY <1>1, <1>2, <1>3
  <2> HIDE DEF n, m
  <2> QED BY <1>1, <1>3, <1>4, <2>1, <2>2, <2>3, <2>4 DEF NodesAreOwned
<1> QED BY <1>4, <1>5, <1>6, <1>7, <1>8 DEF QueueInv, ListInv

LEMMA ListStep == QueueInv /\ [Next]_vars => ListInv'
<1> SUFFICES ASSUME QueueInv, [Next]_vars PROVE ListInv'
  OBVIOUS
<1> DEFINE Quiet ==
      /\ UNCHANGED list
      /\ \A t \in Thread : (HasNode(t)' <=> HasNode(t)) /\ (HasNode(t) => mine'[t] = mine[t])
      /\ \A l \in {"linked", "taken"} :
           /\ owner' # Nobody /\ pc'[owner'] = l <=> owner # Nobody /\ pc[owner] = l
           /\ owner # Nobody /\ pc[owner] = l => owner' = owner /\ mine'[owner] = mine[owner]
<1>q. Quiet => ListInv'
  BY QuietStep DEF QueueInv
<1>1. ASSUME NEW t \in Thread, Lock(t) PROVE Quiet
  BY <1>1, QueueAssumption DEF Lock, Goto, HasNode, QueueInv, TypeOK, ControlInv, Thread
<1>2. ASSUME NEW t \in Thread, Unlock(t) PROVE Quiet
  BY <1>2, QueueAssumption DEF Unlock, Goto, HasNode, QueueInv, TypeOK, ControlInv, Thread, Critical
<1>3. ASSUME NEW t \in Pusher, Signal(t) PROVE Quiet
  <2> t \in Thread /\ owner = t /\ t \notin waiting
    BY <1>3 DEF Signal, Thread, QueueInv, ControlInv, Critical
  <2>1. CASE waiting = {}
    BY <1>3, <2>1, QueueAssumption DEF Signal, Goto, HasNode, QueueInv, TypeOK, ControlInv, Thread
  <2>2. CASE waiting # {}
    <3>1. PICK w \in waiting : pc' = [pc EXCEPT ![t] = "unlock", ![w] = "lock"]
      BY <1>3, <2>2 DEF Signal
    <3>2. w \in Popper /\ w \in Thread /\ w \notin Pusher /\ pc[w] = "asleep" /\ w # t
      BY QueueAssumption DEF QueueInv, TypeOK, ControlInv, Thread, Consumer
    <3> QED BY <1>3, <3>1, <3>2, QueueAssumption DEF Signal, HasNode, QueueInv, TypeOK
  <2> QED BY <2>1, <2>2
<1>4. ASSUME NEW t \in Popper, Wait(t) PROVE Quiet
  BY <1>4, QueueAssumption DEF Wait, Goto, HasNode, QueueInv, TypeOK, ControlInv, Thread, Consumer, Critical
<1>5. ASSUME NEW t \in Popper, WakeUp(t) PROVE Quiet
  BY <1>5, QueueAssumption DEF WakeUp, Goto, HasNode, QueueInv, TypeOK, ControlInv, Thread, Consumer, Critical
<1>6. ASSUME NEW t \in TryPopper, AnswerEmpty(t) PROVE Quiet
  BY <1>6, QueueAssumption DEF AnswerEmpty, Goto, HasNode, QueueInv, TypeOK, ControlInv, Thread, Consumer, Critical
<1>7. ASSUME NEW t \in Consumer, Call(t) PROVE Quiet
  BY <1>7, QueueAssumption DEF Call, Goto, HasNode, QueueInv, TypeOK, ControlInv, Thread, Critical
<1>8. CASE UNCHANGED vars
  BY <1>8, <1>q DEF vars, list, HasNode
<1> HIDE DEF Quiet
<1>9. CASE Next
  BY <1>9, <1>q, <1>1, <1>2, <1>3, <1>4, <1>5, <1>6, <1>7, NextCases,
     MallocKeepsList, LinkKeepsList, SetTailKeepsList, TakeHeadKeepsList, FreeTempKeepsList
<1> QED BY <1>8, <1>9

LEMMA TypeStep == QueueInv /\ [Next]_vars => TypeOK'
<1> SUFFICES ASSUME QueueInv, [Next]_vars PROVE TypeOK'
  OBVIOUS
<1>h. /\ head = NULL <=> Nodes = <<>>
      /\ Nodes # <<>> => Nodes[Len(Nodes)] \in allocated /\ Len(Nodes) \in DOMAIN Nodes
      /\ \A i \in DOMAIN Nodes : Nodes[i] \in allocated /\ Nodes[i] # NULL
  BY ListFacts, QueueAssumption DEF QueueInv, TypeOK
<1> USE QueueAssumption DEF TypeOK, Goto, list
<1>1. ASSUME NEW t \in Thread, Lock(t) PROVE TypeOK'
  BY <1>1 DEF Lock, QueueInv
<1>2. ASSUME NEW t \in Thread, Unlock(t) PROVE TypeOK'
  BY <1>2 DEF Unlock, QueueInv
<1>3. ASSUME NEW t \in Pusher, Malloc(t) PROVE TypeOK'
  <2>1. t \in Thread
    BY DEF Thread
  <2> QED BY <1>3, <2>1 DEF Malloc, QueueInv
<1>4. ASSUME NEW t \in Pusher, Link(t) PROVE TypeOK'
  <2>1. t \in Thread /\ mine[t] \in allocated /\ mine[t] \in Node
    <3>1. t \in Thread /\ HasNode(t)
      BY <1>4 DEF Link, HasNode, QueueInv, ControlInv, Thread
    <3> QED BY <3>1 DEF QueueInv, ListInv, NodesAreOwned
  <2> QED BY <1>4, <2>1 DEF Link, QueueInv
<1>5. ASSUME NEW t \in Pusher, SetTail(t) PROVE TypeOK'
  <2>1. t \in Thread /\ mine[t] \in allocated \union {NULL}
    <3>1. t \in Thread /\ owner = t /\ owner # Nobody /\ pc[owner] = "linked"
      BY <1>5 DEF SetTail, QueueInv, ControlInv, Thread, Critical
    <3>2. mine[t] = IF Nodes = <<>> THEN NULL ELSE Nodes[Len(Nodes)]
      BY <3>1 DEF QueueInv, ListInv, TailInv
    <3> QED BY <3>1, <3>2, <1>h
  <2> QED BY <1>5, <2>1 DEF SetTail, QueueInv
<1>6. ASSUME NEW t \in Pusher, Signal(t) PROVE TypeOK'
  <2>1. CASE waiting = {}
    BY <1>6, <2>1 DEF Signal, QueueInv
  <2>2. CASE waiting # {}
    BY <1>6, <2>2 DEF Signal, QueueInv
  <2> QED BY <2>1, <2>2
<1>7. ASSUME NEW t \in Popper, Wait(t) PROVE TypeOK'
  BY <1>7 DEF Wait, QueueInv, Thread, Consumer
<1>8. ASSUME NEW t \in Popper, WakeUp(t) PROVE TypeOK'
  BY <1>8 DEF WakeUp, QueueInv
<1>9. ASSUME NEW t \in TryPopper, AnswerEmpty(t) PROVE TypeOK'
  BY <1>9 DEF AnswerEmpty, QueueInv
<1>10. ASSUME NEW t \in Consumer, Call(t) PROVE TypeOK'
  BY <1>10 DEF Call, QueueInv
<1>11. ASSUME NEW t \in Consumer, TakeHead(t) PROVE TypeOK'
  <2>1. head \in Node /\ next[head] \in allocated \union {NULL}
    <3>1. head # NULL /\ 1 \in DOMAIN Nodes /\ head = Nodes[1] /\ Nodes \in Seq(Node)
      BY <1>11, ListFacts DEF TakeHead, QueueInv
    <3>2. next[head] = IF 1 = Len(Nodes) THEN NULL ELSE Nodes[1 + 1]
      BY <3>1, ListFacts DEF IsListFrom, QueueInv
    <3>3. 1 # Len(Nodes) => 1 + 1 \in DOMAIN Nodes
      <4> DEFINE n == Nodes
      <4>1. n \in Seq(Node) /\ 1 \in DOMAIN n
        BY <3>1
      <4> HIDE DEF n
      <4>2. 1 # Len(n) => 1 + 1 \in DOMAIN n
        <5>1. DOMAIN n = 1 .. Len(n) /\ Len(n) \in Nat
          BY <4>1
        <5>2. 1 <= Len(n)
          BY <4>1, <5>1
        <5>3. 1 # Len(n) => 2 \in 1 .. Len(n)
          BY <5>1, <5>2
        <5> QED BY <5>1, <5>3
      <4> QED BY <4>2 DEF n
    <3> QED BY <3>1, <3>2, <3>3, <1>h DEF QueueInv
  <2> QED BY <1>11, <2>1 DEF TakeHead, QueueInv
<1>12. ASSUME NEW t \in Consumer, FreeTemp(t) PROVE TypeOK'
  <2>1. /\ t \in Thread /\ HasNode(t) /\ owner = t /\ owner # Nobody /\ pc[owner] = "taken"
    BY <1>12 DEF FreeTemp, HasNode, QueueInv, ControlInv, Thread, Critical
  <2>2. \A i \in DOMAIN Nodes : Nodes[i] # mine[t]
    BY <2>1 DEF QueueInv, ListInv, NodesAreOwned
  <2>3. head # NULL => head \in allocated \ {mine[t]}
    BY <2>2, <1>h, ListFacts DEF QueueInv
  <2>4. head # NULL => tail \in allocated \ {mine[t]}
    BY <2>1, <2>2, <1>h DEF QueueInv, ListInv, TailInv
  <2> QED BY <1>12, <2>3, <2>4 DEF FreeTemp, Free, QueueInv
<1>13. CASE UNCHANGED vars
  BY <1>13 DEF vars, QueueInv
<1> QED BY <1>1, <1>2, <1>3, <1>4, <1>5, <1>6, <1>7, <1>8, <1>9, <1>10, <1>11, <1>12, <1>13, NextCases

\* The list is sound between any two accesses to it, whatever the threads do.
THEOREM QueueInvariance == Spec => []QueueInv
<1>1. QueueInv /\ [Next]_vars => QueueInv'
  BY TypeStep, ControlStep, ListStep DEF QueueInv
<1> QED BY InitHolds, <1>1, PTL DEF Spec

\* head and tail never point to memory that was freed (safe_queue.c:11-12, 36-41).
THEOREM QueueTypeCorrectness == Spec => []TypeOK
<1>1. QueueInv => TypeOK
  BY DEF QueueInv
<1> QED BY <1>1, QueueInvariance, PTL

\* tail is the end of the list whenever the mutex is free, so that the next push
\* links its node to the list (safe_queue.c:11-17).
THEOREM TailIsTheEnd == Spec => []ListEndsAtTail
<1>1. QueueInv => ListEndsAtTail
  <2> SUFFICES ASSUME QueueInv, owner = Nobody PROVE ListEndsAtTail
    BY DEF ListEndsAtTail
  <2>1. tail = IF Nodes = <<>> THEN NULL ELSE Nodes[Len(Nodes)]
    BY DEF QueueInv, ListInv, TailInv
  <2>2. head # NULL => Len(Nodes) \in DOMAIN Nodes
    BY ListFacts DEF QueueInv
  <2>3. head # NULL => next[Nodes[Len(Nodes)]] = NULL
    BY <2>2, ListFacts DEF QueueInv, IsListFrom
  <2> QED BY <2>1, <2>3, ListFacts DEF QueueInv, ListEndsAtTail
<1> QED BY <1>1, QueueInvariance, PTL

\* No node is leaked and none is freed twice (safe_queue.c:5-6, 41, 62).
THEOREM EveryNodeIsOwned == Spec => []NodesAreOwned
<1>1. QueueInv => NodesAreOwned
  BY DEF QueueInv, ListInv
<1> QED BY <1>1, QueueInvariance, PTL

-----------------------------------------------------------------------------
(* Wake-ups                                                                 *)

LEMMA SetsOfThreads ==
  \A S \in SUBSET Thread : IsFiniteSet(S) /\ Cardinality(S) \in Nat
BY QueueAssumption, FS_Subset, FS_CardinalityType

\* One thread more, and one thread less.
LEMMA OneMore ==
  ASSUME NEW S \in SUBSET Thread, NEW t \in Thread, t \notin S
  PROVE  Cardinality(S \union {t}) = Cardinality(S) + 1
BY SetsOfThreads, FS_AddElement

LEMMA OneLess ==
  ASSUME NEW S \in SUBSET Thread, NEW t \in S
  PROVE  Cardinality(S \ {t}) = Cardinality(S) - 1
BY SetsOfThreads, FS_RemoveElement

LEMMA WakeUpStep == QueueInv /\ NoWakeUpIsLost /\ [Next]_vars => NoWakeUpIsLost'
<1> SUFFICES ASSUME QueueInv, NoWakeUpIsLost, [Next]_vars, waiting' # {}
             PROVE  Len(Nodes') <= Cardinality(Awake') + Cardinality(Signalling')
  BY DEF NoWakeUpIsLost
<1> DEFINE Goal == Len(Nodes') <= Cardinality(Awake') + Cardinality(Signalling')
<1>s. /\ Awake \in SUBSET Thread /\ Signalling \in SUBSET Thread
      /\ Awake' \in SUBSET Thread /\ Signalling' \in SUBSET Thread
  BY DEF Awake, Signalling, Thread, Consumer
<1>c. /\ Cardinality(Awake) \in Nat /\ Cardinality(Signalling) \in Nat
      /\ Cardinality(Awake') \in Nat /\ Cardinality(Signalling') \in Nat
  BY <1>s, SetsOfThreads
<1>n. Nodes \in Seq(Node) /\ Len(Nodes) \in Nat
  BY ListFacts DEF QueueInv
<1> USE QueueAssumption DEF Goto, Thread, Consumer
<1>same. ASSUME waiting # {}, Nodes' = Nodes, Awake' = Awake, Signalling' = Signalling PROVE Goal
  BY <1>same DEF NoWakeUpIsLost
<1>1. ASSUME NEW t \in Thread, Lock(t) PROVE Goal
  <2>1. Nodes' = Nodes
    BY <1>1 DEF Lock, Nodes, list
  <2>2. Awake' = Awake /\ Signalling' = Signalling /\ waiting # {}
    BY <1>1 DEF Lock, Awake, Signalling, QueueInv, TypeOK
  <2> QED BY <2>1, <2>2, <1>same
<1>2. ASSUME NEW t \in Thread, Unlock(t) PROVE Goal
  <2>1. Nodes' = Nodes
    BY <1>2 DEF Unlock, Nodes, list
  <2>2. Awake' = Awake /\ Signalling' = Signalling /\ waiting # {}
    BY <1>2 DEF Unlock, Awake, Signalling, QueueInv, TypeOK
  <2> QED BY <2>1, <2>2, <1>same
<1>3. ASSUME NEW t \in Pusher, Malloc(t) PROVE Goal
  <2>1. Nodes' = Nodes
    BY <1>3, MallocKeepsList
  <2>2. Awake' = Awake /\ Signalling' = Signalling /\ waiting # {}
    BY <1>3 DEF Malloc, Awake, Signalling, QueueInv, TypeOK
  <2> QED BY <2>1, <2>2, <1>same
<1>4. ASSUME NEW t \in Pusher, Link(t) PROVE Goal
  <2>1. Nodes' = Append(Nodes, mine[t])
    BY <1>4, LinkAppends DEF QueueInv
  <2>2. Len(Nodes') = Len(Nodes) + 1
    <3>1. mine[t] \in Node
      BY <1>4 DEF Link, QueueInv, TypeOK, ControlInv
    <3> QED BY <2>1, <3>1, <1>n
  <2>3. Awake' = Awake /\ waiting # {} /\ t \notin Signalling /\ Signalling' = Signalling \union {t}
    BY <1>4 DEF Link, Awake, Signalling, QueueInv, TypeOK
  <2>4. Cardinality(Signalling') = Cardinality(Signalling) + 1
    BY <2>3, <1>s, OneMore
  <2> QED BY <2>2, <2>3, <2>4, <1>c, <1>n DEF NoWakeUpIsLost
<1>5. ASSUME NEW t \in Pusher, SetTail(t) PROVE Goal
  <2>1. Nodes' = Nodes
    BY <1>5, SetTailKeepsList
  <2>2. Awake' = Awake /\ Signalling' = Signalling /\ waiting # {}
    BY <1>5 DEF SetTail, Awake, Signalling, QueueInv, TypeOK
  <2> QED BY <2>1, <2>2, <1>same
<1>6. ASSUME NEW t \in Pusher, Signal(t) PROVE Goal
  <2>1. waiting # {} /\ Nodes' = Nodes
    BY <1>6 DEF Signal, Nodes, list
  <2>2. PICK w \in waiting : pc' = [pc EXCEPT ![t] = "unlock", ![w] = "lock"]
    BY <1>6, <2>1 DEF Signal
  <2>3. w \in Popper /\ pc[w] = "asleep" /\ w \notin Pusher /\ t \notin Popper /\ pc[t] = "signal" /\ w # t
    BY <1>6 DEF Signal, QueueInv, TypeOK, ControlInv
  <2>4. w \notin Awake /\ Awake' = Awake \union {w}
    BY <2>2, <2>3 DEF Awake, QueueInv, TypeOK
  <2>5. t \in Signalling /\ Signalling' = Signalling \ {t}
    BY <2>2, <2>3 DEF Signalling, QueueInv, TypeOK
  <2>6. /\ Cardinality(Awake') = Cardinality(Awake) + 1
        /\ Cardinality(Signalling') = Cardinality(Signalling) - 1
    <3>1. w \in Thread
      BY <2>3
    <3> QED BY <3>1, <2>4, <2>5, <1>s, OneMore, OneLess
  <2> QED BY <2>1, <2>6, <1>c, <1>n DEF NoWakeUpIsLost
<1>7. ASSUME NEW t \in Popper, Wait(t) PROVE Goal
  <2>1. Nodes' = Nodes /\ Nodes = <<>>
    BY <1>7, ListFacts DEF Wait, Nodes, list, QueueInv
  <2> QED BY <2>1, <1>c
<1>8. ASSUME NEW t \in Popper, WakeUp(t) PROVE Goal
  <2>1. waiting # {} /\ Nodes' = Nodes
    BY <1>8 DEF WakeUp, Nodes, list
  <2>2. t \notin Awake /\ Awake' = Awake \union {t} /\ Signalling' = Signalling
    BY <1>8 DEF WakeUp, Awake, Signalling, QueueInv, TypeOK, ControlInv
  <2>3. Cardinality(Awake') = Cardinality(Awake) + 1
    BY <2>2, <1>s, OneMore
  <2> QED BY <2>1, <2>2, <2>3, <1>c, <1>n DEF NoWakeUpIsLost
<1>9. ASSUME NEW t \in TryPopper, AnswerEmpty(t) PROVE Goal
  <2>1. Nodes' = Nodes
    BY <1>9 DEF AnswerEmpty, Nodes, list
  <2>2. Awake' = Awake /\ Signalling' = Signalling /\ waiting # {}
    BY <1>9 DEF AnswerEmpty, Awake, Signalling, QueueInv, TypeOK
  <2> QED BY <2>1, <2>2, <1>same
<1>10. ASSUME NEW t \in Consumer, Call(t) PROVE Goal
  <2>1. Nodes' = Nodes /\ waiting # {}
    BY <1>10 DEF Call, Nodes, list
  <2>2. Signalling' = Signalling /\ Awake \subseteq Awake'
    BY <1>10 DEF Call, Awake, Signalling, QueueInv, TypeOK
  <2>3. Cardinality(Awake) <= Cardinality(Awake')
    BY <2>2, <1>s, SetsOfThreads, FS_Subset
  <2> QED BY <2>1, <2>2, <2>3, <1>c, <1>n DEF NoWakeUpIsLost
<1>11. ASSUME NEW t \in Consumer, TakeHead(t) PROVE Goal
  <2>1. Nodes' = Tail(Nodes) /\ Nodes # <<>>
    BY <1>11, TakeHeadPops DEF QueueInv
  <2>2. Len(Nodes') = Len(Nodes) - 1
    <3> DEFINE n == Nodes
    <3>1. n \in Seq(Node) /\ n # <<>> /\ Nodes' = Tail(n)
      BY <1>n, <2>1
    <3> HIDE DEF n
    <3>2. Len(Nodes') = Len(n) - 1
      BY <3>1
    <3> QED BY <3>2 DEF n
  <2>3. Signalling' = Signalling /\ waiting # {}
    BY <1>11 DEF TakeHead, Signalling, QueueInv, TypeOK
  <2>4. Cardinality(Awake') >= Cardinality(Awake) - 1
    <3>1. CASE t \in Popper
      <4>1. t \in Awake /\ Awake' = Awake \ {t}
        BY <1>11, <3>1 DEF TakeHead, Awake, QueueInv, TypeOK
      <4>2. Cardinality(Awake') = Cardinality(Awake) - 1
        BY <4>1, <1>s, OneLess
      <4> QED BY <4>2, <1>c
    <3>2. CASE t \notin Popper
      <4>1. Awake' = Awake
        BY <1>11, <3>2 DEF TakeHead, Awake, QueueInv, TypeOK
      <4> QED BY <4>1, <1>c
    <3> QED BY <3>1, <3>2
  <2> QED BY <2>2, <2>3, <2>4, <1>c, <1>n DEF NoWakeUpIsLost
<1>12. ASSUME NEW t \in Consumer, FreeTemp(t) PROVE Goal
  <2>1. Nodes' = Nodes
    BY <1>12, FreeTempKeepsList
  <2>2. Awake' = Awake /\ Signalling' = Signalling /\ waiting # {}
    BY <1>12 DEF FreeTemp, Awake, Signalling, QueueInv, TypeOK
  <2> QED BY <2>1, <2>2, <1>same
<1>13. CASE UNCHANGED vars
  <2>1. Nodes' = Nodes /\ Awake' = Awake /\ Signalling' = Signalling /\ waiting # {}
    BY <1>13 DEF vars, list, Nodes, Awake, Signalling
  <2> QED BY <2>1, <1>same
<1> HIDE DEF Goal
<1> QED BY <1>1, <1>2, <1>3, <1>4, <1>5, <1>6, <1>7, <1>8, <1>9, <1>10, <1>11, <1>12, <1>13, NextCases DEF Goal

\* While poppers sleep, there is for every value in the queue one that is awake or
\* a signal to come, with any number of pushers and poppers (safe_queue.c:19-31).
THEOREM NoWakeUpLost == Spec => []NoWakeUpIsLost
<1>1. Init => NoWakeUpIsLost
  BY DEF Init, NoWakeUpIsLost
<1> QED BY <1>1, WakeUpStep, QueueInvariance, PTL DEF Spec

-----------------------------------------------------------------------------
(* The queue that the list implements                                       *)

LEMMA ContentsStay ==
  ASSUME Nodes' = Nodes, \A i \in DOMAIN Nodes : data'[Nodes[i]] = data[Nodes[i]]
  PROVE  Contents' = Contents
BY DEF Contents

LEMMA ContentsFacts ==
  ASSUME QueueInv
  PROVE  /\ Contents \in Seq(Value) /\ Len(Contents) = Len(Nodes)
         /\ \A i \in DOMAIN Nodes : Contents[i] = data[Nodes[i]]
         /\ Contents = <<>> <=> Nodes = <<>>
<1> DEFINE n == Nodes
<1>1. n \in Seq(Node) /\ \A i \in DOMAIN n : data[n[i]] \in Value
  BY ListFacts DEF QueueInv, ListInv
<1>2. Contents = [i \in DOMAIN n |-> data[n[i]]]
  BY DEF Contents
<1> HIDE DEF n
<1>3. Contents \in Seq(Value) /\ Len(Contents) = Len(n)
  BY <1>1, <1>2
<1>4. Contents = <<>> <=> n = <<>>
  BY <1>1, <1>3
<1> QED BY <1>2, <1>3, <1>4 DEF n

LEMMA LinkPuts ==
  ASSUME QueueInv, NEW t \in Pusher, Link(t)
  PROVE  Contents' = Append(Contents, data[mine[t]]) /\ data[mine[t]] \in Value
<1> DEFINE n == Nodes
           m == mine[t]
<1>1. Nodes' = Append(n, m) /\ data' = data /\ n \in Seq(Node)
  BY LinkAppends, ListFacts DEF QueueInv, Link
<1>2. m \in Node /\ data[m] \in Value
  <2>1. t \in Thread /\ HasNode(t)
    BY DEF Link, HasNode, Thread, QueueInv, ControlInv
  <2>2. m \in allocated
    BY <2>1 DEF QueueInv, ListInv, NodesAreOwned
  <2> QED BY <2>2 DEF QueueInv, ListInv, TypeOK
<1>3. /\ Contents \in Seq(Value) /\ Len(Contents) = Len(n)
      /\ \A i \in DOMAIN n : Contents[i] = data[n[i]]
  BY ContentsFacts
<1>4. Contents' = [i \in DOMAIN Nodes' |-> data'[Nodes'[i]]]
  BY DEF Contents
<1> HIDE DEF n, m
<1>5. DOMAIN Nodes' = 1 .. Len(n) + 1 /\ \A i \in 1 .. Len(n) + 1 : Nodes'[i] = IF i = Len(n) + 1 THEN m ELSE n[i]
  BY <1>1, <1>2
<1>6. Append(Contents, data[m]) = [i \in 1 .. Len(n) + 1 |-> IF i = Len(n) + 1 THEN data[m] ELSE Contents[i]]
  BY <1>2, <1>3
<1>7. \A i \in 1 .. Len(n) + 1 : data'[Nodes'[i]] = IF i = Len(n) + 1 THEN data[m] ELSE Contents[i]
  BY <1>1, <1>3, <1>5
<1>8. Contents' = Append(Contents, data[m])
  BY <1>4, <1>5, <1>6, <1>7
<1> QED BY <1>2, <1>8 DEF m

LEMMA TakeHeadTakes ==
  ASSUME QueueInv, NEW t \in Consumer, TakeHead(t)
  PROVE  Contents # <<>> /\ data[head] = Head(Contents) /\ Contents' = Tail(Contents)
<1> DEFINE n == Nodes
<1>1. n # <<>> /\ head = n[1] /\ Nodes' = Tail(n) /\ data' = data /\ n \in Seq(Node)
  BY TakeHeadPops, ListFacts DEF QueueInv, TakeHead
<1>2. /\ Contents \in Seq(Value) /\ Len(Contents) = Len(n)
      /\ \A i \in DOMAIN n : Contents[i] = data[n[i]]
  BY ContentsFacts
<1>3. Contents' = [i \in DOMAIN Nodes' |-> data'[Nodes'[i]]]
  BY DEF Contents
<1> HIDE DEF n
<1>4. Contents # <<>> /\ 1 \in DOMAIN n
  BY <1>1, <1>2
<1>5. DOMAIN Nodes' = 1 .. Len(n) - 1 /\ \A i \in 1 .. Len(n) - 1 : Nodes'[i] = n[i + 1] /\ i + 1 \in DOMAIN n
  BY <1>1
<1>6. Tail(Contents) = [i \in 1 .. Len(n) - 1 |-> Contents[i + 1]]
  <2> DEFINE c == Contents
  <2>1. c \in Seq(Value) /\ c # <<>> /\ Len(c) = Len(n)
    BY <1>2, <1>4
  <2> HIDE DEF c
  <2>2. /\ Tail(c) \in Seq(Value) /\ Len(Tail(c)) = Len(c) - 1
        /\ \A i \in 1 .. Len(c) - 1 : Tail(c)[i] = c[i + 1]
    BY <2>1
  <2>3. Tail(c) = [i \in 1 .. Len(c) - 1 |-> c[i + 1]]
    <3>1. ASSUME NEW u \in Seq(Value) PROVE u = [i \in 1 .. Len(u) |-> u[i]]
      OBVIOUS
    <3>2. Tail(c) = [i \in 1 .. Len(Tail(c)) |-> Tail(c)[i]]
      BY <3>1, <2>2
    <3> QED BY <3>2, <2>2
  <2> QED BY <2>1, <2>3 DEF c
<1>7. \A i \in 1 .. Len(n) - 1 : data'[Nodes'[i]] = Contents[i + 1]
  BY <1>1, <1>2, <1>5
<1>8. Contents' = Tail(Contents)
  BY <1>3, <1>5, <1>6, <1>7
<1>9. data[head] = Head(Contents)
  BY <1>1, <1>2, <1>4
<1> QED BY <1>4, <1>8, <1>9

LEMMA FifoStep == QueueInv /\ [Next]_vars => [Fifo!FifoNext]_Fifo!fifoVars
<1> SUFFICES ASSUME QueueInv, [Next]_vars
             PROVE  Fifo!FifoNext \/ (Contents' = Contents /\ taken' = taken)
  BY DEF Fifo!fifoVars
<1> DEFINE Same == Contents' = Contents /\ taken' = taken
<1>1. ASSUME NEW t \in Thread, Lock(t) PROVE Same
  BY <1>1 DEF Lock, list, Contents, Nodes
<1>2. ASSUME NEW t \in Thread, Unlock(t) PROVE Same \/ Fifo!FifoNext
  <2>1. Contents' = Contents
    BY <1>2 DEF Unlock, list, Contents, Nodes
  <2>2. CASE t \in Consumer
    <3>1. taken[t] # NULL /\ taken' = [taken EXCEPT ![t] = NULL]
      BY <1>2, <2>2 DEF Unlock, QueueInv, ControlInv
    <3>2. Fifo!Leave(t)
      BY <2>1, <3>1 DEF Fifo!Leave
    <3> QED BY <2>2, <3>2 DEF Fifo!FifoNext
  <2>3. CASE t \notin Consumer
    BY <1>2, <2>1, <2>3 DEF Unlock
  <2> QED BY <2>2, <2>3
<1>3. ASSUME NEW t \in Pusher, Malloc(t) PROVE Same
  <2>1. \A i \in DOMAIN Nodes : data'[Nodes[i]] = data[Nodes[i]]
    BY <1>3, ListFacts DEF Malloc, QueueInv, TypeOK
  <2> QED BY <1>3, <2>1, MallocKeepsList, ContentsStay DEF Malloc
<1>4. ASSUME NEW t \in Pusher, Link(t) PROVE Fifo!FifoNext
  <2>1. Fifo!Put
    BY <1>4, LinkPuts DEF Fifo!Put, Link
  <2> QED BY <2>1 DEF Fifo!FifoNext
<1>5. ASSUME NEW t \in Pusher, SetTail(t) PROVE Same
  BY <1>5, SetTailKeepsList, ContentsStay DEF SetTail
<1>6. ASSUME NEW t \in Pusher, Signal(t) PROVE Same
  BY <1>6 DEF Signal, list, Contents, Nodes
<1>7. ASSUME NEW t \in Popper, Wait(t) \/ WakeUp(t) PROVE Same
  BY <1>7 DEF Wait, WakeUp, list, Contents, Nodes
<1>8. ASSUME NEW t \in TryPopper, AnswerEmpty(t) PROVE Fifo!FifoNext
  <2>1. t \in Consumer /\ taken[t] = NULL
    BY <1>8 DEF AnswerEmpty, Consumer, QueueInv, ControlInv
  <2>2. Contents' = Contents
    BY <1>8 DEF AnswerEmpty, list, Contents, Nodes
  <2>3. Contents = <<>>
    BY <1>8, ListFacts, ContentsFacts DEF AnswerEmpty, QueueInv
  <2>4. Fifo!FindEmpty(t)
    BY <1>8, <2>1, <2>2, <2>3 DEF Fifo!FindEmpty, AnswerEmpty
  <2> QED BY <2>1, <2>4 DEF Fifo!FifoNext
<1>9. ASSUME NEW t \in Consumer, Call(t) PROVE Same
  BY <1>9 DEF Call, list, Contents, Nodes
<1>10. ASSUME NEW t \in Consumer, TakeHead(t) PROVE Fifo!FifoNext
  <2>1. taken[t] = NULL /\ head \in allocated
    BY <1>10 DEF TakeHead, QueueInv, ControlInv, TypeOK
  <2>2. Fifo!Take(t)
    BY <1>10, <2>1, TakeHeadTakes DEF Fifo!Take, TakeHead
  <2> QED BY <2>2 DEF Fifo!FifoNext
<1>11. ASSUME NEW t \in Consumer, FreeTemp(t) PROVE Same
  <2>1. t \in Thread /\ HasNode(t)
    BY <1>11 DEF FreeTemp, HasNode, Thread, QueueInv, ControlInv
  <2>2. \A i \in DOMAIN Nodes : Nodes[i] # mine[t]
    BY <2>1 DEF QueueInv, ListInv, NodesAreOwned
  <2>3. \A i \in DOMAIN Nodes : data'[Nodes[i]] = data[Nodes[i]]
    BY <1>11, <2>2, ListFacts DEF FreeTemp, Free, QueueInv, TypeOK
  <2> QED BY <1>11, <2>3, FreeTempKeepsList, ContentsStay DEF FreeTemp
<1>12. CASE UNCHANGED vars
  BY <1>12 DEF vars, list, Contents, Nodes
<1> HIDE DEF Same
<1> QED BY <1>1, <1>2, <1>3, <1>4, <1>5, <1>6, <1>7, <1>8, <1>9, <1>10, <1>11, <1>12, NextCases DEF Same

\* The linked list with its mutex is one FIFO queue: a push puts its value in at
\* the end when it links its node, a pop takes the oldest value when it takes the
\* head, try_pop says "empty" only of an empty queue (safe_queue.c:10-17, 33-36, 50-58).
THEOREM ListImplementsFifo == Spec => ImplementsFifo
<1>1. Init => Fifo!FifoInit
  <2> SUFFICES ASSUME Init PROVE Fifo!FifoInit
    OBVIOUS
  <2>1. Contents = <<>>
    BY InitHolds, ListFacts, ContentsFacts DEF Init, QueueInv
  <2> QED BY <2>1 DEF Init, Fifo!FifoInit
<1> QED BY <1>1, FifoStep, QueueInvariance, PTL DEF Spec, ImplementsFifo, Fifo!FifoSpec

-----------------------------------------------------------------------------
(* A value does not stay while a popper sleeps.  The fairness is that of    *)
(* ServedSpec, which spares the provers the ENABLED of WF and SF.           *)

LEMMA QueueStates == ServedSpec => [](QueueInv /\ NoWakeUpIsLost) /\ [][Next]_vars
BY QueueInvariance, NoWakeUpLost, PTL DEF ServedSpec, Spec

LEMMA FairnessOfCall ==
  ASSUME NEW t \in Thread
  PROVE  ServedSpec => CallIsServed(t)
BY DEF ServedSpec

\* Where t is on its way through a critical section.
HasIt(t, places) == owner = t /\ pc[t] \in places

\* The thread that has the mutex is the only one to go on, and it gets further.
LEMMA HolderStep ==
  ASSUME QueueInv, [Next]_vars, NEW t \in Thread, owner = t
  PROVE  /\ ~GoesOn(t) => owner' = t /\ pc'[t] = pc[t] /\ head' = head
         /\ GoesOn(t) => \/ owner' = Nobody
                         \/ /\ owner' = t
                            /\ \/ pc[t] = "locked" /\ pc'[t] \in {"linked", "taken", "unlock"}
                               \/ pc[t] = "linked" /\ pc'[t] = "signal"
                               \/ pc[t] \in {"signal", "taken"} /\ pc'[t] = "unlock"
<1> USE QueueAssumption DEF QueueInv, TypeOK, ControlInv, Critical, Goto, Thread, Consumer, list
<1>1. pc[t] \in Critical /\ t \notin waiting
  OBVIOUS
<1>2. \A u \in Thread \ {t} : pc[u] \notin Critical /\ u # owner
  OBVIOUS
<1> DEFINE Same == owner' = t /\ pc'[t] = pc[t] /\ head' = head
           On == \/ owner' = Nobody
                 \/ /\ owner' = t
                    /\ \/ pc[t] = "locked" /\ pc'[t] \in {"linked", "taken", "unlock"}
                       \/ pc[t] = "linked" /\ pc'[t] = "signal"
                       \/ pc[t] \in {"signal", "taken"} /\ pc'[t] = "unlock"
<1>3. ASSUME GoesOn(t) PROVE On
  <2>1. CASE Unlock(t)
    BY <2>1 DEF Unlock
  <2>2. CASE Link(t) \/ SetTail(t)
    BY <2>2 DEF Link, SetTail
  <2>3. CASE Signal(t)
    BY <2>3, <1>1 DEF Signal
  <2>4. CASE Wait(t) \/ AnswerEmpty(t)
    BY <2>4 DEF Wait, AnswerEmpty
  <2>5. CASE TakeHead(t) \/ FreeTemp(t)
    BY <2>5 DEF TakeHead, FreeTemp
  <2>6. QED  BY <1>3, <2>1, <2>2, <2>3, <2>4, <2>5 DEF GoesOn
<1>4. ASSUME ~GoesOn(t) PROVE Same
  <2>1. ASSUME NEW u \in Thread, Lock(u) PROVE Same
    BY <2>1 DEF Lock
  <2>2. ASSUME NEW u \in Thread, Unlock(u) PROVE Same
    BY <1>2, <1>4, <2>2 DEF Unlock, GoesOn
  <2>3. ASSUME NEW u \in Pusher, Link(u) \/ SetTail(u) \/ Signal(u) PROVE Same
    BY <1>2, <1>4, <2>3 DEF Link, SetTail, Signal, GoesOn
  <2>4. ASSUME NEW u \in Popper, Wait(u) PROVE Same
    BY <1>2, <1>4, <2>4 DEF Wait, GoesOn
  <2>5. ASSUME NEW u \in TryPopper, AnswerEmpty(u) PROVE Same
    BY <1>2, <1>4, <2>5 DEF AnswerEmpty, GoesOn
  <2>6. ASSUME NEW u \in Consumer, TakeHead(u) \/ FreeTemp(u) PROVE Same
    BY <1>2, <1>4, <2>6 DEF TakeHead, FreeTemp, GoesOn
  <2>7. ASSUME NEW u \in Pusher, Malloc(u) PROVE Same
    BY <1>1, <2>7 DEF Malloc
  <2>8. ASSUME NEW u \in Popper, WakeUp(u) PROVE Same
    BY <1>1, <2>8 DEF WakeUp
  <2>9. ASSUME NEW u \in Consumer, Call(u) PROVE Same
    BY <1>1, <2>9 DEF Call
  <2>10. CASE UNCHANGED vars
    BY <2>10 DEF vars, list
  <2> HIDE DEF Same
  <2>11. QED
    BY <2>1, <2>2, <2>3, <2>4, <2>5, <2>6, <2>7, <2>8, <2>9, <2>10, NextCases
<1>5. QED  BY <1>3, <1>4

\* A critical section ends: whoever has the mutex gives it back.
LEMMA SectionEnds ==
  ASSUME NEW t \in Thread
  PROVE  ServedSpec => (owner = t ~> owner = Nobody)
<1> DEFINE Held == owner = t
           Unheld == owner = Nobody
           First == HasIt(t, {"locked"})
           Second == HasIt(t, {"linked"})
           Third == HasIt(t, {"signal", "taken"})
           Fourth == HasIt(t, {"unlock"})
           CanRun == CanGoOn(t)
<1>1. QueueInv /\ Held => First \/ Second \/ Third \/ Fourth
  BY DEF QueueInv, ControlInv, Critical, HasIt
<1>2. QueueInv /\ Held => CanRun
  BY DEF QueueInv, ControlInv, CanGoOn
<1>3. First \/ Second \/ Third \/ Fourth => Held
  BY DEF HasIt
<1>4. QueueInv /\ [Next]_vars /\ Held /\ ~GoesOn(t) => /\ First => First'
                                                       /\ Second => Second'
                                                       /\ Third => Third'
                                                       /\ Fourth => Fourth'
  BY HolderStep DEF HasIt
<1>5. QueueInv /\ [Next]_vars /\ Held /\ GoesOn(t) =>
        /\ First => Second' \/ Third' \/ Fourth' \/ Unheld'
        /\ Second => Third' \/ Unheld'
        /\ Third => Fourth' \/ Unheld'
        /\ Fourth => Unheld'
  BY HolderStep DEF HasIt
<1> HIDE DEF Held, Unheld, First, Second, Third, Fourth
<1>6. CallIsServed(t) => []<>~CanRun \/ []<><<GoesOn(t)>>_vars
  BY DEF CallIsServed
<1>7. ServedSpec => CallIsServed(t)
  BY FairnessOfCall
<1> HIDE DEF CanRun
<1>8. ServedSpec => (Fourth ~> Unheld)
  BY <1>2, <1>3, <1>4, <1>5, <1>6, <1>7, QueueStates, PTL
<1>9. ServedSpec => (Third ~> Fourth \/ Unheld)
  BY <1>2, <1>3, <1>4, <1>5, <1>6, <1>7, QueueStates, PTL
<1>10. ServedSpec => (Second ~> Third \/ Unheld)
  BY <1>2, <1>3, <1>4, <1>5, <1>6, <1>7, QueueStates, PTL
<1>11. ServedSpec => (First ~> Second \/ Third \/ Fourth \/ Unheld)
  BY <1>2, <1>3, <1>4, <1>5, <1>6, <1>7, QueueStates, PTL
<1>12. ServedSpec => (Held ~> Unheld)
  BY <1>1, <1>8, <1>9, <1>10, <1>11, QueueStates, PTL
<1>13. QED  BY <1>12 DEF Held, Unheld

\* So the mutex is free again and again, whoever has it.
LEMMA MutexIsFreed == ServedSpec => []<>(owner = Nobody)
<1> DEFINE Held(t) == owner = t
           Unheld == owner = Nobody
<1>1. \A t \in Thread : ServedSpec => [](Held(t) => <>Unheld)
  <2> TAKE t \in Thread
  <2>1. ServedSpec => (owner = t ~> owner = Nobody)
    BY SectionEnds
  <2>2. QED  BY <2>1, PTL
<1>2. QueueInv => Unheld \/ \E t \in Thread : Held(t)
  BY DEF QueueInv, TypeOK
<1> HIDE DEF Held, Unheld
<1>3. ServedSpec => \A t \in Thread : [](Held(t) => <>Unheld)
  BY <1>1
<1>4. (\A t \in Thread : [](Held(t) => <>Unheld)) => [](\A t \in Thread : Held(t) => <>Unheld)
  OBVIOUS
<1>5. (\A t \in Thread : Held(t) => <>Unheld) => ((\E t \in Thread : Held(t)) => <>Unheld)
  OBVIOUS
<1>6. ServedSpec => []<>Unheld
  BY <1>2, <1>3, <1>4, <1>5, QueueStates, PTL
<1>7. QED  BY <1>6 DEF Unheld

\* A thread that waits for the mutex waits until it locks it.
LEMMA WaitingStep ==
  ASSUME QueueInv, [Next]_vars, NEW t \in Thread, pc[t] = "lock", ~Lock(t)
  PROVE  pc'[t] = "lock"
<1> USE QueueAssumption DEF QueueInv, TypeOK, ControlInv, Critical, Goto, Thread, Consumer, list
<1>1. t \notin waiting
  OBVIOUS
<1>2. ASSUME NEW u \in Thread, Lock(u) \/ Unlock(u) PROVE pc'[t] = "lock"
  BY <1>2 DEF Lock, Unlock
<1>3. ASSUME NEW u \in Pusher, Malloc(u) \/ Link(u) \/ SetTail(u) PROVE pc'[t] = "lock"
  BY <1>3 DEF Malloc, Link, SetTail
<1>4. ASSUME NEW u \in Pusher, Signal(u) PROVE pc'[t] = "lock"
  BY <1>1, <1>4 DEF Signal
<1>5. ASSUME NEW u \in Popper, Wait(u) \/ WakeUp(u) PROVE pc'[t] = "lock"
  BY <1>5 DEF Wait, WakeUp
<1>6. ASSUME NEW u \in TryPopper, AnswerEmpty(u) PROVE pc'[t] = "lock"
  BY <1>6 DEF AnswerEmpty
<1>7. ASSUME NEW u \in Consumer, Call(u) \/ TakeHead(u) \/ FreeTemp(u) PROVE pc'[t] = "lock"
  BY <1>7 DEF Call, TakeHead, FreeTemp
<1>8. CASE UNCHANGED vars
  BY <1>8 DEF vars
<1>9. QED  BY <1>2, <1>3, <1>4, <1>5, <1>6, <1>7, <1>8, NextCases

\* Whoever wants the mutex gets it.
LEMMA MutexIsTaken ==
  ASSUME NEW t \in Thread
  PROVE  ServedSpec => (pc[t] = "lock" ~> HasIt(t, {"locked"}))
<1> DEFINE Wants == pc[t] = "lock"
           Got == HasIt(t, {"locked"})
           Unheld == owner = Nobody
           CanTake == CanLock(t)
<1>1. QueueInv /\ [Next]_vars /\ Wants /\ ~Lock(t) => Wants'
  BY WaitingStep
<1>2. QueueInv /\ Wants /\ Lock(t) => Got'
  BY DEF Lock, HasIt, Goto, QueueInv, TypeOK
<1>3. Wants /\ Unheld => CanTake
  BY DEF CanLock
<1>4. ServedSpec => []<>Unheld
  BY MutexIsFreed
<1> HIDE DEF Wants, Got, Unheld
<1>5. CallIsServed(t) => <>[]~CanTake \/ []<><<Lock(t)>>_vars
  BY DEF CallIsServed
<1>6. ServedSpec => CallIsServed(t)
  BY FairnessOfCall
<1> HIDE DEF CanTake
<1>7. ServedSpec => (Wants ~> Got)
  BY <1>1, <1>2, <1>3, <1>4, <1>5, <1>6, QueueStates, PTL
<1>8. QED  BY <1>7 DEF Wants, Got

\* Nobody needs n any more, or nobody sleeps while it waits.
Gone(n) == head # n \/ waiting = {}

\* A popper that has the mutex takes the head.
LEMMA HeadMovesOn ==
  ASSUME QueueInv, NEW n \in Node, head = n, NEW t \in Popper, HasIt(t, {"locked"}), GoesOn(t)
  PROVE  head' # n
<1>1. pc[t] = "locked" /\ t \notin Pusher /\ t \notin TryPopper /\ n # NULL /\ t \in Consumer
  BY QueueAssumption DEF HasIt, Consumer
<1>2. TakeHead(t)
  BY <1>1 DEF GoesOn, Unlock, Wait, FreeTemp
<1>3. Nodes # <<>> /\ head = Nodes[1] /\ Nodes' = Tail(Nodes) /\ IsListFrom(Nodes', head', next')
  BY <1>1, <1>2, TakeHeadPops DEF QueueInv
<1>4. Nodes \in Seq(Node) /\ \A i, j \in DOMAIN Nodes : Nodes[i] = Nodes[j] => i = j
  BY ListFacts DEF QueueInv
<1> DEFINE s == Nodes
           r == Nodes'
<1>5. head' = IF r = <<>> THEN NULL ELSE r[1]
  BY <1>3 DEF IsListFrom
<1>6. r # <<>> => r[1] # s[1]
  <2> HIDE DEF s, r
  <2>1. r = Tail(s) /\ s \in Seq(Node) /\ s # <<>> /\ \A i, j \in DOMAIN s : s[i] = s[j] => i = j
    BY <1>3, <1>4 DEF s, r
  <2>2. QED  BY <2>1
<1>7. QED  BY <1>1, <1>3, <1>5, <1>6

\* An awake popper sees to it that the head is taken.
LEMMA AwakePopperTakes ==
  ASSUME NEW n \in Node, NEW t \in Popper
  PROVE  ServedSpec => (pc[t] \in {"lock", "locked"} ~> Gone(n))
<1> DEFINE Wants == pc[t] = "lock"
           Got == HasIt(t, {"locked"})
           Done == Gone(n)
           CanRun == CanGoOn(t)
<1>1. t \in Thread
  BY DEF Thread, Consumer
<1>2. QueueInv => (pc[t] \in {"lock", "locked"} <=> Wants \/ Got)
  BY <1>1 DEF QueueInv, ControlInv, Critical, HasIt
<1>3. QueueInv /\ [Next]_vars /\ Got /\ ~GoesOn(t) => Got'
  BY <1>1, HolderStep DEF HasIt
<1>4. QueueInv /\ [Next]_vars /\ Got /\ GoesOn(t) => Done \/ Done'
  BY HeadMovesOn DEF Gone
<1>5. Got => CanRun
  BY DEF CanGoOn, HasIt, Critical
<1>6. ServedSpec => (Wants ~> Got)
  <2>1. ServedSpec => (pc[t] = "lock" ~> HasIt(t, {"locked"}))
    BY <1>1, MutexIsTaken
  <2>2. QED  BY <2>1
<1>7. CallIsServed(t) => []<>~CanRun \/ []<><<GoesOn(t)>>_vars
  BY DEF CallIsServed
<1>8. ServedSpec => CallIsServed(t)
  BY <1>1, FairnessOfCall
<1> DEFINE Up == pc[t] \in {"lock", "locked"}
<1> HIDE DEF Wants, Got, Done, CanRun, Up
<1>9. ServedSpec => (Got ~> Done)
  BY <1>3, <1>4, <1>5, <1>7, <1>8, QueueStates, PTL
<1>10. QueueInv => (Up <=> Wants \/ Got)
  BY <1>2 DEF Up
<1>11. ServedSpec => (Up ~> Done)
  BY <1>6, <1>9, <1>10, QueueStates, PTL
<1>12. QED  BY <1>11 DEF Up, Done

\* Some popper is up, and may find a value.
SomeoneIsUp == \E t \in Popper : pc[t] \in {"lock", "locked"}

LEMMA SignalWakes ==
  ASSUME QueueInv, NEW t \in Pusher, HasIt(t, {"signal"}), GoesOn(t)
  PROVE  waiting = {} \/ SomeoneIsUp'
<1>1. Signal(t)
  BY QueueAssumption DEF HasIt, GoesOn, Unlock, Link, SetTail, Consumer
<1>2. ASSUME waiting # {}
      PROVE  SomeoneIsUp'
  <2>1. PICK w \in waiting : pc' = [pc EXCEPT ![t] = "unlock", ![w] = "lock"]
    BY <1>1, <1>2 DEF Signal
  <2>2. w \in Popper /\ w # t /\ w \in Thread /\ pc \in [Thread -> {"idle", "lock", "locked", "linked", "signal", "asleep", "taken", "unlock"}]
    BY QueueAssumption DEF QueueInv, TypeOK, Thread, Consumer
  <2>3. pc'[w] = "lock"
    BY <2>1, <2>2
  <2>4. QED  BY <2>2, <2>3 DEF SomeoneIsUp
<1>3. QED  BY <1>2

\* A pusher that has linked its node wakes a popper up.
LEMMA PusherSignals ==
  ASSUME NEW n \in Node, NEW t \in Pusher
  PROVE  ServedSpec => (pc[t] \in {"linked", "signal"} ~> SomeoneIsUp \/ Gone(n))
<1> DEFINE Linked == HasIt(t, {"linked"})
           Signals == HasIt(t, {"signal"})
           Done == SomeoneIsUp \/ Gone(n)
           CanRun == CanGoOn(t)
           Pushes == pc[t] \in {"linked", "signal"}
<1>1. t \in Thread
  BY DEF Thread
<1>2. QueueInv => (Pushes <=> Linked \/ Signals)
  BY <1>1 DEF QueueInv, ControlInv, Critical, HasIt
<1>3. QueueInv /\ [Next]_vars /\ ~GoesOn(t) => /\ Linked => Linked'
                                               /\ Signals => Signals'
  BY <1>1, HolderStep DEF HasIt
<1>4. QueueInv /\ [Next]_vars /\ GoesOn(t) => /\ Linked => Signals'
                                              /\ Signals => Done \/ Done'
  <2>1. SUFFICES ASSUME QueueInv, [Next]_vars, GoesOn(t)
                 PROVE  /\ Linked => Signals'
                        /\ Signals => Done \/ Done'
    OBVIOUS
  <2>2. Linked => SetTail(t)
    BY <2>1, QueueAssumption DEF HasIt, GoesOn, Unlock, Link, Signal, Consumer
  <2>3. SetTail(t) /\ owner = t => Signals'
    BY <1>1, <2>1 DEF SetTail, Goto, HasIt, QueueInv, TypeOK
  <2>4. Signals => Done \/ Done'
    BY <2>1, SignalWakes DEF Gone
  <2>5. QED  BY <2>2, <2>3, <2>4 DEF HasIt
<1>5. Linked \/ Signals => CanRun
  BY DEF CanGoOn, HasIt, Critical
<1>6. CallIsServed(t) => []<>~CanRun \/ []<><<GoesOn(t)>>_vars
  BY DEF CallIsServed
<1>7. ServedSpec => CallIsServed(t)
  BY <1>1, FairnessOfCall
<1> HIDE DEF Linked, Signals, Done, CanRun, Pushes
<1>8. ServedSpec => (Signals ~> Done)
  BY <1>3, <1>4, <1>5, <1>6, <1>7, QueueStates, PTL
<1>9. ServedSpec => (Linked ~> Signals)
  BY <1>3, <1>4, <1>5, <1>6, <1>7, QueueStates, PTL
<1>10. ServedSpec => (Pushes ~> Done)
  BY <1>2, <1>8, <1>9, QueueStates, PTL
<1>11. QED  BY <1>10 DEF Pushes, Done

\* Beside a popper that sleeps and a value, somebody is at work.
LEMMA SomebodyIsAtWork ==
  ASSUME QueueInv, NoWakeUpIsLost, NEW n \in Node, ~Gone(n)
  PROVE  SomeoneIsUp \/ \E t \in Pusher : pc[t] \in {"linked", "signal"}
<1>1. head # NULL /\ waiting # {}
  BY QueueAssumption DEF Gone
<1>2. Nodes \in Seq(Node) /\ Nodes # <<>>
  BY <1>1, ListFacts DEF QueueInv
<1>3. Len(Nodes) \in Nat /\ Len(Nodes) # 0
  <2> DEFINE s == Nodes
  <2> HIDE DEF s
  <2>1. s \in Seq(Node) /\ s # <<>> => Len(s) \in Nat /\ Len(s) # 0
    OBVIOUS
  <2>2. QED  BY <1>2, <2>1 DEF s
<1>4. Len(Nodes) <= Cardinality(Awake) + Cardinality(Signalling)
  BY <1>1 DEF NoWakeUpIsLost
<1>5. Awake # {} \/ Signalling # {}
  <2>1. Cardinality({}) = 0
    BY FS_EmptySet
  <2> DEFINE size == Len(Nodes)
  <2>2. size \in Nat /\ size # 0 /\ size <= Cardinality(Awake) + Cardinality(Signalling)
    BY <1>3, <1>4
  <2> HIDE DEF size
  <2>3. ASSUME Awake = {}, Signalling = {}
        PROVE  FALSE
    <3>1. Cardinality(Awake) = 0 /\ Cardinality(Signalling) = 0
      BY <2>1, <2>3
    <3>2. QED  BY <2>2, <3>1
  <2>4. QED  BY <2>3
<1>6. QED  BY <1>5 DEF Awake, Signalling, SomeoneIsUp

\* No popper sleeps beside a value for ever (safe_queue.c:20, 29-36): a push or a
\* popper that is up is at work, gets the mutex whatever the others do, and wakes
\* a sleeper or takes the head.
THEOREM SleepersAreServed == ServedSpec => HeadIsTaken
<1> SUFFICES ASSUME NEW n \in Node
             PROVE  ServedSpec =>
                      ((head = n /\ waiting # {}) ~> (head # n \/ waiting = {}))
  BY DEF HeadIsTaken
<1> DEFINE Up(t) == pc[t] \in {"lock", "locked"}
           Pushes(t) == pc[t] \in {"linked", "signal"}
           Done == Gone(n)
           One == SomeoneIsUp
           Live == ServedSpec
<1>1. \A t \in Popper : Live => [](Up(t) => <>Done)
  <2> TAKE t \in Popper
  <2>1. ServedSpec => (pc[t] \in {"lock", "locked"} ~> Gone(n))
    BY AwakePopperTakes
  <2>2. QED  BY <2>1, PTL
<1>2. \A t \in Pusher : Live => [](Pushes(t) => <>(One \/ Done))
  <2> TAKE t \in Pusher
  <2>1. ServedSpec => (pc[t] \in {"linked", "signal"} ~> SomeoneIsUp \/ Gone(n))
    BY PusherSignals
  <2>2. QED  BY <2>1, PTL
<1>3. QueueInv /\ NoWakeUpIsLost /\ ~Done => One \/ \E t \in Pusher : Pushes(t)
  BY SomebodyIsAtWork
<1>4. One <=> \E t \in Popper : Up(t)
  BY DEF SomeoneIsUp
<1> HIDE DEF Up, Pushes, Done, One, Live
<1>5. (\A t \in Popper : [](Up(t) => <>Done)) => [](\A t \in Popper : Up(t) => <>Done)
  OBVIOUS
<1>6. (\A t \in Popper : Up(t) => <>Done) => (One => <>Done)
  BY <1>4
<1>7. (\A t \in Pusher : [](Pushes(t) => <>(One \/ Done)))
        => [](\A t \in Pusher : Pushes(t) => <>(One \/ Done))
  OBVIOUS
<1>8. (\A t \in Pusher : Pushes(t) => <>(One \/ Done))
        => ((\E t \in Pusher : Pushes(t)) => <>(One \/ Done))
  OBVIOUS
<1>9. Live => \A t \in Popper : [](Up(t) => <>Done)
  BY <1>1
<1>10. Live => \A t \in Pusher : [](Pushes(t) => <>(One \/ Done))
  BY <1>2
<1>11. Live => [](QueueInv /\ NoWakeUpIsLost)
  BY QueueStates, PTL DEF Live
<1>12. Live => (~Done ~> Done)
  BY <1>3, <1>5, <1>6, <1>7, <1>8, <1>9, <1>10, <1>11, PTL
<1>13. (head = n /\ waiting # {} => ~Done) /\ (Done => head # n \/ waiting = {})
  BY DEF Done, Gone
<1>14. QED  BY <1>12, <1>13, PTL DEF Live
=============================================================================
