----------------------------- MODULE SafeQueue -----------------------------
(***************************************************************************)
(* The queue of src/thread_safe/safe_queue.c, a linked list under a mutex  *)
(* with a condition variable, used by any number of threads:               *)
(*   Pusher    threads call ifb_safe_queue_push,                           *)
(*   Popper    threads call ifb_safe_queue_pop, which waits,               *)
(*   TryPopper threads call ifb_safe_queue_try_pop, which does not.        *)
(* Each access to the list is a step.  Nodes are addresses that malloc     *)
(* gives out and, once freed, gives out again.                             *)
(***************************************************************************)
EXTENDS Naturals, FiniteSets, Sequences

CONSTANTS Pusher, Popper, TryPopper, \* the threads
          Value,                     \* what is queued
          Node,                      \* bound: addresses of the heap
          NULL,                      \* no node, value or answer
          Empty,                     \* try_pop's false
          Nobody                     \* the owner of a mutex that is free

Consumer == Popper \union TryPopper
Thread == Pusher \union Consumer

ASSUME QueueAssumption ==
  /\ Pusher \intersect Consumer = {} /\ Popper \intersect TryPopper = {}
  /\ Nobody \notin Thread /\ NULL \notin Node
  /\ Empty \notin Value /\ NULL \notin Value \union {Empty}
  /\ IsFiniteSet(Thread) /\ IsFiniteSet(Node)

VARIABLES
  pc,      \* where each thread is; "idle" between two calls
  owner,   \* the thread that holds q->mutex
  waiting, \* the threads asleep on q->cond
  head, tail,
  data, next, \* the fields of every node
  allocated,  \* the nodes that malloc has given out
  mine,    \* node, the pusher's new one, or temp, the consumer's old one
  taken    \* the answer each consumer returns with

list == <<head, tail, data, next, allocated>>
vars == <<pc, owner, waiting, list, mine, taken>>

Goto(t, label) == pc' = [pc EXCEPT ![t] = label]

Lock(t) ==
  /\ pc[t] = "lock" /\ owner = Nobody
  /\ owner' = t
  /\ Goto(t, "locked")
  /\ UNCHANGED <<waiting, list, mine, taken>>

Unlock(t) ==
  /\ pc[t] = "unlock"
  /\ owner' = Nobody
  /\ mine' = [mine EXCEPT ![t] = NULL]
  /\ taken' = IF t \in Consumer THEN [taken EXCEPT ![t] = NULL] ELSE taken
  /\ Goto(t, "idle")
  /\ UNCHANGED <<waiting, list>>

-----------------------------------------------------------------------------
(* ifb_safe_queue_push                                                      *)

Malloc(t) ==
  /\ pc[t] = "idle"
  /\ \E n \in Node \ allocated, v \in Value :
       /\ allocated' = allocated \union {n}
       /\ data' = [data EXCEPT ![n] = v]
       /\ next' = [next EXCEPT ![n] = NULL]
       /\ mine' = [mine EXCEPT ![t] = n]
  /\ Goto(t, "lock")
  /\ UNCHANGED <<owner, waiting, head, tail, taken>>

Link(t) ==
  /\ pc[t] = "locked"
  /\ IF tail # NULL
     THEN next' = [next EXCEPT ![tail] = mine[t]] /\ UNCHANGED head
     ELSE head' = mine[t] /\ UNCHANGED next
  /\ Goto(t, "linked")
  /\ UNCHANGED <<owner, waiting, tail, data, allocated, mine, taken>>

\* Mutant: tail is set by the first push alone.
SetTailWhenEmpty(t) ==
  /\ pc[t] = "linked"
  /\ tail' = IF tail = NULL THEN mine[t] ELSE tail
  /\ Goto(t, "signal")
  /\ UNCHANGED <<owner, waiting, head, data, next, allocated, mine, taken>>

SetTail(t) ==
  /\ pc[t] = "linked"
  /\ tail' = mine[t]
  /\ Goto(t, "signal")
  /\ UNCHANGED <<owner, waiting, head, data, next, allocated, mine, taken>>

\* Mutant: only the push that ends an empty queue signals.
SignalFirst(t) ==
  /\ pc[t] = "signal"
  /\ IF waiting = {} \/ head # tail THEN Goto(t, "unlock") /\ UNCHANGED waiting
     ELSE \E w \in waiting :
            /\ waiting' = waiting \ {w}
            /\ pc' = [pc EXCEPT ![t] = "unlock", ![w] = "lock"]
  /\ UNCHANGED <<owner, list, mine, taken>>

\* pthread_cond_signal wakes one of the threads asleep.
Signal(t) ==
  /\ pc[t] = "signal"
  /\ IF waiting = {} THEN Goto(t, "unlock") /\ UNCHANGED waiting
     ELSE \E w \in waiting :
            /\ waiting' = waiting \ {w}
            /\ pc' = [pc EXCEPT ![t] = "unlock", ![w] = "lock"]
  /\ UNCHANGED <<owner, list, mine, taken>>

-----------------------------------------------------------------------------
(* ifb_safe_queue_pop and ifb_safe_queue_try_pop                            *)

Call(t) ==
  /\ pc[t] = "idle"
  /\ Goto(t, "lock")
  /\ UNCHANGED <<owner, waiting, list, mine, taken>>

Wait(t) ==
  /\ pc[t] = "locked" /\ head = NULL
  /\ owner' = Nobody
  /\ waiting' = waiting \union {t}
  /\ Goto(t, "asleep")
  /\ UNCHANGED <<list, mine, taken>>

\* A wait may end without a signal.
WakeUp(t) ==
  /\ t \in waiting
  /\ waiting' = waiting \ {t}
  /\ Goto(t, "lock")
  /\ UNCHANGED <<owner, list, mine, taken>>

AnswerEmpty(t) ==
  /\ pc[t] = "locked" /\ head = NULL
  /\ taken' = [taken EXCEPT ![t] = Empty]
  /\ Goto(t, "unlock")
  /\ UNCHANGED <<owner, waiting, list, mine>>

TakeHead(t) ==
  /\ pc[t] = "locked" /\ head # NULL
  /\ mine' = [mine EXCEPT ![t] = head]
  /\ taken' = [taken EXCEPT ![t] = data[head]]
  /\ head' = next[head]
  /\ Goto(t, "taken")
  /\ UNCHANGED <<owner, waiting, tail, data, next, allocated>>

\* free: what the node held is gone.
Free(n) ==
  /\ allocated' = allocated \ {n}
  /\ data' = [data EXCEPT ![n] = NULL]
  /\ next' = [next EXCEPT ![n] = NULL]

\* Mutant: tail is left at the node that is freed.
FreeTempOnly(t) ==
  /\ pc[t] = "taken"
  /\ Free(mine[t])
  /\ Goto(t, "unlock")
  /\ UNCHANGED <<owner, waiting, head, tail, mine, taken>>

\* Mutant: the node is not freed.
KeepTemp(t) ==
  /\ pc[t] = "taken"
  /\ tail' = IF head = NULL THEN NULL ELSE tail
  /\ Goto(t, "unlock")
  /\ UNCHANGED <<owner, waiting, head, data, next, allocated, mine, taken>>

FreeTemp(t) ==
  /\ pc[t] = "taken"
  /\ tail' = IF head = NULL THEN NULL ELSE tail
  /\ Free(mine[t])
  /\ Goto(t, "unlock")
  /\ UNCHANGED <<owner, waiting, head, mine, taken>>

-----------------------------------------------------------------------------
Init ==
  /\ pc = [t \in Thread |-> "idle"]
  /\ owner = Nobody
  /\ waiting = {}
  /\ head = NULL /\ tail = NULL
  /\ data \in [Node -> {NULL}] /\ next \in [Node -> {NULL}]
  /\ allocated = {}
  /\ mine = [t \in Thread |-> NULL]
  /\ taken = [c \in Consumer |-> NULL]

Push(t) == Malloc(t) \/ Link(t) \/ SetTail(t) \/ Signal(t)
Pop(t) == Call(t) \/ Wait(t) \/ WakeUp(t) \/ TakeHead(t) \/ FreeTemp(t)
TryPop(t) == Call(t) \/ AnswerEmpty(t) \/ TakeHead(t) \/ FreeTemp(t)

Next == \/ \E t \in Thread : Lock(t) \/ Unlock(t)
        \/ \E t \in Pusher : Push(t)
        \/ \E t \in Popper : Pop(t)
        \/ \E t \in TryPopper : TryPop(t)

Spec == Init /\ [][Next]_vars

\* What a call does by itself once it has the mutex.
GoesOn(t) ==
  \/ Unlock(t)
  \/ t \in Pusher /\ (Link(t) \/ SetTail(t) \/ Signal(t))
  \/ t \in Popper /\ (Wait(t) \/ TakeHead(t) \/ FreeTemp(t))
  \/ t \in TryPopper /\ (AnswerEmpty(t) \/ TakeHead(t) \/ FreeTemp(t))

\* A call once begun goes on when it can, and is not kept from the mutex for
\* ever: the program's threads sleep between two calls.  No one has to call, and
\* no wait has to end without a signal.
CallIsFair(t) == WF_vars(GoesOn(t)) /\ SF_vars(Lock(t))

FairSpec == Spec /\ (\A t \in Thread : CallIsFair(t))

\* The same fairness with what each step waits for written out in place of its
\* ENABLED.  A thread in its critical section goes on; one that wants the mutex,
\* and finds it free again and again, gets it.
Critical == {"locked", "linked", "signal", "taken", "unlock"}

CanGoOn(t) == pc[t] \in Critical
CanLock(t) == pc[t] = "lock" /\ owner = Nobody

CallIsServed(t) == /\ []<>~CanGoOn(t) \/ []<><<GoesOn(t)>>_vars
                   /\ <>[]~CanLock(t) \/ []<><<Lock(t)>>_vars

ServedSpec == Spec /\ (\A t \in Thread : CallIsServed(t))

-----------------------------------------------------------------------------
(* Properties                                                               *)

\* s runs along the next pointers succ from the node first to the end.
IsListFrom(s, first, succ) ==
  /\ first = IF s = <<>> THEN NULL ELSE s[1]
  /\ \A i \in DOMAIN s : succ[s[i]] = IF i = Len(s) THEN NULL ELSE s[i + 1]

Path == UNION {[1 .. k -> Node] : k \in 0 .. Cardinality(Node)}

ListFrom(first, succ) == CHOOSE s \in Path : IsListFrom(s, first, succ)

Nodes == ListFrom(head, next)

Contents == [i \in DOMAIN Nodes |-> data[Nodes[i]]]

\* A thread that has a node of its own: a pusher that has yet to link it, a
\* consumer that has yet to free it.
HasNode(t) == mine[t] # NULL /\ pc[t] \in (IF t \in Pusher THEN {"lock", "locked"} ELSE {"taken"})

\* The variables have their types; head and tail never point to freed memory.
TypeOK ==
  /\ pc \in [Thread -> {"idle", "lock", "locked", "linked", "signal", "asleep", "taken", "unlock"}]
  /\ owner \in Thread \union {Nobody}
  /\ waiting \subseteq Popper
  /\ allocated \subseteq Node
  /\ {head, tail} \subseteq allocated \union {NULL}
  /\ data \in [Node -> Value \union {NULL}]
  /\ next \in [Node -> Node \union {NULL}]
  /\ mine \in [Thread -> Node \union {NULL}]
  /\ taken \in [Consumer -> Value \union {Empty, NULL}]

\* Whenever the mutex is free, tail is the last node of the list and both are
\* null when it is empty: a push (safe_queue.c:11-17) loses nothing.
ListEndsAtTail ==
  owner = Nobody => IF head = NULL THEN tail = NULL
                    ELSE tail = Nodes[Len(Nodes)] /\ next[tail] = NULL

\* A node is in the list once, or in the hands of one thread that has yet to link
\* it or to free it; nothing else is allocated, so none is leaked or freed twice.
NodesAreOwned ==
  LET listed == {Nodes[i] : i \in DOMAIN Nodes}
      holder == {t \in Thread : HasNode(t)}
  IN  /\ \A i, j \in DOMAIN Nodes : Nodes[i] = Nodes[j] => i = j
      /\ \A t, u \in holder : mine[t] = mine[u] => t = u
      /\ allocated = listed \union {mine[t] : t \in holder}
      /\ \A t \in holder : mine[t] \notin listed

\* The poppers awake that may find a value; the pushers that have yet to signal.
Awake == {t \in Popper : pc[t] \in {"lock", "locked"}}
Signalling == {t \in Pusher : pc[t] \in {"linked", "signal"}}

\* While poppers sleep, every value in the queue has a popper awake to take it,
\* or a push that has yet to signal (safe_queue.c:20, 29-31): no wake-up is lost.
NoWakeUpIsLost ==
  waiting # {} => Len(Nodes) <= Cardinality(Awake) + Cardinality(Signalling)

\* Where tail is while it is not the end of the list: before the node that was
\* linked, or at the node that was taken.
TailInv ==
  LET last == IF Nodes = <<>> THEN NULL ELSE Nodes[Len(Nodes)]
  IN  IF owner # Nobody /\ pc[owner] = "linked"
      THEN /\ last = mine[owner]
           /\ tail = IF Len(Nodes) = 1 THEN NULL ELSE Nodes[Len(Nodes) - 1]
      ELSE tail = IF owner # Nobody /\ pc[owner] = "taken" /\ Nodes = <<>>
                  THEN mine[owner] ELSE last

\* One thread holds the mutex; what a thread has follows from where it is.
ControlInv ==
  /\ \A t \in Thread : owner = t <=> pc[t] \in Critical
  /\ waiting = {t \in Thread : pc[t] = "asleep"}
  /\ \A t \in Pusher : pc[t] # "taken" /\ (pc[t] # "idle" <=> mine[t] # NULL)
  /\ \A t \in Consumer : /\ pc[t] \notin {"linked", "signal"}
                         /\ mine[t] # NULL => pc[t] \in {"taken", "unlock"}
                         /\ pc[t] = "taken" => mine[t] # NULL
                         /\ taken[t] # NULL <=> pc[t] \in {"taken", "unlock"}

\* The pointers run along one list that ends, and what is queued are values.
ListInv ==
  /\ Nodes \in Path /\ IsListFrom(Nodes, head, next)
  /\ NodesAreOwned /\ TailInv
  /\ \A t \in Pusher : HasNode(t) => next[mine[t]] = NULL
  /\ \A n \in allocated : data[n] \in Value

\* What keeps the list sound between any two accesses to it.
QueueInv == TypeOK /\ ControlInv /\ ListInv

\* The list is a FIFO queue whose operations are instants.
Fifo == INSTANCE FifoQueue WITH queue <- Contents, answer <- taken, None <- NULL

ImplementsFifo == Fifo!FifoSpec

\* A value does not stay at the head of the queue while a popper sleeps.
HeadIsTaken ==
  \A n \in Node : (head = n /\ waiting # {}) ~> (head # n \/ waiting = {})
=============================================================================
