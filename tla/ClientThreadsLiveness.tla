----------------------- MODULE ClientThreadsLiveness -----------------------
(***************************************************************************)
(* Proofs that "exit" ends the client and that a waiting command is taken,   *)
(* for every set of Slaves, every room for them and any number of commands,  *)
(* from the fairness of FairSpec.                                            *)
(*                                                                         *)
(* Once IS_APP_RUNNING is false each of the two other threads goes through  *)
(* what is left of its round, and does not begin another: Rank says how     *)
(* much that is.  Until then the net thread goes round by its queue, and    *)
(* Distance says how far it is from there.  Either goes down with every     *)
(* step but that of locking a mutex, and who holds a mutex gives it back    *)
(* with its next step.                                                      *)
(*                                                                         *)
(* Weak fairness of a thread gives a step only where one is ENABLED.  That  *)
(* it is, unless the thread waits for a mutex, is ThreadsCanGoOn, a         *)
(* hypothesis of both theorems: it is no statement TLAPS can prove, and an  *)
(* invariant of the run client.                                             *)
(***************************************************************************)
EXTENDS ClientThreadsProofs

-----------------------------------------------------------------------------
(* The way to the end.                                                      *)

Rank(label) ==
  CASE label = "ended" -> 0
    [] label \in {"frame", "loop"} -> 1
    [] label \in {"sending", "connecting", "requesting", "destroyed"} -> 2
    [] label \in {"send", "request", "disconnecting"} -> 3
    [] label \in {"read_id", "read_world", "disconnect"} -> 4
    [] label \in {"put_world", "pop"} -> 5
    [] label \in {"add_inputs", "init_inputs", "add_slave", "set_input"} -> 6
    [] label \in {"copy_world", "init_world"} -> 7
    [] label \in {"read_info", "set_info"} -> 8
    [] OTHER -> 9

LEMMA RankIsSmall == \A label : Rank(label) \in 0 .. 9
BY DEF Rank

\* A step of a thread that locks nothing gives back what the thread held.
GivesBack(t) ==
  /\ \A u \in Thread \ {t} : pc'[u] = pc[u]
  /\ \A m \in Mutex : owner'[m] = IF owner[m] = t THEN Nobody ELSE owner[m]

\* A step of a thread towards its end.
Descends(t) ==
  /\ Rank(pc'[t]) < Rank(pc[t])
  /\ GivesBack(t)
  /\ UNCHANGED <<IS_APP_RUNNING, crashed>>

\* A step out of a critical section, or outside of any.
LEMMA SteppingOut ==
  ASSUME ClientInv, NEW t \in Thread, NEW label, Goto(t, label),
         \/ pc[t] \notin Section /\ UNCHANGED owner
         \/ owner[Guard(pc[t])] = t /\ Unlock(t)
  PROVE  pc'[t] = label /\ GivesBack(t)
<1>1. /\ pc \in [Thread -> UNION {Place(u) : u \in Thread}]
      /\ owner \in [Mutex -> Thread \union {Nobody}] /\ t # Nobody
      /\ \A m \in Mutex : owner[m] # Nobody => pc[owner[m]] \in Section /\ Guard(pc[owner[m]]) = m
  BY ClientAssumption
     DEF ClientInv, TypeOK, PlacesOK, DataOK, MutexesAreHeldInTheirSections, Thread
<1>2. pc'[t] = label /\ \A u \in Thread \ {t} : pc'[u] = pc[u]
  BY <1>1 DEF Goto
<1>3. \A m \in Mutex : owner'[m] = IF owner[m] = t THEN Nobody ELSE owner[m]
  BY <1>1 DEF Unlock
<1>4. QED  BY <1>2, <1>3 DEF GivesBack

LEMMA GoingDown ==
  ASSUME ClientInv, NEW t \in Runner, NEW label, Goto(t, label), Rank(label) < Rank(pc[t]),
         UNCHANGED <<IS_APP_RUNNING, crashed>>,
         \/ pc[t] \notin Section /\ UNCHANGED owner
         \/ owner[Guard(pc[t])] = t /\ Unlock(t)
  PROVE  Descends(t)
<1>1. t \in Thread
  BY DEF Runner, Thread
<1>2. QED  BY <1>1, SteppingOut DEF Descends

\* A section that uses a pointer kills the process or goes on.
LEMMA DereferencingDown ==
  ASSUME ClientInv, NEW t \in Runner, NEW pointer, NEW label, Dereference(t, pointer, label),
         Rank(label) < Rank(pc[t]), owner[Guard(pc[t])] = t, UNCHANGED IS_APP_RUNNING
  PROVE  crashed' \/ Descends(t)
BY GoingDown DEF Dereference

LEMMA TickDescends ==
  ASSUME ClientInv, ~IS_APP_RUNNING, TickStep
  PROVE  Lock("tick") \/ crashed' \/ Descends("tick")
<1>0. "tick" \in Runner
  BY DEF Runner
<1>1. CASE ReadInfo("tick")
  BY <1>0, <1>1, GoingDown DEF ReadInfo, Inside, Return, app, Rank
<1>2. CASE CopyWorld("tick")
  BY <1>0, <1>2, GoingDown DEF CopyWorld, Inside, Return, app, Rank
<1>3. CASE AddInputs("tick")
  BY <1>0, <1>3, DereferencingDown DEF AddInputs, Inside, Rank
<1>4. CASE PutWorld("tick")
  BY <1>0, <1>4, DereferencingDown DEF PutWorld, Inside, Rank
<1>5. CASE ReadWorld("tick")
  BY <1>0, <1>5, GoingDown DEF ReadWorld, Inside, Return, app, Rank
<1>6. CASE ReadId("tick")
  BY <1>0, <1>6, DereferencingDown DEF ReadId, Inside, Rank
<1>7. CASE Send("tick")
  BY <1>0, <1>7, GoingDown DEF Send, Return, app, Rank, Section, InfoSection, WorldSection,
                               InputsSection
<1>8. CASE Sent("tick")
  BY <1>0, <1>8, GoingDown DEF Sent, Return, Rank, Section, InfoSection, WorldSection,
                               InputsSection
<1>9. CASE Frame
  BY <1>0, <1>9, GoingDown DEF Frame, app, Rank, Section, InfoSection, WorldSection,
                               InputsSection
<1>10. CASE CheckInfo
  BY <1>0, <1>10, GoingDown DEF CheckInfo, Inside, app, Rank
<1>11. QED
  BY <1>1, <1>2, <1>3, <1>4, <1>5, <1>6, <1>7, <1>8, <1>9, <1>10 DEF TickStep, Tick

LEMMA NetDescends ==
  ASSUME ClientInv, ~IS_APP_RUNNING, NetStep
  PROVE  Lock("net") \/ crashed' \/ Descends("net")
<1>0. "net" \in Runner
  BY DEF Runner
<1>1. CASE NetLoop
  BY <1>0, <1>1, GoingDown DEF NetLoop, app, Rank, Section, InfoSection, WorldSection,
                               InputsSection
<1>2. CASE ServiceNothing \/ ReceiveUserInfo
  BY <1>0, <1>2, GoingDown DEF ServiceNothing, ReceiveUserInfo, app, Rank, Section,
                               InfoSection, WorldSection, InputsSection
<1>3. CASE ReceiveSlaveConnected
  BY <1>0, <1>3, GoingDown DEF ReceiveSlaveConnected, app, Rank, Section, InfoSection,
                               WorldSection, InputsSection
<1>4. CASE ReceivePlayerInput
  BY <1>0, <1>4, GoingDown DEF ReceivePlayerInput, app, Rank, Section, InfoSection,
                               WorldSection, InputsSection
<1>5. CASE SetInfo \/ InitWorld
  BY <1>0, <1>5, GoingDown DEF SetInfo, InitWorld, Inside, app, Rank
<1>6. CASE InitInputs \/ AddSlave
  BY <1>0, <1>6, GoingDown DEF InitInputs, AddSlave, Inside, app, Rank
<1>7. CASE SetInput
  BY <1>0, <1>7, GoingDown, DereferencingDown DEF SetInput, Inside, Rank
<1>8. CASE PopNothing \/ PopCommand
  BY <1>0, <1>8, GoingDown DEF PopNothing, PopCommand, app, Rank, Section, InfoSection,
                               WorldSection, InputsSection
<1>9. CASE ConnectToHost \/ RequestUserInfo \/ Requested
  BY <1>0, <1>9, GoingDown DEF ConnectToHost, RequestUserInfo, Requested, app, Rank, Section,
                               InfoSection, WorldSection, InputsSection
<1>10. CASE Disconnect
  BY <1>0, <1>10, GoingDown DEF Disconnect, Rank, Section, InfoSection, WorldSection,
                                InputsSection
<1>11. CASE DestroyHost \/ ForgetHost
  BY <1>0, <1>11, GoingDown DEF DestroyHost, ForgetHost, app, Rank, Section, InfoSection,
                                WorldSection, InputsSection
<1>12. QED
  BY <1>1, <1>2, <1>3, <1>4, <1>5, <1>6, <1>7, <1>8, <1>9, <1>10, <1>11 DEF NetStep

LEMMA RunnerDescends ==
  ASSUME ClientInv, ~IS_APP_RUNNING, NEW t \in Runner, RunnerStep(t)
  PROVE  Lock(t) \/ crashed' \/ Descends(t)
BY TickDescends, NetDescends DEF RunnerStep, Runner

-----------------------------------------------------------------------------
(* The steps of the threads while main waits for them.                      *)

\* main has told the threads to end and joins them.
Joining == pc["main"] = "join" /\ ~IS_APP_RUNNING /\ ~crashed

\* A step that is not one of t's.
LeavesAlone(t) ==
  /\ pc'[t] = pc[t]
  /\ \A m \in Mutex : owner[m] = t <=> owner'[m] = t

LEMMA StepsWhileJoining ==
  ASSUME ClientInv, Joining, [Next]_vars
  PROVE  /\ Joining' \/ Over'
         /\ \/ Over'
            \/ UNCHANGED <<pc, owner>>
            \/ \E t \in Runner : RunnerStep(t) /\ (Lock(t) \/ Descends(t))
<1>0. pc \in [Thread -> UNION {Place(u) : u \in Thread}]
  BY DEF ClientInv, TypeOK, PlacesOK
<1>1. CASE MainStep
  <2>1. ~Lock("main") /\ ~Tick("main") /\ ~TypeCommand /\ ~PushRequest /\ ~TypeExit /\ ~StopThreads
    BY DEF Joining, Lock, Section, InfoSection, WorldSection, InputsSection, Tick, ReadInfo,
           CopyWorld, AddInputs, PutWorld, ReadWorld, ReadId, Send, Sent, Inside, TypeCommand,
           PushRequest, TypeExit, StopThreads
  <2>2. Exit
    BY <1>1, <2>1 DEF MainStep
  <2>3. pc'["main"] = "exited"
    BY <1>0, <2>2 DEF Exit, Goto, Thread
  <2>4. QED  BY <2>3 DEF Over
<1>2. CASE \E t \in Runner : RunnerStep(t)
  <2>1. PICK t \in Runner : RunnerStep(t)
    BY <1>2
  <2>2. t # "main" /\ "main" \in Thread
    BY DEF Runner, Thread
  <2>3. CASE Lock(t)
    BY <2>1, <2>3 DEF Lock, app, Joining
  <2>4. CASE crashed'
    BY <2>4 DEF Over
  <2>5. CASE Descends(t)
    BY <2>1, <2>2, <2>5 DEF Descends, GivesBack, Joining
  <2>6. QED
    BY <2>1, <2>3, <2>4, <2>5, RunnerDescends DEF Joining
<1>3. CASE ServerRegisters \/ LinkLost \/ UNCHANGED vars
  BY <1>3 DEF ServerRegisters, LinkLost, vars, app, Joining
<1>4. QED
  BY <1>1, <1>2, <1>3 DEF Next, Over, Joining, RunnerStep, Runner

\* What a step is to one thread: it locks, goes down, or is the step of another.
LEMMA StepOfThread ==
  ASSUME ClientInv, Joining, [Next]_vars, NEW t \in Runner
  PROVE  Over' \/ (Joining' /\ (LeavesAlone(t) \/ Lock(t) \/ Descends(t)))
<1>1. owner \in [Mutex -> Thread \union {Nobody}] /\ Runner \subseteq Thread /\ Nobody \notin Thread
  BY ClientAssumption DEF ClientInv, TypeOK, DataOK, Runner, Thread
<1>2. CASE UNCHANGED <<pc, owner>>
  BY <1>2, StepsWhileJoining DEF LeavesAlone
<1>3. ASSUME NEW u \in Runner, u # t, Lock(u) PROVE LeavesAlone(t)
  BY <1>1, <1>3 DEF Lock, LeavesAlone
<1>4. ASSUME NEW u \in Runner, u # t, Descends(u) PROVE LeavesAlone(t)
  BY <1>1, <1>4 DEF Descends, GivesBack, LeavesAlone
<1>5. QED  BY <1>2, <1>3, <1>4, StepsWhileJoining

\* How far a thread is, and that it is farther or all is over.
At(t, k) == Joining /\ Rank(pc[t]) = k
Lower(t, k) == Over \/ (Joining /\ Rank(pc[t]) < k)

\* A thread that can go on for itself, one whose mutex is free, and one whose
\* mutex another thread has.
Runs(t, k) == At(t, k) /\ ~Waits(t)
Free(t, k) == At(t, k) /\ Waits(t) /\ owner[Guard(pc[t])] = Nobody
Contends(t, u, k) == At(t, k) /\ Waits(t) /\ owner[Guard(pc[t])] = u

LEMMA Guarded == \A label : Guard(label) \in Mutex
BY DEF Guard, Mutex

\* main holds no mutex, so it is one of the two others that keeps a thread waiting.
LEMMA WhoIsWaitedFor ==
  ASSUME ClientInv, NEW t \in Runner, NEW k \in 1 .. 9, At(t, k)
  PROVE  Runs(t, k) \/ Free(t, k) \/ \E u \in Runner \ {t} : Contends(t, u, k)
<1>1. CASE Waits(t)
  <2>1. owner[Guard(pc[t])] \in Thread \union {Nobody}
    BY Guarded DEF ClientInv, TypeOK, DataOK
  <2>2. owner[Guard(pc[t])] # "main"
    BY Guarded, ClientAssumption
       DEF At, Joining, ClientInv, MutexesAreHeldInTheirSections, Section, InfoSection,
           WorldSection, InputsSection
  <2>3. owner[Guard(pc[t])] # t
    BY <1>1 DEF Waits
  <2>4. QED  BY <1>1, <2>1, <2>2, <2>3 DEF Free, Contends, Thread, Runner
<1>2. CASE ~Waits(t)
  BY <1>2 DEF Runs
<1>3. QED  BY <1>1, <1>2

LEMMA ThreadStaysOrDescends ==
  ASSUME ClientInv, [Next]_vars, NEW t \in Runner, NEW k \in 1 .. 9, At(t, k)
  PROVE  /\ At(t, k)' \/ Lower(t, k)'
         /\ Runs(t, k) => Runs(t, k)' \/ Lower(t, k)'
         /\ Lock(t) => Runs(t, k)' \/ Lower(t, k)'
         /\ Runs(t, k) /\ RunnerStep(t) => Lower(t, k)'
<1>1. /\ ClientInv /\ Joining /\ Rank(pc[t]) = k
      /\ Rank(pc[t]) \in 0 .. 9 /\ Rank(pc'[t]) \in 0 .. 9
  BY RankIsSmall DEF At
<1>2. Over' \/ (Joining' /\ (LeavesAlone(t) \/ Lock(t) \/ Descends(t)))
  BY <1>1, StepOfThread
<1>3. Descends(t) /\ Joining' => Lower(t, k)'
  BY <1>1 DEF Descends, Lower
<1>4. Over' => Lower(t, k)'
  BY DEF Lower
<1>5. LeavesAlone(t) /\ Joining' => At(t, k)' /\ (Runs(t, k) => Runs(t, k)')
  BY <1>1, Guarded DEF LeavesAlone, At, Runs, Waits
<1>6. Lock(t) /\ Joining' => At(t, k)' /\ Runs(t, k)'
  BY <1>1, Guarded DEF Lock, At, Runs, Waits, ClientInv, TypeOK, DataOK
<1>7. Runs(t, k) => ~Lock(t)
  BY ClientAssumption DEF Runs, Waits, Lock, Runner
<1>8. Runs(t, k) /\ RunnerStep(t) => Lower(t, k)'
  BY <1>1, <1>2, <1>3, <1>4, <1>7, RunnerDescends DEF Joining, Over
<1>9. QED  BY <1>2, <1>3, <1>4, <1>5, <1>6, <1>8

LEMMA ContentionEnds ==
  ASSUME ClientInv, [Next]_vars, NEW t \in Runner, NEW u \in Runner \ {t}, NEW k \in 1 .. 9,
         Contends(t, u, k)
  PROVE  /\ Contends(t, u, k)' \/ Free(t, k)' \/ Lower(t, k)'
         /\ RunnerStep(u) => Free(t, k)' \/ Lower(t, k)'
         /\ pc[u] \in Section /\ ~Waits(u) /\ pc[u] # "loop" /\ pc[u] # "ended"
<1>1. /\ ClientInv /\ Joining /\ Rank(pc[t]) = k /\ t \in Thread /\ u \in Thread /\ u # t
      /\ pc[t] \in Section /\ owner[Guard(pc[t])] = u /\ Guard(pc[t]) \in Mutex
      /\ owner \in [Mutex -> Thread \union {Nobody}] /\ Nobody \notin Thread
      /\ Thread = {"main", "tick", "net"}
  BY Guarded, ClientAssumption
     DEF Contends, At, Waits, ClientInv, TypeOK, DataOK, Runner, Thread
<1>2. pc[u] \in Section /\ Guard(pc[u]) = Guard(pc[t])
  BY <1>1 DEF ClientInv, MutexesAreHeldInTheirSections
<1>3. ~Waits(u) /\ pc[u] # "loop" /\ pc[u] # "ended"
  BY <1>1, <1>2 DEF Waits, Section, InfoSection, WorldSection, InputsSection
<1>4. ~Lock(t) /\ ~Lock(u)
  BY <1>1, <1>2 DEF Lock
<1>5. ~Descends(t) \/ Lower(t, k)' \/ Over' \/ ~Joining'
  BY <1>1, RankIsSmall DEF Descends, GivesBack, Lower
<1>6. Descends(u) /\ Joining' => Free(t, k)'
  BY <1>1, <1>2 DEF Descends, GivesBack, Free, At, Waits
<1>7. LeavesAlone(t) /\ LeavesAlone(u) /\ Joining' => Contends(t, u, k)'
  BY <1>1 DEF LeavesAlone, Contends, At, Waits
<1>8. Over' => Lower(t, k)'
  BY DEF Lower
<1>9. Over' \/ (Joining' /\ (LeavesAlone(t) \/ Descends(t)) /\ (LeavesAlone(u) \/ Descends(u)))
  BY <1>1, <1>4, StepOfThread
<1>10. RunnerStep(u) => Free(t, k)' \/ Lower(t, k)'
  BY <1>1, <1>4, <1>6, <1>8, <1>9, RunnerDescends DEF Joining, Over
<1>11. QED  BY <1>2, <1>3, <1>5, <1>6, <1>7, <1>8, <1>9, <1>10

-----------------------------------------------------------------------------
(* The threads end, and then main does.                                     *)

LEMMA FairnessOfRunner ==
  ASSUME NEW t \in Runner
  PROVE  FairSpec => RunnerIsFair(t)
BY DEF FairSpec

LEMMA ClientStates == FairSpec => []ClientInv /\ [][Next]_vars
BY ClientInvariance, PTL DEF FairSpec, Spec

\* A mutex that is waited for is given back.
Released(t, k) == Free(t, k) \/ Lower(t, k)

LEMMA MutexIsGivenBack ==
  ASSUME NEW t \in Runner, NEW k \in 1 .. 9, NEW u \in Runner \ {t}
  PROVE  FairSpec /\ []ThreadsCanGoOn =>
           (Contends(t, u, k) ~> Released(t, k))
<1> DEFINE P == Contends(t, u, k)
           Q == Released(t, k)
<1>1. ClientInv /\ P /\ [Next]_vars => P' \/ Q'
  BY ContentionEnds DEF Released
<1>2. ClientInv /\ P /\ [Next]_vars /\ RunnerStep(u) => Q'
  BY ContentionEnds DEF Released
<1>3. ClientInv /\ ThreadsCanGoOn /\ P /\ [Next]_vars => CanStep(u)
  <2>1. ClientInv /\ P /\ [Next]_vars => pc[u] # "ended" /\ pc[u] # "loop" /\ ~Waits(u)
    BY ContentionEnds
  <2>2. P => ~crashed
    BY DEF Contends, At, Joining
  <2>3. QED  BY <2>1, <2>2 DEF ThreadsCanGoOn
<1> HIDE DEF P, Q
<1>4. RunnerIsFair(u) => []<>~CanStep(u) \/ []<><<~crashed /\ RunnerStep(u)>>_vars
  BY PTL DEF RunnerIsFair, CanStep, CanLock
<1>5. FairSpec => RunnerIsFair(u)
  BY FairnessOfRunner
<1>6. FairSpec /\ []ThreadsCanGoOn => (P ~> Q)
  BY <1>1, <1>2, <1>3, <1>4, <1>5, ClientStates, PTL
<1>7. QED  BY <1>6 DEF P, Q

\* A thread does not stay where it is.
LEMMA ThreadGoesDown ==
  ASSUME NEW t \in Runner, NEW k \in 1 .. 9
  PROVE  FairSpec /\ []ThreadsCanGoOn => (At(t, k) ~> Lower(t, k))
<1>1. PICK u \in Runner \ {t} : Runner = {t, u}
  BY DEF Runner
<1> DEFINE A == At(t, k)
           R == Runs(t, k)
           F == Free(t, k)
           C == Contends(t, u, k)
           L == Lower(t, k)
<1>2. ClientInv /\ A => R \/ F \/ C
  BY <1>1, WhoIsWaitedFor
<1>3. ClientInv /\ A /\ [Next]_vars => /\ A' \/ L'
                                       /\ R => R' \/ L'
                                       /\ Lock(t) => R' \/ L'
                                       /\ R /\ RunnerStep(t) => L'
  BY ThreadStaysOrDescends
<1>4. R => A
  BY DEF Runs
<1>5. ThreadsCanGoOn /\ R => CanStep(t)
  <2>1. R => pc[t] # "ended" /\ ~crashed /\ ~IS_APP_RUNNING /\ ~Waits(t)
    BY DEF Runs, At, Joining, Rank
  <2>2. QED  BY <2>1 DEF ThreadsCanGoOn
<1>6. ThreadsCanGoOn /\ F => CanLock(t)
  BY DEF ThreadsCanGoOn, Free, At, Joining
<1>7. FairSpec /\ []ThreadsCanGoOn => (C ~> F \/ L)
  <2>1. FairSpec /\ []ThreadsCanGoOn => (Contends(t, u, k) ~> Released(t, k))
    BY MutexIsGivenBack
  <2>2. Released(t, k) => F \/ L
    BY DEF Released
  <2>3. QED  BY <2>1, <2>2, PTL
<1> HIDE DEF A, R, F, C, L
<1>8. RunnerIsFair(t) => /\ []<>~CanStep(t) \/ []<><<~crashed /\ RunnerStep(t)>>_vars
                         /\ <>[]~CanLock(t) \/ []<><<~crashed /\ Lock(t)>>_vars
  BY PTL DEF RunnerIsFair, CanStep, CanLock
<1>9. FairSpec => RunnerIsFair(t)
  BY FairnessOfRunner
<1>10. FairSpec /\ []ThreadsCanGoOn => (R ~> L)
  BY <1>3, <1>4, <1>5, <1>8, <1>9, ClientStates, PTL
<1>11. FairSpec /\ []ThreadsCanGoOn => (A ~> R \/ L)
  BY <1>2, <1>3, <1>6, <1>7, <1>8, <1>9, ClientStates, PTL
<1>12. FairSpec /\ []ThreadsCanGoOn => (A ~> L)
  BY <1>10, <1>11, PTL
<1>13. QED  BY <1>12 DEF A, L

\* From wherever it is a thread gets to its end.
Ended(t) == Over \/ (Joining /\ pc[t] = "ended")

\* A number gets a name in each step below, as TLAPS does not instantiate a
\* temporal formula with a numeral.
LEMMA ThreadEnds ==
  ASSUME NEW t \in Runner
  PROVE  FairSpec /\ []ThreadsCanGoOn => (Joining ~> Ended(t))
<1> DEFINE Below(n) == Lower(t, n)
<1>0. \A n \in 1 .. 9 : Below(n + 1) => At(t, n) \/ Below(n)
  BY RankIsSmall DEF At, Lower
<1> HIDE DEF Below
<1>1. FairSpec /\ []ThreadsCanGoOn => (Below(10) ~> Below(9))
  <2>1. PICK k \in 1 .. 9 : k = 9
    OBVIOUS
  <2>2. FairSpec /\ []ThreadsCanGoOn => (At(t, k) ~> Lower(t, k))
    BY ThreadGoesDown
  <2>3. (Below(10) => At(t, k) \/ Below(9)) /\ (Lower(t, k) => Below(9))
    BY <1>0, <2>1 DEF Below
  <2>4. QED  BY <2>2, <2>3, PTL
<1>2. FairSpec /\ []ThreadsCanGoOn => (Below(9) ~> Below(8))
  <2>1. PICK k \in 1 .. 9 : k = 8
    OBVIOUS
  <2>2. FairSpec /\ []ThreadsCanGoOn => (At(t, k) ~> Lower(t, k))
    BY ThreadGoesDown
  <2>3. (Below(9) => At(t, k) \/ Below(8)) /\ (Lower(t, k) => Below(8))
    BY <1>0, <2>1 DEF Below
  <2>4. QED  BY <2>2, <2>3, PTL
<1>3. FairSpec /\ []ThreadsCanGoOn => (Below(8) ~> Below(7))
  <2>1. PICK k \in 1 .. 9 : k = 7
    OBVIOUS
  <2>2. FairSpec /\ []ThreadsCanGoOn => (At(t, k) ~> Lower(t, k))
    BY ThreadGoesDown
  <2>3. (Below(8) => At(t, k) \/ Below(7)) /\ (Lower(t, k) => Below(7))
    BY <1>0, <2>1 DEF Below
  <2>4. QED  BY <2>2, <2>3, PTL
<1>4. FairSpec /\ []ThreadsCanGoOn => (Below(7) ~> Below(6))
  <2>1. PICK k \in 1 .. 9 : k = 6
    OBVIOUS
  <2>2. FairSpec /\ []ThreadsCanGoOn => (At(t, k) ~> Lower(t, k))
    BY ThreadGoesDown
  <2>3. (Below(7) => At(t, k) \/ Below(6)) /\ (Lower(t, k) => Below(6))
    BY <1>0, <2>1 DEF Below
  <2>4. QED  BY <2>2, <2>3, PTL
<1>5. FairSpec /\ []ThreadsCanGoOn => (Below(6) ~> Below(5))
  <2>1. PICK k \in 1 .. 9 : k = 5
    OBVIOUS
  <2>2. FairSpec /\ []ThreadsCanGoOn => (At(t, k) ~> Lower(t, k))
    BY ThreadGoesDown
  <2>3. (Below(6) => At(t, k) \/ Below(5)) /\ (Lower(t, k) => Below(5))
    BY <1>0, <2>1 DEF Below
  <2>4. QED  BY <2>2, <2>3, PTL
<1>6. FairSpec /\ []ThreadsCanGoOn => (Below(5) ~> Below(4))
  <2>1. PICK k \in 1 .. 9 : k = 4
    OBVIOUS
  <2>2. FairSpec /\ []ThreadsCanGoOn => (At(t, k) ~> Lower(t, k))
    BY ThreadGoesDown
  <2>3. (Below(5) => At(t, k) \/ Below(4)) /\ (Lower(t, k) => Below(4))
    BY <1>0, <2>1 DEF Below
  <2>4. QED  BY <2>2, <2>3, PTL
<1>7. FairSpec /\ []ThreadsCanGoOn => (Below(4) ~> Below(3))
  <2>1. PICK k \in 1 .. 9 : k = 3
    OBVIOUS
  <2>2. FairSpec /\ []ThreadsCanGoOn => (At(t, k) ~> Lower(t, k))
    BY ThreadGoesDown
  <2>3. (Below(4) => At(t, k) \/ Below(3)) /\ (Lower(t, k) => Below(3))
    BY <1>0, <2>1 DEF Below
  <2>4. QED  BY <2>2, <2>3, PTL
<1>8. FairSpec /\ []ThreadsCanGoOn => (Below(3) ~> Below(2))
  <2>1. PICK k \in 1 .. 9 : k = 2
    OBVIOUS
  <2>2. FairSpec /\ []ThreadsCanGoOn => (At(t, k) ~> Lower(t, k))
    BY ThreadGoesDown
  <2>3. (Below(3) => At(t, k) \/ Below(2)) /\ (Lower(t, k) => Below(2))
    BY <1>0, <2>1 DEF Below
  <2>4. QED  BY <2>2, <2>3, PTL
<1>9. FairSpec /\ []ThreadsCanGoOn => (Below(2) ~> Below(1))
  <2>1. PICK k \in 1 .. 9 : k = 1
    OBVIOUS
  <2>2. FairSpec /\ []ThreadsCanGoOn => (At(t, k) ~> Lower(t, k))
    BY ThreadGoesDown
  <2>3. (Below(2) => At(t, k) \/ Below(1)) /\ (Lower(t, k) => Below(1))
    BY <1>0, <2>1 DEF Below
  <2>4. QED  BY <2>2, <2>3, PTL
<1>10. (Joining => Below(10)) /\ (Below(1) => Ended(t))
  <2>1. Rank(pc[t]) \in 0 .. 9 /\ (Rank(pc[t]) = 0 => pc[t] = "ended")
    BY RankIsSmall DEF Rank
  <2>2. QED  BY <2>1 DEF Below, Lower, Ended
<1>11. QED
  BY <1>1, <1>2, <1>3, <1>4, <1>5, <1>6, <1>7, <1>8, <1>9, <1>10, PTL

\* A thread that has ended has.
LEMMA EndedStays ==
  ASSUME ClientInv, [Next]_vars, NEW t \in Runner, Ended(t), ~Over
  PROVE  Ended(t)'
<1>1. Joining /\ pc[t] = "ended" /\ Rank(pc[t]) = 0
  BY DEF Ended, Rank
<1>2. ~Descends(t)
  BY <1>1, RankIsSmall DEF Descends
<1>3. ~Lock(t)
  BY <1>1 DEF Lock, Section, InfoSection, WorldSection, InputsSection
<1>4. QED  BY <1>1, <1>2, <1>3, StepOfThread DEF LeavesAlone, Ended

\* The threads move themselves, not main.
LEMMA RunnersDoNotMoveMain ==
  ASSUME TypeOK, NEW t \in Runner, RunnerStep(t)
  PROVE  pc'["main"] = pc["main"]
<1>1. t \in Thread /\ "main" \in Thread \ {t}
  BY DEF Runner, Thread
<1>2. CASE TickStep /\ t = "tick"
  BY <1>1, <1>2, GotoMoves, DereferenceMoves
     DEF TickStep, Tick, Lock, ReadInfo, CopyWorld, AddInputs, PutWorld, ReadWorld, ReadId,
         Send, Sent, Frame, CheckInfo, Return
<1>3. CASE NetStep /\ t = "net"
  <2>1. ASSUME \/ Lock("net") \/ NetLoop \/ ServiceNothing \/ ReceiveUserInfo
               \/ ReceiveSlaveConnected \/ ReceivePlayerInput \/ SetInfo \/ InitWorld
               \/ InitInputs \/ AddSlave \/ SetInput
        PROVE  pc'["main"] = pc["main"]
    BY <1>1, <1>3, <2>1, GotoMoves, DereferenceMoves
       DEF Lock, NetLoop, ServiceNothing, ReceiveUserInfo, ReceiveSlaveConnected,
           ReceivePlayerInput, SetInfo, InitWorld, InitInputs, AddSlave, SetInput
  <2>2. ASSUME \/ PopNothing \/ PopCommand \/ ConnectToHost \/ RequestUserInfo \/ Requested
               \/ Disconnect \/ DestroyHost \/ ForgetHost
        PROVE  pc'["main"] = pc["main"]
    BY <1>1, <1>3, <2>2, GotoMoves
       DEF PopNothing, PopCommand, ConnectToHost, RequestUserInfo, Requested, Disconnect,
           DestroyHost, ForgetHost
  <2>3. QED  BY <1>3, <2>1, <2>2 DEF NetStep
<1>4. QED  BY <1>2, <1>3 DEF RunnerStep

\* main's second of sleep, and its wait for the two threads.
LEMMA StepsOfMain ==
  ASSUME ClientInv, [Next]_vars, ~Over
  PROVE  /\ pc["main"] = "sleep" => (pc'["main"] = "sleep" /\ ~crashed') \/ Joining' \/ Over'
         /\ pc["main"] = "sleep" /\ (StopThreads \/ Exit) => Joining' \/ Over'
         /\ pc["main"] = "join" /\ (StopThreads \/ Exit) => Over'
<1>1. TypeOK /\ "main" \in Thread
  BY DEF ClientInv, Thread
<1>2. StopThreads => pc["main"] = "sleep" /\ Joining'
  BY <1>1, GotoMoves DEF StopThreads, Joining, Over
<1>3. Exit => pc["main"] = "join" /\ Over'
  BY <1>1, GotoMoves DEF Exit, Over
<1>4. ASSUME pc["main"] = "sleep", ~StopThreads
      PROVE  pc'["main"] = "sleep"
  <2>1. ~Lock("main") /\ ~Tick("main") /\ ~TypeCommand /\ ~PushRequest /\ ~TypeExit /\ ~Exit
    BY <1>4 DEF Lock, Section, InfoSection, WorldSection, InputsSection, Tick, ReadInfo,
           CopyWorld, AddInputs, PutWorld, ReadWorld, ReadId, Send, Sent, Inside, TypeCommand,
           PushRequest, TypeExit, Exit
  <2>2. CASE \E t \in Runner : RunnerStep(t)
    BY <1>1, <1>4, <2>2, RunnersDoNotMoveMain
  <2>3. CASE ServerRegisters \/ LinkLost \/ UNCHANGED vars
    BY <1>4, <2>3 DEF ServerRegisters, LinkLost, vars
  <2>4. QED
    BY <1>4, <2>1, <2>2, <2>3 DEF Next, MainStep, RunnerStep, Runner, Over
<1>5. QED  BY <1>2, <1>3, <1>4 DEF Over

\* "exit" ends the client (client.c:822-837): main sleeps, tells the threads to
\* end and joins them, and neither of them hangs, at a mutex, in its loop or with
\* a command, whatever it was doing and whatever had been queued.
THEOREM ExitEndsTheClient == FairSpec /\ []ThreadsCanGoOn => ExitTerminates
<1> DEFINE Sleeps == pc["main"] = "sleep"
           Joins == Joining
           TickEnded == Ended("tick")
           NetEnded == Ended("net")
           Done == Over
           CanRun == ENABLED <<~crashed /\ (StopThreads \/ Exit)>>_vars
<1>1. ClientInv /\ [Next]_vars /\ ~Done =>
        /\ Sleeps => Sleeps' \/ Joins' \/ Done'
        /\ Sleeps /\ (StopThreads \/ Exit) => Joins' \/ Done'
        /\ Joins => Joins' \/ Done'
        /\ Joins /\ (StopThreads \/ Exit) => Done'
        /\ TickEnded => TickEnded'
        /\ NetEnded => NetEnded'
  <2>1. Joining => pc["main"] = "join"
    BY DEF Joining
  <2>2. "tick" \in Runner /\ "net" \in Runner
    BY DEF Runner
  <2>3. QED  BY <2>1, <2>2, StepsOfMain, StepsWhileJoining, EndedStays
<1>2. ThreadsCanGoOn /\ ~Done => /\ Sleeps => CanRun
                                 /\ Joins /\ TickEnded /\ NetEnded => CanRun
  BY DEF ThreadsCanGoOn, Over, Joining, Ended
<1>3. FairSpec /\ []ThreadsCanGoOn => (Joins ~> TickEnded)
  <2>1. PICK t \in Runner : t = "tick"
    BY DEF Runner
  <2>2. FairSpec /\ []ThreadsCanGoOn => (Joining ~> Ended(t))
    BY ThreadEnds
  <2>3. Ended(t) <=> TickEnded
    BY <2>1
  <2> HIDE DEF TickEnded
  <2>4. QED  BY <2>2, <2>3, PTL
<1>4. FairSpec /\ []ThreadsCanGoOn => (Joins ~> NetEnded)
  <2>1. PICK t \in Runner : t = "net"
    BY DEF Runner
  <2>2. FairSpec /\ []ThreadsCanGoOn => (Joining ~> Ended(t))
    BY ThreadEnds
  <2>3. Ended(t) <=> NetEnded
    BY <2>1
  <2> HIDE DEF NetEnded
  <2>4. QED  BY <2>2, <2>3, PTL
<1> HIDE DEF Sleeps, Joins, TickEnded, NetEnded, Done
<1>5. MainIsFair => []<>~CanRun \/ []<><<~crashed /\ (StopThreads \/ Exit)>>_vars
  BY PTL DEF MainIsFair
<1>6. FairSpec => MainIsFair
  BY DEF FairSpec
<1> HIDE DEF CanRun
<1>7. FairSpec /\ []ThreadsCanGoOn => (Sleeps ~> Joins \/ Done)
  BY <1>1, <1>2, <1>5, <1>6, ClientStates, PTL
<1>8. FairSpec /\ []ThreadsCanGoOn => (Joins ~> (Joins /\ TickEnded /\ NetEnded) \/ Done)
  BY <1>1, <1>3, <1>4, ClientStates, PTL
<1>9. FairSpec /\ []ThreadsCanGoOn => (Joins /\ TickEnded /\ NetEnded ~> Done)
  BY <1>1, <1>2, <1>5, <1>6, ClientStates, PTL
<1>10. FairSpec /\ []ThreadsCanGoOn => (Sleeps ~> Done)
  BY <1>7, <1>8, <1>9, PTL
<1>11. QED  BY <1>10 DEF Sleeps, Done, ExitTerminates

-----------------------------------------------------------------------------
(* The next command is taken.                                               *)

\* A command waits in the queue of a client that goes on.
Stopped == ~IS_APP_RUNNING \/ crashed
Pending == commands # <<>> /\ ~Stopped

\* The net thread takes the next command when the queue is not empty.
CommandsAreTaken == [](commands # <<>> => <><<PopCommand>>_vars \/ <>Stopped)

\* How far the net thread can be from its queue.
Distance(label) ==
  CASE label = "pop" -> 0
    [] label \in {"add_slave", "set_input", "init_inputs"} -> 1
    [] label = "init_world" -> 2
    [] label = "set_info" -> 3
    [] label = "service" -> 4
    [] label = "loop" -> 5
    [] label \in {"connecting", "requesting"} -> 6
    [] label = "request" -> 7
    [] OTHER -> 8

LEMMA DistanceIsSmall == \A label : Distance(label) \in 0 .. 8
BY DEF Distance

\* A client with a command has no disconnect behind it, nor one under way.
LEMMA PendingPlaces ==
  ASSUME ClientInv, Pending
  PROVE  /\ pc["net"] \in {"loop", "service", "set_info", "init_world", "init_inputs", "add_slave",
                           "set_input", "pop", "connecting", "request", "requesting"}
         /\ Distance(pc["net"]) \in 0 .. 7
         /\ ~IS_DISCONNECTED
         /\ pc["main"] \notin {"join", "exited"} /\ pc["tick"] # "ended"
<1>1. pc["net"] \in Place("net") /\ "net" \in Runner /\ "tick" \in Runner
  BY DEF ClientInv, TypeOK, PlacesOK, Thread, Runner
<1>2. /\ pc["net"] \notin {"disconnect", "disconnecting", "destroyed", "ended"}
      /\ ~IS_DISCONNECTED /\ pc["main"] \notin {"join", "exited"} /\ pc["tick"] # "ended"
  BY <1>1 DEF ClientInv, DisconnectComesLast, Pending, Stopped
<1>3. QED  BY <1>1, <1>2 DEF Place, Distance

\* A step of the net thread towards its queue, whose commands are still there.
Approaches ==
  /\ Distance(pc'["net"]) < Distance(pc["net"])
  /\ GivesBack("net")
  /\ UNCHANGED <<IS_APP_RUNNING, commands>>

LEMMA Approaching ==
  ASSUME ClientInv, NEW label, Goto("net", label), Distance(label) < Distance(pc["net"]),
         UNCHANGED <<IS_APP_RUNNING, commands>>,
         \/ pc["net"] \notin Section /\ UNCHANGED owner
         \/ owner[Guard(pc["net"])] = "net" /\ Unlock("net")
  PROVE  Approaches
<1>1. "net" \in Thread
  BY DEF Thread
<1>2. QED  BY <1>1, SteppingOut DEF Approaches

LEMMA NetApproaches ==
  ASSUME ClientInv, Pending, NetStep
  PROVE  Lock("net") \/ PopCommand \/ crashed' \/ Approaches
<1>0. ~IS_DISCONNECTED /\ IS_APP_RUNNING /\ commands # <<>>
  BY PendingPlaces DEF Pending, Stopped
<1>1. CASE NetLoop \/ ServiceNothing
  <2>1. \/ pc["net"] = "loop" /\ (Goto("net", "service") \/ Goto("net", "pop"))
        \/ pc["net"] = "service" /\ Goto("net", "pop")
    BY <1>0, <1>1 DEF NetLoop, ServiceNothing
  <2>2. UNCHANGED <<owner, IS_APP_RUNNING, commands>>
    BY <1>1 DEF NetLoop, ServiceNothing, app
  <2>3. QED
    BY <2>1, <2>2, Approaching DEF Distance, Section, InfoSection, WorldSection, InputsSection
<1>2. CASE ReceiveUserInfo \/ ReceiveSlaveConnected
  BY <1>2, Approaching
     DEF ReceiveUserInfo, ReceiveSlaveConnected, app, Distance, Section, InfoSection,
         WorldSection, InputsSection
<1>3. CASE ReceivePlayerInput
  BY <1>3, Approaching
     DEF ReceivePlayerInput, app, Distance, Section, InfoSection, WorldSection, InputsSection
<1>4. CASE SetInfo \/ InitWorld
  BY <1>4, Approaching DEF SetInfo, InitWorld, Inside, app, Distance
<1>5. CASE InitInputs \/ AddSlave
  BY <1>5, Approaching DEF InitInputs, AddSlave, Inside, app, Distance
<1>6. CASE SetInput
  BY <1>6, Approaching DEF SetInput, Dereference, Inside, Distance
<1>7. CASE ConnectToHost \/ RequestUserInfo \/ Requested
  BY <1>7, Approaching
     DEF ConnectToHost, RequestUserInfo, Requested, app, Distance, Section, InfoSection,
         WorldSection, InputsSection
<1>8. CASE PopNothing \/ Disconnect \/ DestroyHost \/ ForgetHost
  BY <1>0, <1>8, PendingPlaces DEF PopNothing, Disconnect, DestroyHost, ForgetHost
<1>9. QED
  BY <1>1, <1>2, <1>3, <1>4, <1>5, <1>6, <1>7, <1>8 DEF NetStep

\* The steps of the threads that can be in the way.
TickerStep(u) == (u = "main" /\ MainStep) \/ (u = "tick" /\ TickStep)

LEMMA TickGivesBack ==
  ASSUME ClientInv, NEW u \in Ticker, Tick(u)
  PROVE  crashed' \/ GivesBack(u)
<1>0. u \in Thread
  BY DEF Ticker, Thread
<1>1. CASE ReadInfo(u) \/ CopyWorld(u) \/ ReadWorld(u)
  BY <1>0, <1>1, SteppingOut DEF ReadInfo, CopyWorld, ReadWorld, Inside, Return
<1>2. CASE AddInputs(u) \/ PutWorld(u) \/ ReadId(u)
  BY <1>0, <1>2, SteppingOut DEF AddInputs, PutWorld, ReadId, Inside, Dereference
<1>3. CASE Send(u) \/ Sent(u)
  BY <1>0, <1>3, SteppingOut
     DEF Send, Sent, Return, Section, InfoSection, WorldSection, InputsSection
<1>4. QED  BY <1>1, <1>2, <1>3 DEF Tick

LEMMA TickerGivesBack ==
  ASSUME ClientInv, NEW u \in Ticker, TickerStep(u)
  PROVE  /\ Lock(u) \/ crashed' \/ GivesBack(u)
         /\ commands # <<>> => commands' # <<>>
<1>0. /\ "main" \in Thread /\ "tick" \in Thread /\ "main" \in Ticker /\ "tick" \in Ticker
      /\ commands \in Seq(Command) /\ TypeOK
  BY DEF Ticker, Thread, ClientInv, TypeOK, DataOK
<1>1. CASE Lock(u)
  BY <1>1 DEF Lock, app
<1>2. CASE Tick(u)
  BY <1>0, <1>2, TickGivesBack, StepsOfATick
<1>3. CASE u = "tick" /\ (Frame \/ CheckInfo)
  BY <1>0, <1>3, SteppingOut
     DEF Frame, CheckInfo, Inside, app, Section, InfoSection, WorldSection, InputsSection
<1>4. CASE u = "main" /\ (TypeCommand \/ PushRequest \/ TypeExit \/ StopThreads \/ Exit)
  BY <1>0, <1>4, SteppingOut
     DEF TypeCommand, PushRequest, TypeExit, StopThreads, Exit, Push, app, Section, InfoSection,
         WorldSection, InputsSection
<1>5. QED
  BY <1>1, <1>2, <1>3, <1>4 DEF TickerStep, MainStep, TickStep

\* What a step is while a command waits: the command is taken, the client stops,
\* or one of the three threads locks or goes on, if it is the net thread towards
\* its queue.
LEMMA StepWhilePending ==
  ASSUME ClientInv, Pending, [Next]_vars
  PROVE  \/ Stopped' \/ PopCommand
         \/ Pending' /\ UNCHANGED <<pc, owner>>
         \/ Pending' /\ NetStep /\ (Lock("net") \/ Approaches)
         \/ Pending' /\ \E u \in Ticker : TickerStep(u) /\ (Lock(u) \/ GivesBack(u))
<1>1. CASE NetStep
  BY <1>1, NetApproaches DEF Lock, app, Approaches, Pending, Stopped
<1>2. CASE \E u \in Ticker : TickerStep(u)
  BY <1>2, TickerGivesBack DEF Pending, Stopped
<1>3. CASE ServerRegisters \/ LinkLost \/ UNCHANGED vars
  BY <1>3 DEF ServerRegisters, LinkLost, vars, app, Pending, Stopped
<1>4. QED
  BY <1>1, <1>2, <1>3 DEF Next, Over, TickerStep, Ticker

\* How far the net thread is from its queue, and that it is nearer or all is over.
AtDistance(k) == Pending /\ Distance(pc["net"]) = k
Within(k) == Stopped \/ (Pending /\ Distance(pc["net"]) < k)

NetRuns(k) == AtDistance(k) /\ ~Waits("net")
NetMayLock(k) == AtDistance(k) /\ Waits("net") /\ owner[Guard(pc["net"])] = Nobody
NetWaitsFor(u, k) == AtDistance(k) /\ Waits("net") /\ owner[Guard(pc["net"])] = u

LEMMA WhomNetWaitsFor ==
  ASSUME ClientInv, NEW k \in 0 .. 7, AtDistance(k)
  PROVE  NetRuns(k) \/ NetMayLock(k) \/ \E u \in Ticker : NetWaitsFor(u, k)
<1>1. owner[Guard(pc["net"])] \in Thread \union {Nobody}
  BY Guarded DEF ClientInv, TypeOK, DataOK
<1>2. QED  BY <1>1 DEF NetRuns, NetMayLock, NetWaitsFor, Waits, Thread, Ticker

LEMMA NetStaysOrApproaches ==
  ASSUME ClientInv, [Next]_vars, ~PopCommand, NEW k \in 0 .. 7, AtDistance(k)
  PROVE  /\ AtDistance(k)' \/ Within(k)'
         /\ NetRuns(k) => NetRuns(k)' \/ Within(k)'
         /\ Lock("net") => NetRuns(k)' \/ Within(k)'
         /\ NetRuns(k) /\ NetStep => Within(k)'
<1>1. /\ Pending /\ Distance(pc["net"]) = k /\ Distance(pc'["net"]) \in 0 .. 8
      /\ owner \in [Mutex -> Thread \union {Nobody}] /\ Nobody \notin Thread
      /\ "net" \in Thread /\ "net" \notin Ticker
      /\ Guard(pc["net"]) \in Mutex
  BY DistanceIsSmall, Guarded, ClientAssumption
     DEF AtDistance, ClientInv, TypeOK, DataOK, Thread, Ticker
<1>2. ASSUME NEW u \in Ticker, Lock(u) \/ GivesBack(u)
      PROVE  LeavesAlone("net")
  BY <1>1, <1>2 DEF Lock, GivesBack, LeavesAlone, Ticker
<1>3. Pending' /\ LeavesAlone("net") => AtDistance(k)' /\ (NetRuns(k) => NetRuns(k)')
  BY <1>1 DEF LeavesAlone, AtDistance, NetRuns, Waits
<1>4. Pending' /\ UNCHANGED <<pc, owner>> => LeavesAlone("net")
  BY DEF LeavesAlone
<1>5. Pending' /\ Approaches => Within(k)'
  BY <1>1 DEF Approaches, Within
<1>6. Pending' /\ Lock("net") => NetRuns(k)'
  BY <1>1 DEF Lock, AtDistance, NetRuns, Waits
<1>7. Stopped' => Within(k)'
  BY DEF Within
<1>8. NetRuns(k) => ~Lock("net")
  BY <1>1 DEF NetRuns, Waits, Lock
<1>9. /\ AtDistance(k)' \/ Within(k)'
      /\ NetRuns(k) => NetRuns(k)' \/ Within(k)'
  BY <1>1, <1>2, <1>3, <1>4, <1>5, <1>6, <1>7, <1>8, StepWhilePending DEF NetRuns
<1>10. NetStep => Lock("net") \/ Stopped' \/ (Pending' /\ Approaches)
  BY <1>1, NetApproaches DEF Approaches, Pending, Stopped
<1>11. Lock("net") => Pending'
  BY <1>1 DEF Lock, app, Pending, Stopped
<1>12. QED  BY <1>5, <1>6, <1>7, <1>8, <1>9, <1>10, <1>11

\* The thread that has the mutex gives it back with its next step.
LEMMA NetsWaitEnds ==
  ASSUME ClientInv, [Next]_vars, ~PopCommand, NEW u \in Ticker, NEW k \in 0 .. 7,
         NetWaitsFor(u, k)
  PROVE  /\ NetWaitsFor(u, k)' \/ NetMayLock(k)' \/ Within(k)'
         /\ TickerStep(u) => NetMayLock(k)' \/ Within(k)'
         /\ pc[u] \in Section /\ ~Waits(u)
<1>1. /\ Pending /\ Distance(pc["net"]) = k /\ Distance(pc'["net"]) \in 0 .. 8
      /\ pc["net"] \in Section /\ owner[Guard(pc["net"])] = u /\ Guard(pc["net"]) \in Mutex
      /\ owner \in [Mutex -> Thread \union {Nobody}] /\ Nobody \notin Thread
      /\ "net" \in Thread /\ "net" \notin Ticker /\ u \in Thread /\ Ticker \subseteq Thread
  BY DistanceIsSmall, Guarded, ClientAssumption
     DEF NetWaitsFor, AtDistance, Waits, ClientInv, TypeOK, DataOK, Thread, Ticker
<1>2. pc[u] \in Section /\ Guard(pc[u]) = Guard(pc["net"])
  BY <1>1 DEF ClientInv, MutexesAreHeldInTheirSections
<1>3. ~Waits(u)
  BY <1>1, <1>2 DEF Waits
<1>4. ~Lock("net") /\ ~Lock(u)
  BY <1>1, <1>2 DEF Lock
<1>5. Pending' /\ Approaches => Within(k)'
  BY <1>1 DEF Approaches, Within
<1>6. Pending' /\ GivesBack(u) => NetMayLock(k)'
  BY <1>1 DEF GivesBack, NetMayLock, AtDistance, Waits
<1>7. ASSUME NEW v \in Ticker, v # u, Lock(v) \/ GivesBack(v), Pending'
      PROVE  NetWaitsFor(u, k)'
  BY <1>1, <1>7 DEF Lock, GivesBack, NetWaitsFor, AtDistance, Waits
<1>8. Pending' /\ UNCHANGED <<pc, owner>> => NetWaitsFor(u, k)'
  BY <1>1 DEF NetWaitsFor, AtDistance, Waits
<1>9. Stopped' => Within(k)'
  BY DEF Within
<1>10. NetWaitsFor(u, k)' \/ NetMayLock(k)' \/ Within(k)'
  BY <1>1, <1>4, <1>5, <1>6, <1>7, <1>8, <1>9, StepWhilePending
<1>11. TickerStep(u) => NetMayLock(k)' \/ Within(k)'
  <2>1. TickerStep(u) => crashed' \/ (GivesBack(u) /\ commands' # <<>>)
    BY <1>1, <1>4, TickerGivesBack DEF Pending
  <2>2. QED  BY <1>6, <1>9, <2>1 DEF Pending, Stopped
<1>12. QED  BY <1>2, <1>3, <1>10, <1>11

LEMMA CommandIsTaken == ClientInv /\ PopCommand => <<PopCommand>>_vars
<1>1. ASSUME NEW s \in Seq(Command), s # <<>> PROVE Tail(s) # s
  BY <1>1
<1>2. ClientInv /\ PopCommand => commands' # commands
  BY <1>1 DEF ClientInv, TypeOK, DataOK, PopCommand
<1>3. QED  BY <1>2 DEF vars, app

\* A mutex the net thread waits for is given back.
LEMMA NetsMutexIsGivenBack ==
  ASSUME NEW k \in 0 .. 7, NEW u \in Ticker
  PROVE  FairSpec /\ []ThreadsCanGoOn =>
           [](NetWaitsFor(u, k) => <>(NetMayLock(k) \/ Within(k)) \/ <><<PopCommand>>_vars)
<1> DEFINE P == NetWaitsFor(u, k)
           Q == NetMayLock(k) \/ Within(k)
<1>1. ClientInv /\ P /\ [Next]_vars => P' \/ Q' \/ <<PopCommand>>_vars
  BY NetsWaitEnds, CommandIsTaken
<1>2. CASE u = "main"
  <2> DEFINE Can == ENABLED <<~crashed /\ Tick("main")>>_vars
  <2>1. ClientInv /\ P /\ [Next]_vars /\ Tick("main") => Q' \/ <<PopCommand>>_vars
    BY <1>2, NetsWaitEnds, CommandIsTaken DEF TickerStep, MainStep
  <2>2. ClientInv /\ ThreadsCanGoOn /\ P /\ [Next]_vars => Can \/ <<PopCommand>>_vars
    <3>1. Section \intersect Place("main") \subseteq InTick
      BY DEF Section, InfoSection, WorldSection, InputsSection, Place, InTick
    <3>2. ClientInv => pc["main"] \in Place("main")
      BY DEF ClientInv, TypeOK, PlacesOK, Thread
    <3>3. P => ~crashed
      BY DEF NetWaitsFor, AtDistance, Pending, Stopped
    <3>4. QED
      BY <1>2, <3>1, <3>2, <3>3, NetsWaitEnds, CommandIsTaken DEF ThreadsCanGoOn
  <2> HIDE DEF P, Q
  <2>3. FairSpec => MainIsFair
    BY DEF FairSpec
  <2>4. MainIsFair => []<>~Can \/ []<><<~crashed /\ Tick("main")>>_vars
    BY PTL DEF MainIsFair
  <2> HIDE DEF Can
  <2>5. FairSpec /\ []ThreadsCanGoOn => [](P => <>Q \/ <><<PopCommand>>_vars)
    BY <1>1, <2>1, <2>2, <2>3, <2>4, ClientStates, PTL
  <2>6. QED  BY <2>5 DEF P, Q
<1>3. CASE u = "tick"
  <2>1. ClientInv /\ P /\ [Next]_vars /\ RunnerStep("tick") => Q' \/ <<PopCommand>>_vars
    BY <1>3, NetsWaitEnds, CommandIsTaken DEF TickerStep, RunnerStep
  <2>2. ClientInv /\ ThreadsCanGoOn /\ P /\ [Next]_vars => CanStep("tick") \/ <<PopCommand>>_vars
    <3>1. P => ~crashed
      BY DEF NetWaitsFor, AtDistance, Pending, Stopped
    <3>2. "loop" \notin Section /\ "ended" \notin Section /\ "tick" \in Runner
      BY DEF Section, InfoSection, WorldSection, InputsSection, Runner
    <3>3. QED
      BY <1>3, <3>1, <3>2, NetsWaitEnds, CommandIsTaken DEF ThreadsCanGoOn
  <2> HIDE DEF P, Q
  <2>3. PICK t \in Runner : t = "tick"
    BY DEF Runner
  <2>4. FairSpec => RunnerIsFair(t)
    BY FairnessOfRunner
  <2>5. RunnerIsFair(t) => []<>~CanStep(t) \/ []<><<~crashed /\ RunnerStep(t)>>_vars
    BY PTL DEF RunnerIsFair, CanStep, CanLock
  <2>6. ClientInv /\ P /\ [Next]_vars /\ RunnerStep(t) => Q' \/ <<PopCommand>>_vars
    BY <2>1, <2>3
  <2>7. ClientInv /\ ThreadsCanGoOn /\ P /\ [Next]_vars => CanStep(t) \/ <<PopCommand>>_vars
    BY <2>2, <2>3
  <2>8. FairSpec /\ []ThreadsCanGoOn => [](P => <>Q \/ <><<PopCommand>>_vars)
    BY <1>1, <2>4, <2>5, <2>6, <2>7, ClientStates, PTL
  <2>9. QED  BY <2>8 DEF P, Q
<1>4. QED  BY <1>2, <1>3 DEF Ticker

\* The net thread does not stay where it is.
LEMMA NetGetsNearer ==
  ASSUME NEW k \in 0 .. 7
  PROVE  FairSpec /\ []ThreadsCanGoOn =>
           [](AtDistance(k) => <>Within(k) \/ <><<PopCommand>>_vars)
<1> DEFINE A == AtDistance(k)
           R == NetRuns(k)
           F == NetMayLock(k)
           M == NetWaitsFor("main", k)
           C == NetWaitsFor("tick", k)
           L == Within(k)
<1>1. ClientInv /\ A => R \/ F \/ M \/ C
  BY WhomNetWaitsFor DEF Ticker
<1>2. ClientInv /\ A /\ [Next]_vars =>
        \/ <<PopCommand>>_vars
        \/ /\ A' \/ L'
           /\ R => R' \/ L'
           /\ Lock("net") => R' \/ L'
           /\ R /\ RunnerStep("net") => L'
  BY NetStaysOrApproaches, CommandIsTaken DEF RunnerStep
<1>3. R => A
  BY DEF NetRuns
<1>4. ClientInv /\ ThreadsCanGoOn /\ R => CanStep("net")
  <2>1. ClientInv /\ R => pc["net"] # "ended" /\ ~crashed /\ ~IS_DISCONNECTED /\ ~Waits("net")
    BY PendingPlaces DEF NetRuns, AtDistance, Pending, Stopped
  <2>2. QED  BY <2>1 DEF ThreadsCanGoOn, Runner
<1>5. ThreadsCanGoOn /\ F => CanLock("net")
  BY DEF ThreadsCanGoOn, NetMayLock, AtDistance, Pending, Stopped, Runner
<1>6. FairSpec /\ []ThreadsCanGoOn => [](M => <>(F \/ L) \/ <><<PopCommand>>_vars)
  <2>1. PICK u \in Ticker : u = "main"
    BY DEF Ticker
  <2>2. FairSpec /\ []ThreadsCanGoOn =>
          [](NetWaitsFor(u, k) => <>(NetMayLock(k) \/ Within(k)) \/ <><<PopCommand>>_vars)
    BY NetsMutexIsGivenBack
  <2>3. M => NetWaitsFor(u, k)
    BY <2>1
  <2> HIDE DEF M
  <2>4. QED  BY <2>2, <2>3, PTL
<1>7. FairSpec /\ []ThreadsCanGoOn => [](C => <>(F \/ L) \/ <><<PopCommand>>_vars)
  <2>1. PICK u \in Ticker : u = "tick"
    BY DEF Ticker
  <2>2. FairSpec /\ []ThreadsCanGoOn =>
          [](NetWaitsFor(u, k) => <>(NetMayLock(k) \/ Within(k)) \/ <><<PopCommand>>_vars)
    BY NetsMutexIsGivenBack
  <2>3. C => NetWaitsFor(u, k)
    BY <2>1
  <2> HIDE DEF C
  <2>4. QED  BY <2>2, <2>3, PTL
<1>8. PICK t \in Runner : t = "net"
  BY DEF Runner
<1>9. FairSpec => RunnerIsFair(t)
  BY FairnessOfRunner
<1>10. RunnerIsFair(t) => /\ []<>~CanStep(t) \/ []<><<~crashed /\ RunnerStep(t)>>_vars
                          /\ <>[]~CanLock(t) \/ []<><<~crashed /\ Lock(t)>>_vars
  BY PTL DEF RunnerIsFair, CanStep, CanLock
<1>11. ClientInv /\ A /\ [Next]_vars =>
         \/ <<PopCommand>>_vars
         \/ /\ A' \/ L'
            /\ R => R' \/ L'
            /\ Lock(t) => R' \/ L'
            /\ R /\ RunnerStep(t) => L'
  BY <1>2, <1>8
<1>12. (ClientInv /\ ThreadsCanGoOn /\ R => CanStep(t)) /\ (ThreadsCanGoOn /\ F => CanLock(t))
  BY <1>4, <1>5, <1>8
<1> HIDE DEF A, R, F, M, C, L
<1>13. FairSpec /\ []ThreadsCanGoOn => [](R => <>L \/ <><<PopCommand>>_vars)
  BY <1>3, <1>9, <1>10, <1>11, <1>12, ClientStates, PTL
<1>14. FairSpec /\ []ThreadsCanGoOn => [](A => <>(R \/ L) \/ <><<PopCommand>>_vars)
  BY <1>1, <1>6, <1>7, <1>9, <1>10, <1>11, <1>12, ClientStates, PTL
<1>15. FairSpec /\ []ThreadsCanGoOn => [](A => <>L \/ <><<PopCommand>>_vars)
  BY <1>13, <1>14, PTL
<1>16. QED  BY <1>15 DEF A, L

\* From wherever it is the net thread gets to a command that waits for it.
LEMMA NetGetsThere == FairSpec /\ []ThreadsCanGoOn =>
                        [](Pending => <>Stopped \/ <><<PopCommand>>_vars)
<1> DEFINE Below(n) == Within(n)
<1>0. \A n \in 0 .. 7 : Below(n + 1) => AtDistance(n) \/ Below(n)
  BY DistanceIsSmall DEF AtDistance, Within
<1> HIDE DEF Below
<1>1. FairSpec /\ []ThreadsCanGoOn => [](Below(8) => <>Below(7) \/ <><<PopCommand>>_vars)
  <2>1. PICK k \in 0 .. 7 : k = 7
    OBVIOUS
  <2>2. FairSpec /\ []ThreadsCanGoOn => [](AtDistance(k) => <>Within(k) \/ <><<PopCommand>>_vars)
    BY NetGetsNearer
  <2>3. (Below(8) => AtDistance(k) \/ Below(7)) /\ (Within(k) => Below(7))
    BY <1>0, <2>1 DEF Below
  <2>4. QED  BY <2>2, <2>3, PTL
<1>2. FairSpec /\ []ThreadsCanGoOn => [](Below(7) => <>Below(6) \/ <><<PopCommand>>_vars)
  <2>1. PICK k \in 0 .. 7 : k = 6
    OBVIOUS
  <2>2. FairSpec /\ []ThreadsCanGoOn => [](AtDistance(k) => <>Within(k) \/ <><<PopCommand>>_vars)
    BY NetGetsNearer
  <2>3. (Below(7) => AtDistance(k) \/ Below(6)) /\ (Within(k) => Below(6))
    BY <1>0, <2>1 DEF Below
  <2>4. QED  BY <2>2, <2>3, PTL
<1>3. FairSpec /\ []ThreadsCanGoOn => [](Below(6) => <>Below(5) \/ <><<PopCommand>>_vars)
  <2>1. PICK k \in 0 .. 7 : k = 5
    OBVIOUS
  <2>2. FairSpec /\ []ThreadsCanGoOn => [](AtDistance(k) => <>Within(k) \/ <><<PopCommand>>_vars)
    BY NetGetsNearer
  <2>3. (Below(6) => AtDistance(k) \/ Below(5)) /\ (Within(k) => Below(5))
    BY <1>0, <2>1 DEF Below
  <2>4. QED  BY <2>2, <2>3, PTL
<1>4. FairSpec /\ []ThreadsCanGoOn => [](Below(5) => <>Below(4) \/ <><<PopCommand>>_vars)
  <2>1. PICK k \in 0 .. 7 : k = 4
    OBVIOUS
  <2>2. FairSpec /\ []ThreadsCanGoOn => [](AtDistance(k) => <>Within(k) \/ <><<PopCommand>>_vars)
    BY NetGetsNearer
  <2>3. (Below(5) => AtDistance(k) \/ Below(4)) /\ (Within(k) => Below(4))
    BY <1>0, <2>1 DEF Below
  <2>4. QED  BY <2>2, <2>3, PTL
<1>5. FairSpec /\ []ThreadsCanGoOn => [](Below(4) => <>Below(3) \/ <><<PopCommand>>_vars)
  <2>1. PICK k \in 0 .. 7 : k = 3
    OBVIOUS
  <2>2. FairSpec /\ []ThreadsCanGoOn => [](AtDistance(k) => <>Within(k) \/ <><<PopCommand>>_vars)
    BY NetGetsNearer
  <2>3. (Below(4) => AtDistance(k) \/ Below(3)) /\ (Within(k) => Below(3))
    BY <1>0, <2>1 DEF Below
  <2>4. QED  BY <2>2, <2>3, PTL
<1>6. FairSpec /\ []ThreadsCanGoOn => [](Below(3) => <>Below(2) \/ <><<PopCommand>>_vars)
  <2>1. PICK k \in 0 .. 7 : k = 2
    OBVIOUS
  <2>2. FairSpec /\ []ThreadsCanGoOn => [](AtDistance(k) => <>Within(k) \/ <><<PopCommand>>_vars)
    BY NetGetsNearer
  <2>3. (Below(3) => AtDistance(k) \/ Below(2)) /\ (Within(k) => Below(2))
    BY <1>0, <2>1 DEF Below
  <2>4. QED  BY <2>2, <2>3, PTL
<1>7. FairSpec /\ []ThreadsCanGoOn => [](Below(2) => <>Below(1) \/ <><<PopCommand>>_vars)
  <2>1. PICK k \in 0 .. 7 : k = 1
    OBVIOUS
  <2>2. FairSpec /\ []ThreadsCanGoOn => [](AtDistance(k) => <>Within(k) \/ <><<PopCommand>>_vars)
    BY NetGetsNearer
  <2>3. (Below(2) => AtDistance(k) \/ Below(1)) /\ (Within(k) => Below(1))
    BY <1>0, <2>1 DEF Below
  <2>4. QED  BY <2>2, <2>3, PTL
<1>8. FairSpec /\ []ThreadsCanGoOn => [](Below(1) => <>Below(0) \/ <><<PopCommand>>_vars)
  <2>1. PICK k \in 0 .. 7 : k = 0
    OBVIOUS
  <2>2. FairSpec /\ []ThreadsCanGoOn => [](AtDistance(k) => <>Within(k) \/ <><<PopCommand>>_vars)
    BY NetGetsNearer
  <2>3. (Below(1) => AtDistance(k) \/ Below(0)) /\ (Within(k) => Below(0))
    BY <1>0, <2>1 DEF Below
  <2>4. QED  BY <2>2, <2>3, PTL
<1>9. ClientInv => (Pending => Below(8)) /\ (Below(0) => Stopped)
  BY PendingPlaces, DistanceIsSmall DEF Below, Within
<1>10. QED
  BY <1>1, <1>2, <1>3, <1>4, <1>5, <1>6, <1>7, <1>8, <1>9, ClientStates, PTL

\* While the application runs a command in the queue is never left there
\* (client.c:431-448): the net thread takes one, with a connection or without,
\* wherever it is and whatever the other threads do with the mutexes it wants.
THEOREM CommandsGetTaken == FairSpec /\ []ThreadsCanGoOn => CommandsAreTaken
<1> DEFINE Waiting == commands # <<>>
           S == Stopped
           P == Pending
<1>1. Waiting => P \/ S
  BY DEF Pending
<1>2. FairSpec /\ []ThreadsCanGoOn => [](P => <>S \/ <><<PopCommand>>_vars)
  BY NetGetsThere
<1> HIDE DEF Waiting, S, P
<1>3. FairSpec /\ []ThreadsCanGoOn => [](Waiting => <><<PopCommand>>_vars \/ <>S)
  BY <1>1, <1>2, PTL
<1>4. QED  BY <1>3 DEF Waiting, S, CommandsAreTaken
=============================================================================
