------------------------ MODULE ClientThreadsProofs ------------------------
(***************************************************************************)
(* Proofs about ClientThreads, for every set of Slaves, every room for them *)
(* in the world and any number of commands.                                *)
(***************************************************************************)
EXTENDS ClientThreads, TLAPS

-----------------------------------------------------------------------------
(* Types                                                                    *)

\* A thread that goes to one of its own places leaves the others where they are.
LEMMA GotoPlace ==
  ASSUME PlacesOK, NEW t \in Thread, NEW label \in Place(t), Goto(t, label)
  PROVE  PlacesOK'
BY DEF PlacesOK, Goto

\* A step that moves no thread.
LEMMA SamePlaces ==
  ASSUME PlacesOK, UNCHANGED pc
  PROVE  PlacesOK'
BY DEF PlacesOK

\* A dereference moves the thread on, or kills the process.
LEMMA DereferencePlace ==
  ASSUME PlacesOK, NEW t \in Thread, NEW pointer, NEW label \in Place(t),
         Dereference(t, pointer, label)
  PROVE  PlacesOK'
BY GotoPlace, SamePlaces DEF Dereference

\* Every step takes a thread to one of its own places.
LEMMA PlacesStep ==
  ASSUME TypeOK, [Next]_vars
  PROVE  PlacesOK'
<1>1. CASE \E t \in Thread : Lock(t)
  BY <1>1, SamePlaces DEF Lock, TypeOK
<1>2. CASE \E t \in Ticker : ReadInfo(t)
  BY <1>2, GotoPlace DEF ReadInfo, Return, TypeOK, Thread, Ticker, Place, InTick
<1>3. CASE \E t \in Ticker : CopyWorld(t)
  BY <1>3, GotoPlace DEF CopyWorld, Return, TypeOK, Thread, Ticker, Place, InTick
<1>4. CASE \E t \in Ticker : AddInputs(t)
  BY <1>4, DereferencePlace DEF AddInputs, TypeOK, Thread, Ticker, Place, InTick
<1>5. CASE \E t \in Ticker : PutWorld(t)
  BY <1>5, DereferencePlace DEF PutWorld, TypeOK, Thread, Ticker, Place, InTick
<1>6. CASE \E t \in Ticker : ReadWorld(t)
  BY <1>6, GotoPlace DEF ReadWorld, Return, TypeOK, Thread, Ticker, Place, InTick
<1>7. CASE \E t \in Ticker : ReadId(t)
  BY <1>7, DereferencePlace DEF ReadId, TypeOK, Thread, Ticker, Place, InTick
<1>8. CASE \E t \in Ticker : Send(t)
  BY <1>8, GotoPlace DEF Send, Return, TypeOK, Thread, Ticker, Place, InTick
<1>9. CASE \E t \in Ticker : Sent(t)
  BY <1>9, GotoPlace, SamePlaces DEF Sent, Return, TypeOK, Thread, Ticker, Place, InTick
<1>10. CASE Frame
  BY <1>10, GotoPlace DEF Frame, TypeOK, Thread, Ticker, Place, InTick
<1>11. CASE CheckInfo
  BY <1>11, GotoPlace DEF CheckInfo, TypeOK, Thread, Ticker, Place, InTick
<1>12. CASE TypeCommand
  BY <1>12, GotoPlace DEF TypeCommand, TypeOK, Thread, Ticker, Place, InTick
<1>13. CASE PushRequest
  BY <1>13, GotoPlace DEF PushRequest, TypeOK, Thread, Ticker, Place, InTick
<1>14. CASE TypeExit
  BY <1>14, GotoPlace DEF TypeExit, TypeOK, Thread, Ticker, Place, InTick
<1>15. CASE StopThreads
  BY <1>15, GotoPlace DEF StopThreads, TypeOK, Thread, Ticker, Place, InTick
<1>16. CASE Exit
  BY <1>16, GotoPlace DEF Exit, TypeOK, Thread, Ticker, Place, InTick
<1>17. CASE NetLoop
  BY <1>17, GotoPlace DEF NetLoop, TypeOK, Thread, Ticker, Place, InTick
<1>18. CASE ServiceNothing
  BY <1>18, GotoPlace DEF ServiceNothing, TypeOK, Thread, Ticker, Place, InTick
<1>19. CASE ReceiveUserInfo
  BY <1>19, GotoPlace DEF ReceiveUserInfo, TypeOK, Thread, Ticker, Place, InTick
<1>20. CASE ReceiveSlaveConnected
  BY <1>20, GotoPlace DEF ReceiveSlaveConnected, TypeOK, Thread, Ticker, Place, InTick
<1>21. CASE ReceivePlayerInput
  BY <1>21, GotoPlace DEF ReceivePlayerInput, TypeOK, Thread, Ticker, Place, InTick
<1>22. CASE SetInfo
  BY <1>22, GotoPlace DEF SetInfo, TypeOK, Thread, Ticker, Place, InTick
<1>23. CASE InitWorld
  BY <1>23, GotoPlace DEF InitWorld, TypeOK, Thread, Ticker, Place, InTick
<1>24. CASE InitInputs
  BY <1>24, GotoPlace DEF InitInputs, TypeOK, Thread, Ticker, Place, InTick
<1>25. CASE AddSlave
  BY <1>25, GotoPlace DEF AddSlave, TypeOK, Thread, Ticker, Place, InTick
<1>26. CASE SetInput
  BY <1>26, DereferencePlace, GotoPlace DEF SetInput, TypeOK, Thread, Place
<1>27. CASE PopNothing
  BY <1>27, GotoPlace DEF PopNothing, TypeOK, Thread, Ticker, Place, InTick
<1>28. CASE PopCommand
  BY <1>28, GotoPlace DEF PopCommand, TypeOK, Thread, Ticker, Place, InTick
<1>29. CASE ConnectToHost
  BY <1>29, GotoPlace DEF ConnectToHost, TypeOK, Thread, Ticker, Place, InTick
<1>30. CASE RequestUserInfo
  BY <1>30, GotoPlace DEF RequestUserInfo, TypeOK, Thread, Ticker, Place, InTick
<1>31. CASE Requested
  BY <1>31, GotoPlace DEF Requested, TypeOK, Thread, Ticker, Place, InTick
<1>32. CASE Disconnect
  BY <1>32, GotoPlace, SamePlaces DEF Disconnect, TypeOK, Thread, Place
<1>33. CASE DestroyHost
  BY <1>33, GotoPlace DEF DestroyHost, TypeOK, Thread, Ticker, Place, InTick
<1>34. CASE ForgetHost
  BY <1>34, GotoPlace DEF ForgetHost, TypeOK, Thread, Ticker, Place, InTick
<1>35. CASE ServerRegisters
  BY <1>35, SamePlaces DEF ServerRegisters, TypeOK
<1>36. CASE LinkLost
  BY <1>36, SamePlaces DEF LinkLost, TypeOK
<1>37. CASE UNCHANGED vars
  BY <1>37, SamePlaces DEF vars, TypeOK
<1>38. QED
  BY <1>1, <1>2, <1>3, <1>4, <1>5, <1>6, <1>7, <1>8, <1>9, <1>10, <1>11, <1>12, <1>13,
     <1>14, <1>15, <1>16, <1>17, <1>18, <1>19, <1>20, <1>21, <1>22, <1>23, <1>24, <1>25,
     <1>26, <1>27, <1>28, <1>29, <1>30, <1>31, <1>32, <1>33, <1>34, <1>35, <1>36, <1>37 DEF
     Next, MainStep, TickStep, NetStep, Tick, Thread, Ticker

\* Giving a mutex back keeps the type of owner.
LEMMA UnlockType ==
  ASSUME DataOK, NEW t, Unlock(t)
  PROVE  owner' \in [Mutex -> Thread \union {Nobody}]
BY DEF DataOK, Unlock

\* The same with a dereference before it.
LEMMA DereferenceType ==
  ASSUME DataOK, NEW t, NEW pointer, NEW label, Dereference(t, pointer, label)
  PROVE  owner' \in [Mutex -> Thread \union {Nobody}] /\ crashed' \in BOOLEAN
BY UnlockType DEF DataOK, Dereference

\* A connection no server has answered.
LEMMA NoLinkType ==
  NoLink \in [requested : BOOLEAN, role : Role \union {NULL}, answered : BOOLEAN]
BY DEF NoLink

\* What main pushes are commands.
LEMMA PushType ==
  ASSUME DataOK, NEW cmd \in Command, Push(cmd)
  PROVE  commands' \in Seq(Command)
<1>1. commands \in Seq(Command)
  BY DEF DataOK
<1>2. QED  BY <1>1 DEF Push

\* The world a Master starts with.
LEMMA EmptyWorld == [exists |-> {}, mine |-> 0] \in World
BY DEF World

\* Every step keeps the types of the data.
LEMMA DataStep ==
  ASSUME TypeOK, [Next]_vars
  PROVE  DataOK'
<1>1. CASE \E t \in Thread : Lock(t)
  BY <1>1 DEF Lock, TypeOK, DataOK, Thread, Ticker, app, pointers, locals, net
<1>2. CASE \E t \in Ticker : ReadInfo(t)
  BY <1>2 DEF ReadInfo, Inside, Unlock, Return, TypeOK, DataOK, Thread, Ticker, app,
     pointers, locals, net
<1>3. CASE \E t \in Ticker : CopyWorld(t)
  <2>1. PICK t \in Ticker : CopyWorld(t)
    BY <1>3
  <2>2. game_state' \in [Ticker -> World \union {NULL}]
    <3>1. CASE CURRENT_GAME_STATE = NULL
      BY <2>1, <3>1 DEF CopyWorld, TypeOK, DataOK
    <3>2. CASE CURRENT_GAME_STATE # NULL
      <4>1. [CURRENT_GAME_STATE EXCEPT !.mine = @ + UserInput(t)] \in World
        BY <3>2 DEF UserInput, World, TypeOK, DataOK
      <4>2. QED  BY <2>1, <3>2, <4>1 DEF CopyWorld, TypeOK, DataOK
    <3>3. QED  BY <3>1, <3>2
  <2>3. QED  BY <2>1, <2>2, UnlockType DEF CopyWorld, TypeOK, DataOK, app, pointers, locals, net
<1>4. CASE \E t \in Ticker : AddInputs(t)
  BY <1>4 DEF AddInputs, Inside, Unlock, Dereference, TypeOK, DataOK, Thread, Ticker, app,
     pointers, locals, net
<1>5. CASE \E t \in Ticker : PutWorld(t)
  BY <1>5, DereferenceType DEF PutWorld, Ticker, TypeOK, DataOK, app, pointers, locals, net
<1>6. CASE \E t \in Ticker : ReadWorld(t)
  BY <1>6 DEF ReadWorld, Inside, Unlock, Return, TypeOK, DataOK, Thread, Ticker, app,
     pointers, locals, net
<1>7. CASE \E t \in Ticker : ReadId(t)
  BY <1>7 DEF ReadId, Inside, Unlock, Dereference, TypeOK, DataOK, Thread, Ticker, app,
     pointers, locals, net
<1>8. CASE \E t \in Ticker : Send(t)
  BY <1>8 DEF Send, Return, TypeOK, DataOK, Thread, Ticker, app, pointers, locals, net
<1>9. CASE \E t \in Ticker : Sent(t)
  BY <1>9 DEF Sent, Return, TypeOK, DataOK, Thread, Ticker, app, pointers, locals, net
<1>10. CASE Frame
  BY <1>10 DEF Frame, TypeOK, DataOK, Thread, Ticker, app, pointers, locals, net
<1>11. CASE CheckInfo
  BY <1>11, UnlockType DEF CheckInfo, TypeOK, DataOK, app, pointers, locals, net
<1>12. CASE TypeCommand
  <2>1. commands' \in Seq(Command)
    BY <1>12, PushType DEF TypeCommand, Command, TypeOK, DataOK
  <2>2. typed' \in 0 .. MaxCommands
    BY <1>12, ClientAssumption DEF TypeCommand, TypeOK, DataOK
  <2>3. user_input' \in {0, 1}
    BY <1>12 DEF TypeCommand, locals, TypeOK, DataOK
  <2>4. QED  BY <1>12, <2>1, <2>2, <2>3 DEF TypeCommand, TypeOK, DataOK, app, pointers, locals, net
<1>13. CASE PushRequest
  BY <1>13 DEF PushRequest, Push, Command, TypeOK, DataOK, Thread, Ticker, app, pointers,
     locals, net
<1>14. CASE TypeExit
  BY <1>14 DEF TypeExit, Push, Command, TypeOK, DataOK, Thread, Ticker, app, pointers,
     locals, net
<1>15. CASE StopThreads
  BY <1>15 DEF StopThreads, TypeOK, DataOK, Thread, Ticker, app, pointers, locals, net
<1>16. CASE Exit
  BY <1>16 DEF Exit, TypeOK, DataOK, Thread, Ticker, app, pointers, locals, net
<1>17. CASE NetLoop
  BY <1>17 DEF NetLoop, TypeOK, DataOK, Thread, Ticker, app, pointers, locals, net
<1>18. CASE ServiceNothing
  BY <1>18 DEF ServiceNothing, TypeOK, DataOK, Thread, Ticker, app, pointers, locals, net
<1>19. CASE ReceiveUserInfo
  BY <1>19 DEF ReceiveUserInfo, TypeOK, DataOK, Thread, Ticker, app, pointers, locals, net
<1>20. CASE ReceiveSlaveConnected
  BY <1>20 DEF ReceiveSlaveConnected, Role, TypeOK, DataOK, Thread, Ticker, app, pointers,
     locals, net
<1>21. CASE ReceivePlayerInput
  <2>1. event' \in Role
    BY <1>21 DEF ReceivePlayerInput, Role
  <2>2. QED  BY <1>21, <2>1 DEF ReceivePlayerInput, TypeOK, DataOK, app, pointers, locals, net
<1>22. CASE SetInfo
  BY <1>22 DEF SetInfo, Inside, Unlock, TypeOK, DataOK, Thread, Ticker, app, pointers,
     locals, net
<1>23. CASE InitWorld
  BY <1>23, EmptyWorld, UnlockType DEF InitWorld, TypeOK, DataOK, app, pointers, locals, net
<1>24. CASE InitInputs
  BY <1>24 DEF InitInputs, Inside, Unlock, TypeOK, DataOK, Thread, Ticker, app, pointers,
     locals, net
<1>25. CASE AddSlave
  <2>1. CURRENT_GAME_STATE' \in World \union {NULL}
    BY <1>25 DEF AddSlave, World, TypeOK, DataOK
  <2>2. QED  BY <1>25, <2>1, UnlockType DEF AddSlave, TypeOK, DataOK, app, pointers, locals, net
<1>26. CASE SetInput
  BY <1>26, UnlockType, DereferenceType DEF SetInput, TypeOK, DataOK, app, pointers, locals, net
<1>27. CASE PopNothing
  BY <1>27 DEF PopNothing, TypeOK, DataOK, Thread, Ticker, app, pointers, locals, net
<1>28. CASE PopCommand
  BY <1>28 DEF PopCommand, TypeOK, DataOK, Thread, Ticker, app, pointers, locals, net
<1>29. CASE ConnectToHost
  <2>1. link' \in [requested : BOOLEAN, role : Role \union {NULL}, answered : BOOLEAN]
    BY <1>29, NoLinkType DEF ConnectToHost, TypeOK, DataOK
  <2>2. CLIENT_PEER' \in {NULL, "up", "down", "freed"}
    BY <1>29 DEF ConnectToHost, TypeOK, DataOK
  <2>3. QED  BY <1>29, <2>1, <2>2 DEF ConnectToHost, TypeOK, DataOK, app, pointers, locals, net
<1>30. CASE RequestUserInfo
  BY <1>30 DEF RequestUserInfo, TypeOK, DataOK, Thread, Ticker, app, pointers, locals, net
<1>31. CASE Requested
  BY <1>31 DEF Requested, TypeOK, DataOK, Thread, Ticker, app, pointers, locals, net
<1>32. CASE Disconnect
  BY <1>32 DEF Disconnect, TypeOK, DataOK, Thread, Ticker, app, pointers, locals, net
<1>33. CASE DestroyHost
  BY <1>33 DEF DestroyHost, TypeOK, DataOK, Thread, Ticker, app, pointers, locals, net
<1>34. CASE ForgetHost
  BY <1>34 DEF ForgetHost, NoLink, TypeOK, DataOK, Thread, Ticker, app, pointers, locals,
     net
<1>35. CASE ServerRegisters
  BY <1>35 DEF ServerRegisters, TypeOK, DataOK, Thread, Ticker, app, pointers, locals, net
<1>36. CASE LinkLost
  BY <1>36 DEF LinkLost, TypeOK, DataOK, Thread, Ticker, app, pointers, locals, net
<1>37. CASE UNCHANGED vars
  BY <1>37 DEF vars, TypeOK, DataOK, Thread, Ticker, app, pointers, locals, net
<1>38. QED
  BY <1>1, <1>2, <1>3, <1>4, <1>5, <1>6, <1>7, <1>8, <1>9, <1>10, <1>11, <1>12, <1>13,
     <1>14, <1>15, <1>16, <1>17, <1>18, <1>19, <1>20, <1>21, <1>22, <1>23, <1>24, <1>25,
     <1>26, <1>27, <1>28, <1>29, <1>30, <1>31, <1>32, <1>33, <1>34, <1>35, <1>36, <1>37 DEF
     Next, MainStep, TickStep, NetStep, Tick, Thread, Ticker

-----------------------------------------------------------------------------
(* Mutexes                                                                  *)

\* A thread that is in none of the sections holds no mutex, wherever it goes.
LEMMA WalkOutside ==
  ASSUME TypeOK, MutexesAreHeldInTheirSections, NEW t \in Thread, pc[t] \notin Section,
         NEW label, Goto(t, label), UNCHANGED owner
  PROVE  MutexesAreHeldInTheirSections'
<1>1. \A m \in Mutex : owner[m] # t
  BY ClientAssumption DEF MutexesAreHeldInTheirSections, Thread
<1>2. \A u \in Thread \ {t} : pc'[u] = pc[u]
  BY DEF Goto, TypeOK, PlacesOK
<1>3. \A m \in Mutex : owner[m] \in Thread \union {Nobody}
  BY DEF TypeOK, DataOK
<1>4. QED
  BY <1>1, <1>2, <1>3 DEF MutexesAreHeldInTheirSections

\* A thread that unlocks the mutex of its section holds none.
LEMMA LeaveSection ==
  ASSUME TypeOK, MutexesAreHeldInTheirSections, NEW t \in Thread, Inside(t, pc[t]), Unlock(t),
         NEW label, Goto(t, label)
  PROVE  MutexesAreHeldInTheirSections'
<1>1. \A u \in Thread \ {t} : pc'[u] = pc[u]
  BY DEF Goto, TypeOK, PlacesOK
<1>2. \A m \in Mutex : owner[m] \in Thread \union {Nobody}
  BY DEF TypeOK, DataOK
<1>3. \A m \in Mutex : owner'[m] # Nobody => owner'[m] = owner[m] /\ owner[m] # t
  BY ClientAssumption DEF MutexesAreHeldInTheirSections, Unlock, TypeOK, DataOK, Thread
<1>4. QED
  BY <1>1, <1>2, <1>3 DEF MutexesAreHeldInTheirSections

\* A dereference leaves the section, or the process dies in it.
LEMMA DereferenceInSection ==
  ASSUME TypeOK, MutexesAreHeldInTheirSections, NEW t \in Thread, Inside(t, pc[t]),
         NEW pointer, NEW label, Dereference(t, pointer, label)
  PROVE  MutexesAreHeldInTheirSections'
BY LeaveSection DEF Dereference, MutexesAreHeldInTheirSections

\* Every step keeps the mutexes in their sections.
LEMMA MutexStep ==
  ASSUME TypeOK, MutexesAreHeldInTheirSections, [Next]_vars
  PROVE  MutexesAreHeldInTheirSections'
<1>1. CASE \E t \in Thread : Lock(t)
  <2>1. PICK t \in Thread : Lock(t)
    BY <1>1
  <2>2. \A m \in Mutex : owner'[m] # Nobody =>
          owner'[m] = owner[m] \/ (m = Guard(pc[t]) /\ owner'[m] = t)
    BY <2>1 DEF Lock, TypeOK, DataOK
  <2>3. QED
    BY <2>1, <2>2 DEF Lock, MutexesAreHeldInTheirSections
<1>2. CASE \E t \in Ticker : ReadInfo(t)
  BY <1>2, LeaveSection DEF ReadInfo, Inside, Thread, Ticker, Return
<1>3. CASE \E t \in Ticker : CopyWorld(t)
  BY <1>3, LeaveSection DEF CopyWorld, Inside, Thread, Ticker, Return
<1>4. CASE \E t \in Ticker : AddInputs(t)
  BY <1>4, DereferenceInSection DEF AddInputs, Inside, Thread, Ticker
<1>5. CASE \E t \in Ticker : PutWorld(t)
  BY <1>5, DereferenceInSection DEF PutWorld, Inside, Thread, Ticker
<1>6. CASE \E t \in Ticker : ReadWorld(t)
  BY <1>6, LeaveSection DEF ReadWorld, Inside, Thread, Ticker, Return
<1>7. CASE \E t \in Ticker : ReadId(t)
  BY <1>7, DereferenceInSection DEF ReadId, Inside, Thread, Ticker
<1>8. CASE \E t \in Ticker : Send(t)
  BY <1>8, WalkOutside DEF Send, Return, app, Thread, Ticker, Section, InfoSection,
     WorldSection, InputsSection
<1>9. CASE \E t \in Ticker : Sent(t)
  BY <1>9, WalkOutside DEF Sent, Return, Thread, Ticker, Section, InfoSection, WorldSection,
     InputsSection, MutexesAreHeldInTheirSections
<1>10. CASE Frame
  BY <1>10, WalkOutside DEF Frame, app, Thread, Section, InfoSection, WorldSection,
     InputsSection
<1>11. CASE CheckInfo
  BY <1>11, LeaveSection DEF CheckInfo, Inside, Thread, Ticker
<1>12. CASE TypeCommand
  BY <1>12, WalkOutside DEF TypeCommand, app, Thread, Section, InfoSection, WorldSection,
     InputsSection
<1>13. CASE PushRequest
  BY <1>13, WalkOutside DEF PushRequest, app, Thread, Section, InfoSection, WorldSection,
     InputsSection
<1>14. CASE TypeExit
  BY <1>14, WalkOutside DEF TypeExit, app, Thread, Section, InfoSection, WorldSection,
     InputsSection
<1>15. CASE StopThreads
  BY <1>15, WalkOutside DEF StopThreads, app, Thread, Section, InfoSection, WorldSection,
     InputsSection
<1>16. CASE Exit
  BY <1>16, WalkOutside DEF Exit, app, Thread, Section, InfoSection, WorldSection,
     InputsSection
<1>17. CASE NetLoop
  BY <1>17, WalkOutside DEF NetLoop, app, Thread, Ticker, Section, InfoSection,
     WorldSection, InputsSection
<1>18. CASE ServiceNothing
  BY <1>18, WalkOutside DEF ServiceNothing, app, Thread, Ticker, Section, InfoSection,
     WorldSection, InputsSection
<1>19. CASE ReceiveUserInfo
  BY <1>19, WalkOutside DEF ReceiveUserInfo, app, Thread, Ticker, Section, InfoSection,
     WorldSection, InputsSection
<1>20. CASE ReceiveSlaveConnected
  BY <1>20, WalkOutside DEF ReceiveSlaveConnected, app, Thread, Ticker, Section,
     InfoSection, WorldSection, InputsSection
<1>21. CASE ReceivePlayerInput
  BY <1>21, WalkOutside DEF ReceivePlayerInput, app, Thread, Ticker, Section, InfoSection,
     WorldSection, InputsSection
<1>22. CASE SetInfo
  BY <1>22, LeaveSection DEF SetInfo, Inside, Thread, Ticker
<1>23. CASE InitWorld
  BY <1>23, LeaveSection DEF InitWorld, Inside, Thread, Ticker
<1>24. CASE InitInputs
  BY <1>24, LeaveSection DEF InitInputs, Inside, Thread, Ticker
<1>25. CASE AddSlave
  BY <1>25, LeaveSection DEF AddSlave, Inside, Thread, Ticker
<1>26. CASE SetInput
  BY <1>26, DereferenceInSection, LeaveSection DEF SetInput, Inside, Thread, Ticker
<1>27. CASE PopNothing
  BY <1>27, WalkOutside DEF PopNothing, app, Thread, Ticker, Section, InfoSection,
     WorldSection, InputsSection
<1>28. CASE PopCommand
  BY <1>28, WalkOutside DEF PopCommand, app, Thread, Ticker, Section, InfoSection,
     WorldSection, InputsSection
<1>29. CASE ConnectToHost
  BY <1>29, WalkOutside DEF ConnectToHost, app, Thread, Ticker, Section, InfoSection,
     WorldSection, InputsSection
<1>30. CASE RequestUserInfo
  BY <1>30, WalkOutside DEF RequestUserInfo, app, Thread, Ticker, Section, InfoSection,
     WorldSection, InputsSection
<1>31. CASE Requested
  BY <1>31, WalkOutside DEF Requested, app, Thread, Ticker, Section, InfoSection,
     WorldSection, InputsSection
<1>32. CASE Disconnect
  BY <1>32, WalkOutside DEF Disconnect, app, Thread, Ticker, Section, InfoSection,
     WorldSection, InputsSection, MutexesAreHeldInTheirSections
<1>33. CASE DestroyHost
  BY <1>33, WalkOutside DEF DestroyHost, app, Thread, Ticker, Section, InfoSection,
     WorldSection, InputsSection
<1>34. CASE ForgetHost
  BY <1>34, WalkOutside DEF ForgetHost, app, Thread, Ticker, Section, InfoSection,
     WorldSection, InputsSection
<1>35. CASE ServerRegisters
  BY <1>35 DEF ServerRegisters, MutexesAreHeldInTheirSections
<1>36. CASE LinkLost
  BY <1>36 DEF LinkLost, MutexesAreHeldInTheirSections
<1>37. CASE UNCHANGED vars
  BY <1>37 DEF vars, MutexesAreHeldInTheirSections
<1>38. QED
  BY <1>1, <1>2, <1>3, <1>4, <1>5, <1>6, <1>7, <1>8, <1>9, <1>10, <1>11, <1>12, <1>13,
     <1>14, <1>15, <1>16, <1>17, <1>18, <1>19, <1>20, <1>21, <1>22, <1>23, <1>24, <1>25,
     <1>26, <1>27, <1>28, <1>29, <1>30, <1>31, <1>32, <1>33, <1>34, <1>35, <1>36, <1>37 DEF
     Next, MainStep, TickStep, NetStep, Tick, Thread, Ticker

-----------------------------------------------------------------------------
(* What each thread finds                                                   *)

\* A thread goes where it goes, and the others stay.
LEMMA GotoMoves ==
  ASSUME TypeOK, NEW t \in Thread, NEW label, Goto(t, label)
  PROVE  pc'[t] = label /\ \A u \in Thread \ {t} : pc'[u] = pc[u]
BY DEF TypeOK, PlacesOK, Goto

\* A dereference moves the thread on only with a pointer that is not null.
LEMMA DereferenceMoves ==
  ASSUME TypeOK, NEW t \in Thread, NEW pointer, NEW label, Dereference(t, pointer, label)
  PROVE  /\ \A u \in Thread \ {t} : pc'[u] = pc[u]
         /\ pc'[t] = IF pointer = NULL THEN pc[t] ELSE label
BY GotoMoves DEF Dereference

\* A world is not the null pointer.
LEMMA WorldIsNotNull ==
  ASSUME NEW w \in World
  PROVE  w # NULL
BY ClientAssumption DEF World

\* Nor is what the server tells of a client.
LEMMA RoleIsNotNull ==
  ASSUME NEW r \in Role
  PROVE  r # NULL
<1>1. SlaveId \subseteq Nat
  BY ClientAssumption
<1>2. r = [id |-> 0, is_master |-> TRUE] \/ \E k \in Nat : r = [id |-> k, is_master |-> FALSE]
  BY <1>1 DEF Role
<1>3. \A k \in Nat, b \in BOOLEAN : [id |-> k, is_master |-> b] # NULL
  <2>1. \A k \in Nat, b \in BOOLEAN :
          [id |-> k, is_master |-> b] \in [id : Nat, is_master : BOOLEAN]
    OBVIOUS
  <2>2. QED  BY <2>1, ClientAssumption
<1>4. QED  BY <1>2, <1>3

\* The empty world is one.
LEMMA EmptyWorldIsNotNull == [exists |-> {}, mine |-> 0] # NULL
BY EmptyWorld, WorldIsNotNull

\* What has been allocated is never taken away.
LEMMA PointersStay ==
  ASSUME TypeOK, TickHasItsData, NetHasItsEvent, [Next]_vars
  PROVE  /\ MY_USER_INFO # NULL => MY_USER_INFO' # NULL
         /\ CURRENT_GAME_STATE # NULL => CURRENT_GAME_STATE' # NULL
         /\ LAST_PLAYER_INPUTS # NULL => LAST_PLAYER_INPUTS' # NULL
<1>1. CASE \E t \in Thread : Lock(t)
  BY <1>1 DEF Lock, app, pointers, locals, net
<1>2. CASE \E t \in Ticker : ReadInfo(t)
  BY <1>2, GotoMoves DEF ReadInfo, Inside, Return, app, pointers, locals, net, Thread, Ticker
<1>3. CASE \E t \in Ticker : CopyWorld(t)
  BY <1>3, GotoMoves DEF CopyWorld, Inside, Return, app, pointers, locals, net, Thread, Ticker
<1>4. CASE \E t \in Ticker : AddInputs(t)
  BY <1>4, DereferenceMoves DEF AddInputs, Inside, app, pointers, locals, net, Thread, Ticker
<1>5. CASE \E t \in Ticker : PutWorld(t)
  <2>1. PICK t \in Ticker : PutWorld(t)
    BY <1>5
  <2>2. game_state[t] # NULL
    BY <2>1 DEF PutWorld, Inside, TickHasItsData
  <2>3. QED  BY <2>1, <2>2 DEF PutWorld
<1>6. CASE \E t \in Ticker : ReadWorld(t)
  BY <1>6, GotoMoves DEF ReadWorld, Inside, Return, app, pointers, locals, net, Thread, Ticker
<1>7. CASE \E t \in Ticker : ReadId(t)
  BY <1>7, DereferenceMoves DEF ReadId, Inside, app, pointers, locals, net, Thread, Ticker
<1>8. CASE \E t \in Ticker : Send(t)
  BY <1>8, GotoMoves DEF Send, Return, app, pointers, locals, net, Thread, Ticker
<1>9. CASE \E t \in Ticker : Sent(t)
  BY <1>9, GotoMoves DEF Sent, Return, app, pointers, locals, net, Thread, Ticker
<1>10. CASE Frame
  BY <1>10, GotoMoves DEF Frame, app, pointers, locals, net, Thread, Ticker
<1>11. CASE CheckInfo
  BY <1>11, GotoMoves DEF CheckInfo, Inside, app, pointers, locals, net, Thread, Ticker
<1>12. CASE TypeCommand
  BY <1>12, GotoMoves DEF TypeCommand, app, pointers, locals, net, Thread, Ticker
<1>13. CASE PushRequest
  BY <1>13, GotoMoves DEF PushRequest, app, pointers, locals, net, Thread, Ticker
<1>14. CASE TypeExit
  BY <1>14, GotoMoves DEF TypeExit, app, pointers, locals, net, Thread, Ticker
<1>15. CASE StopThreads
  BY <1>15, GotoMoves DEF StopThreads, app, pointers, locals, net, Thread, Ticker
<1>16. CASE Exit
  BY <1>16, GotoMoves DEF Exit, app, pointers, locals, net, Thread, Ticker
<1>17. CASE NetLoop
  BY <1>17, GotoMoves DEF NetLoop, app, pointers, locals, net, Thread, Ticker
<1>18. CASE ServiceNothing
  BY <1>18, GotoMoves DEF ServiceNothing, app, pointers, locals, net, Thread, Ticker
<1>19. CASE ReceiveUserInfo
  BY <1>19, GotoMoves DEF ReceiveUserInfo, app, pointers, locals, net, Thread, Ticker
<1>20. CASE ReceiveSlaveConnected
  BY <1>20, GotoMoves DEF ReceiveSlaveConnected, app, pointers, locals, net, Thread, Ticker
<1>21. CASE ReceivePlayerInput
  BY <1>21, GotoMoves DEF ReceivePlayerInput, app, pointers, locals, net, Thread, Ticker
<1>22. CASE SetInfo
  BY <1>22 DEF SetInfo, Inside, NetHasItsEvent
<1>23. CASE InitWorld
  BY <1>23, GotoMoves DEF InitWorld, Inside, app, pointers, locals, net, Thread, Ticker
<1>24. CASE InitInputs
  BY <1>24, ClientAssumption DEF InitInputs
<1>25. CASE AddSlave
  <2>1. CASE CURRENT_GAME_STATE # NULL
    <3>1. [CURRENT_GAME_STATE EXCEPT !.exists = @ \union ({event.id} \intersect Others)] \in World
      BY <2>1 DEF World, TypeOK, DataOK
    <3>2. QED  BY <1>25, <2>1, <3>1, WorldIsNotNull DEF AddSlave
  <2>2. CASE CURRENT_GAME_STATE = NULL
    BY <1>25, <2>2 DEF AddSlave
  <2>3. QED  BY <2>1, <2>2
<1>26. CASE SetInput
  BY <1>26, DereferenceMoves, GotoMoves DEF SetInput, Inside, app, pointers, locals, net,
     Thread, Ticker
<1>27. CASE PopNothing
  BY <1>27, GotoMoves DEF PopNothing, app, pointers, locals, net, Thread, Ticker
<1>28. CASE PopCommand
  BY <1>28, GotoMoves DEF PopCommand, app, pointers, locals, net, Thread, Ticker
<1>29. CASE ConnectToHost
  BY <1>29, GotoMoves DEF ConnectToHost, app, pointers, locals, net, Thread, Ticker
<1>30. CASE RequestUserInfo
  BY <1>30, GotoMoves DEF RequestUserInfo, app, pointers, locals, net, Thread, Ticker
<1>31. CASE Requested
  BY <1>31, GotoMoves DEF Requested, app, pointers, locals, net, Thread, Ticker
<1>32. CASE Disconnect
  BY <1>32, GotoMoves DEF Disconnect, app, pointers, locals, net, Thread, Ticker
<1>33. CASE DestroyHost
  BY <1>33, GotoMoves DEF DestroyHost, app, pointers, locals, net, Thread, Ticker
<1>34. CASE ForgetHost
  BY <1>34, GotoMoves DEF ForgetHost, app, pointers, locals, net, Thread, Ticker
<1>35. CASE ServerRegisters
  BY <1>35 DEF ServerRegisters, app, pointers, locals, net
<1>36. CASE LinkLost
  BY <1>36 DEF LinkLost, app, pointers, locals, net
<1>37. CASE UNCHANGED vars
  BY <1>37 DEF vars, app, pointers, locals, net
<1>38. QED
  BY <1>1, <1>2, <1>3, <1>4, <1>5, <1>6, <1>7, <1>8, <1>9, <1>10, <1>11, <1>12, <1>13,
     <1>14, <1>15, <1>16, <1>17, <1>18, <1>19, <1>20, <1>21, <1>22, <1>23, <1>24, <1>25,
     <1>26, <1>27, <1>28, <1>29, <1>30, <1>31, <1>32, <1>33, <1>34, <1>35, <1>36, <1>37 DEF
     Next, MainStep, TickStep, NetStep, Tick, Thread, Ticker

\* Every step keeps what a tick has read.
LEMMA TickDataStep ==
  ASSUME TypeOK, TickHasItsData, NetHasItsEvent, [Next]_vars
  PROVE  TickHasItsData'
<1>1. CASE \E t \in Thread : Lock(t)
  BY <1>1, PointersStay DEF Lock, app, pointers, locals, net, TickHasItsData
<1>2. CASE \E t \in Ticker : ReadInfo(t)
  BY <1>2, GotoMoves, PointersStay DEF ReadInfo, Inside, Return, app, pointers, locals, net,
     Thread, Ticker, TickHasItsData
<1>3. CASE \E t \in Ticker : CopyWorld(t)
  <2>1. PICK t \in Ticker : CopyWorld(t)
    BY <1>3
  <2>2. \A u \in Thread \ {t} : pc'[u] = pc[u]
    BY <2>1, GotoMoves DEF CopyWorld, Return, Thread, Ticker
  <2>3. CASE CURRENT_GAME_STATE = NULL
    BY <2>1, <2>2, <2>3, GotoMoves, PointersStay
       DEF CopyWorld, Return, Thread, Ticker, TickHasItsData, pointers
  <2>4. CASE CURRENT_GAME_STATE # NULL
    <3>1. [CURRENT_GAME_STATE EXCEPT !.mine = @ + UserInput(t)] \in World
      BY <2>4 DEF UserInput, World, TypeOK, DataOK
    <3>2. game_state'[t] # NULL /\ \A u \in Ticker \ {t} : game_state'[u] = game_state[u]
      BY <2>1, <2>4, <3>1, WorldIsNotNull DEF CopyWorld, TypeOK, DataOK
    <3>3. pc'[t] = "add_inputs"
      BY <2>1, <2>4, GotoMoves DEF CopyWorld, Thread, Ticker
    <3>4. QED
      BY <2>1, <2>2, <2>4, <3>2, <3>3 DEF CopyWorld, Thread, Ticker, TickHasItsData, pointers
  <2>5. QED  BY <2>3, <2>4
<1>4. CASE \E t \in Ticker : AddInputs(t)
  BY <1>4, DereferenceMoves, PointersStay DEF AddInputs, Inside, app, pointers, locals, net,
     Thread, Ticker, TickHasItsData
<1>5. CASE \E t \in Ticker : PutWorld(t)
  BY <1>5, DereferenceMoves, PointersStay DEF PutWorld, Inside, app, pointers, locals, net,
     Thread, Ticker, TickHasItsData
<1>6. CASE \E t \in Ticker : ReadWorld(t)
  BY <1>6, GotoMoves, PointersStay DEF ReadWorld, Inside, Return, app, pointers, locals,
     net, Thread, Ticker, TickHasItsData
<1>7. CASE \E t \in Ticker : ReadId(t)
  BY <1>7, DereferenceMoves, PointersStay DEF ReadId, Inside, app, pointers, locals, net,
     Thread, Ticker, TickHasItsData
<1>8. CASE \E t \in Ticker : Send(t)
  BY <1>8, GotoMoves, PointersStay DEF Send, Return, app, pointers, locals, net, Thread,
     Ticker, TickHasItsData
<1>9. CASE \E t \in Ticker : Sent(t)
  BY <1>9, GotoMoves, PointersStay DEF Sent, Return, app, pointers, locals, net, Thread,
     Ticker, TickHasItsData
<1>10. CASE Frame
  BY <1>10, GotoMoves, PointersStay DEF Frame, app, pointers, locals, net, Thread, Ticker,
     TickHasItsData
<1>11. CASE CheckInfo
  BY <1>11, GotoMoves, PointersStay DEF CheckInfo, Inside, app, pointers, locals, net,
     Thread, Ticker, TickHasItsData
<1>12. CASE TypeCommand
  BY <1>12, GotoMoves, PointersStay DEF TypeCommand, app, pointers, locals, net, Thread,
     Ticker, TickHasItsData
<1>13. CASE PushRequest
  BY <1>13, GotoMoves, PointersStay DEF PushRequest, app, pointers, locals, net, Thread,
     Ticker, TickHasItsData
<1>14. CASE TypeExit
  BY <1>14, GotoMoves, PointersStay DEF TypeExit, app, pointers, locals, net, Thread,
     Ticker, TickHasItsData
<1>15. CASE StopThreads
  BY <1>15, GotoMoves, PointersStay DEF StopThreads, app, pointers, locals, net, Thread,
     Ticker, TickHasItsData
<1>16. CASE Exit
  BY <1>16, GotoMoves, PointersStay DEF Exit, app, pointers, locals, net, Thread, Ticker,
     TickHasItsData
<1>17. CASE NetLoop
  BY <1>17, GotoMoves, PointersStay DEF NetLoop, app, pointers, locals, net, Thread, Ticker,
     TickHasItsData
<1>18. CASE ServiceNothing
  BY <1>18, GotoMoves, PointersStay DEF ServiceNothing, app, pointers, locals, net, Thread,
     Ticker, TickHasItsData
<1>19. CASE ReceiveUserInfo
  BY <1>19, GotoMoves, PointersStay DEF ReceiveUserInfo, app, pointers, locals, net, Thread,
     Ticker, TickHasItsData
<1>20. CASE ReceiveSlaveConnected
  BY <1>20, GotoMoves, PointersStay DEF ReceiveSlaveConnected, app, pointers, locals, net,
     Thread, Ticker, TickHasItsData
<1>21. CASE ReceivePlayerInput
  BY <1>21, GotoMoves, PointersStay DEF ReceivePlayerInput, app, pointers, locals, net,
     Thread, Ticker, TickHasItsData
<1>22. CASE SetInfo
  BY <1>22, GotoMoves, PointersStay DEF SetInfo, Inside, app, pointers, locals, net, Thread,
     Ticker, TickHasItsData
<1>23. CASE InitWorld
  BY <1>23, GotoMoves, PointersStay DEF InitWorld, Inside, app, pointers, locals, net,
     Thread, Ticker, TickHasItsData
<1>24. CASE InitInputs
  BY <1>24, GotoMoves, PointersStay DEF InitInputs, Inside, app, pointers, locals, net,
     Thread, Ticker, TickHasItsData
<1>25. CASE AddSlave
  BY <1>25, GotoMoves, PointersStay DEF AddSlave, Inside, app, pointers, locals, net,
     Thread, Ticker, TickHasItsData
<1>26. CASE SetInput
  BY <1>26, DereferenceMoves, GotoMoves, PointersStay DEF SetInput, Inside, app, pointers,
     locals, net, Thread, Ticker, TickHasItsData
<1>27. CASE PopNothing
  BY <1>27, GotoMoves, PointersStay DEF PopNothing, app, pointers, locals, net, Thread,
     Ticker, TickHasItsData
<1>28. CASE PopCommand
  BY <1>28, GotoMoves, PointersStay DEF PopCommand, app, pointers, locals, net, Thread,
     Ticker, TickHasItsData
<1>29. CASE ConnectToHost
  BY <1>29, GotoMoves, PointersStay DEF ConnectToHost, app, pointers, locals, net, Thread,
     Ticker, TickHasItsData
<1>30. CASE RequestUserInfo
  BY <1>30, GotoMoves, PointersStay DEF RequestUserInfo, app, pointers, locals, net, Thread,
     Ticker, TickHasItsData
<1>31. CASE Requested
  BY <1>31, GotoMoves, PointersStay DEF Requested, app, pointers, locals, net, Thread,
     Ticker, TickHasItsData
<1>32. CASE Disconnect
  BY <1>32, GotoMoves, PointersStay DEF Disconnect, app, pointers, locals, net, Thread,
     Ticker, TickHasItsData
<1>33. CASE DestroyHost
  BY <1>33, GotoMoves, PointersStay DEF DestroyHost, app, pointers, locals, net, Thread,
     Ticker, TickHasItsData
<1>34. CASE ForgetHost
  BY <1>34, GotoMoves, PointersStay DEF ForgetHost, app, pointers, locals, net, Thread,
     Ticker, TickHasItsData
<1>35. CASE ServerRegisters
  BY <1>35, PointersStay DEF ServerRegisters, app, pointers, locals, net, TickHasItsData
<1>36. CASE LinkLost
  BY <1>36, PointersStay DEF LinkLost, app, pointers, locals, net, TickHasItsData
<1>37. CASE UNCHANGED vars
  BY <1>37, PointersStay DEF vars, app, pointers, locals, net, TickHasItsData
<1>38. QED
  BY <1>1, <1>2, <1>3, <1>4, <1>5, <1>6, <1>7, <1>8, <1>9, <1>10, <1>11, <1>12, <1>13,
     <1>14, <1>15, <1>16, <1>17, <1>18, <1>19, <1>20, <1>21, <1>22, <1>23, <1>24, <1>25,
     <1>26, <1>27, <1>28, <1>29, <1>30, <1>31, <1>32, <1>33, <1>34, <1>35, <1>36, <1>37 DEF
     Next, MainStep, TickStep, NetStep, Tick, Thread, Ticker

\* Every step keeps the packet in hand until it is handled.
LEMMA EventStep ==
  ASSUME TypeOK, NetHasItsEvent, [Next]_vars
  PROVE  NetHasItsEvent'
<1>1. CASE \E t \in Thread : Lock(t)
  BY <1>1 DEF Lock, app, pointers, locals, net, NetHasItsEvent
<1>2. CASE \E t \in Ticker : ReadInfo(t)
  BY <1>2, GotoMoves DEF ReadInfo, Inside, Return, app, pointers, locals, net, Thread,
     Ticker, NetHasItsEvent
<1>3. CASE \E t \in Ticker : CopyWorld(t)
  BY <1>3, GotoMoves DEF CopyWorld, Inside, Return, app, pointers, locals, net, Thread,
     Ticker, NetHasItsEvent
<1>4. CASE \E t \in Ticker : AddInputs(t)
  BY <1>4, DereferenceMoves DEF AddInputs, Inside, app, pointers, locals, net, Thread,
     Ticker, NetHasItsEvent
<1>5. CASE \E t \in Ticker : PutWorld(t)
  BY <1>5, DereferenceMoves DEF PutWorld, Inside, app, pointers, locals, net, Thread,
     Ticker, NetHasItsEvent
<1>6. CASE \E t \in Ticker : ReadWorld(t)
  BY <1>6, GotoMoves DEF ReadWorld, Inside, Return, app, pointers, locals, net, Thread,
     Ticker, NetHasItsEvent
<1>7. CASE \E t \in Ticker : ReadId(t)
  BY <1>7, DereferenceMoves DEF ReadId, Inside, app, pointers, locals, net, Thread, Ticker,
     NetHasItsEvent
<1>8. CASE \E t \in Ticker : Send(t)
  BY <1>8, GotoMoves DEF Send, Return, app, pointers, locals, net, Thread, Ticker,
     NetHasItsEvent
<1>9. CASE \E t \in Ticker : Sent(t)
  BY <1>9, GotoMoves DEF Sent, Return, app, pointers, locals, net, Thread, Ticker,
     NetHasItsEvent
<1>10. CASE Frame
  BY <1>10, GotoMoves DEF Frame, app, pointers, locals, net, Thread, Ticker, NetHasItsEvent
<1>11. CASE CheckInfo
  BY <1>11, GotoMoves DEF CheckInfo, Inside, app, pointers, locals, net, Thread, Ticker,
     NetHasItsEvent
<1>12. CASE TypeCommand
  BY <1>12, GotoMoves DEF TypeCommand, app, pointers, locals, net, Thread, Ticker,
     NetHasItsEvent
<1>13. CASE PushRequest
  BY <1>13, GotoMoves DEF PushRequest, app, pointers, locals, net, Thread, Ticker,
     NetHasItsEvent
<1>14. CASE TypeExit
  BY <1>14, GotoMoves DEF TypeExit, app, pointers, locals, net, Thread, Ticker, NetHasItsEvent
<1>15. CASE StopThreads
  BY <1>15, GotoMoves DEF StopThreads, app, pointers, locals, net, Thread, Ticker,
     NetHasItsEvent
<1>16. CASE Exit
  BY <1>16, GotoMoves DEF Exit, app, pointers, locals, net, Thread, Ticker, NetHasItsEvent
<1>17. CASE NetLoop
  BY <1>17, GotoMoves DEF NetLoop, app, pointers, locals, net, Thread, Ticker, NetHasItsEvent
<1>18. CASE ServiceNothing
  BY <1>18, GotoMoves DEF ServiceNothing, app, pointers, locals, net, Thread, Ticker,
     NetHasItsEvent
<1>19. CASE ReceiveUserInfo
  BY <1>19, GotoMoves DEF ReceiveUserInfo, app, pointers, locals, net, Thread, Ticker,
     NetHasItsEvent
<1>20. CASE ReceiveSlaveConnected
  <2>1. event' \in Role
    BY <1>20 DEF ReceiveSlaveConnected, Role
  <2>2. QED  BY <2>1, RoleIsNotNull DEF NetHasItsEvent
<1>21. CASE ReceivePlayerInput
  <2>1. event' \in Role
    BY <1>21 DEF ReceivePlayerInput, Role
  <2>2. QED  BY <2>1, RoleIsNotNull DEF NetHasItsEvent
<1>22. CASE SetInfo
  BY <1>22, GotoMoves DEF SetInfo, Inside, app, pointers, locals, net, Thread, Ticker,
     NetHasItsEvent
<1>23. CASE InitWorld
  BY <1>23, GotoMoves DEF InitWorld, Inside, app, pointers, locals, net, Thread, Ticker,
     NetHasItsEvent
<1>24. CASE InitInputs
  BY <1>24, GotoMoves DEF InitInputs, Inside, app, pointers, locals, net, Thread, Ticker,
     NetHasItsEvent
<1>25. CASE AddSlave
  BY <1>25, GotoMoves DEF AddSlave, Inside, app, pointers, locals, net, Thread, Ticker,
     NetHasItsEvent
<1>26. CASE SetInput
  BY <1>26, DereferenceMoves, GotoMoves DEF SetInput, Inside, app, pointers, locals, net,
     Thread, Ticker, NetHasItsEvent
<1>27. CASE PopNothing
  BY <1>27, GotoMoves DEF PopNothing, app, pointers, locals, net, Thread, Ticker,
     NetHasItsEvent
<1>28. CASE PopCommand
  BY <1>28, GotoMoves DEF PopCommand, app, pointers, locals, net, Thread, Ticker,
     NetHasItsEvent
<1>29. CASE ConnectToHost
  BY <1>29, GotoMoves DEF ConnectToHost, app, pointers, locals, net, Thread, Ticker,
     NetHasItsEvent
<1>30. CASE RequestUserInfo
  BY <1>30, GotoMoves DEF RequestUserInfo, app, pointers, locals, net, Thread, Ticker,
     NetHasItsEvent
<1>31. CASE Requested
  BY <1>31, GotoMoves DEF Requested, app, pointers, locals, net, Thread, Ticker, NetHasItsEvent
<1>32. CASE Disconnect
  BY <1>32, GotoMoves DEF Disconnect, app, pointers, locals, net, Thread, Ticker,
     NetHasItsEvent
<1>33. CASE DestroyHost
  BY <1>33, GotoMoves DEF DestroyHost, app, pointers, locals, net, Thread, Ticker,
     NetHasItsEvent
<1>34. CASE ForgetHost
  BY <1>34, GotoMoves DEF ForgetHost, app, pointers, locals, net, Thread, Ticker,
     NetHasItsEvent
<1>35. CASE ServerRegisters
  BY <1>35 DEF ServerRegisters, app, pointers, locals, net, NetHasItsEvent
<1>36. CASE LinkLost
  BY <1>36 DEF LinkLost, app, pointers, locals, net, NetHasItsEvent
<1>37. CASE UNCHANGED vars
  BY <1>37 DEF vars, app, pointers, locals, net, NetHasItsEvent
<1>38. QED
  BY <1>1, <1>2, <1>3, <1>4, <1>5, <1>6, <1>7, <1>8, <1>9, <1>10, <1>11, <1>12, <1>13,
     <1>14, <1>15, <1>16, <1>17, <1>18, <1>19, <1>20, <1>21, <1>22, <1>23, <1>24, <1>25,
     <1>26, <1>27, <1>28, <1>29, <1>30, <1>31, <1>32, <1>33, <1>34, <1>35, <1>36, <1>37 DEF
     Next, MainStep, TickStep, NetStep, Tick, Thread, Ticker

\* Every step keeps a Master prepared.
LEMMA PreparedStep ==
  ASSUME TypeOK, TickHasItsData, NetHasItsEvent, MasterIsPrepared, [Next]_vars
  PROVE  MasterIsPrepared'
<1>1. CASE \E t \in Thread : Lock(t)
  BY <1>1, PointersStay DEF Lock, app, pointers, locals, net, MasterIsPrepared, InitDone,
     Master
<1>2. CASE \E t \in Ticker : ReadInfo(t)
  BY <1>2, GotoMoves, PointersStay DEF ReadInfo, Inside, Return, app, pointers, locals, net,
     Thread, Ticker, MasterIsPrepared, InitDone, Master
<1>3. CASE \E t \in Ticker : CopyWorld(t)
  BY <1>3, GotoMoves, PointersStay DEF CopyWorld, Inside, Return, app, pointers, locals,
     net, Thread, Ticker, MasterIsPrepared, InitDone, Master
<1>4. CASE \E t \in Ticker : AddInputs(t)
  BY <1>4, DereferenceMoves, PointersStay DEF AddInputs, Inside, app, pointers, locals, net,
     Thread, Ticker, MasterIsPrepared, InitDone, Master
<1>5. CASE \E t \in Ticker : PutWorld(t)
  BY <1>5, DereferenceMoves, PointersStay DEF PutWorld, Inside, app, pointers, locals, net,
     Thread, Ticker, MasterIsPrepared, InitDone, Master
<1>6. CASE \E t \in Ticker : ReadWorld(t)
  BY <1>6, GotoMoves, PointersStay DEF ReadWorld, Inside, Return, app, pointers, locals,
     net, Thread, Ticker, MasterIsPrepared, InitDone, Master
<1>7. CASE \E t \in Ticker : ReadId(t)
  BY <1>7, DereferenceMoves, PointersStay DEF ReadId, Inside, app, pointers, locals, net,
     Thread, Ticker, MasterIsPrepared, InitDone, Master
<1>8. CASE \E t \in Ticker : Send(t)
  BY <1>8, GotoMoves, PointersStay DEF Send, Return, app, pointers, locals, net, Thread,
     Ticker, MasterIsPrepared, InitDone, Master
<1>9. CASE \E t \in Ticker : Sent(t)
  BY <1>9, GotoMoves, PointersStay DEF Sent, Return, app, pointers, locals, net, Thread,
     Ticker, MasterIsPrepared, InitDone, Master
<1>10. CASE Frame
  BY <1>10, GotoMoves, PointersStay DEF Frame, app, pointers, locals, net, Thread, Ticker,
     MasterIsPrepared, InitDone, Master
<1>11. CASE CheckInfo
  BY <1>11, GotoMoves, PointersStay DEF CheckInfo, Inside, app, pointers, locals, net,
     Thread, Ticker, MasterIsPrepared, InitDone, Master
<1>12. CASE TypeCommand
  BY <1>12, GotoMoves, PointersStay DEF TypeCommand, app, pointers, locals, net, Thread,
     Ticker, MasterIsPrepared, InitDone, Master
<1>13. CASE PushRequest
  BY <1>13, GotoMoves, PointersStay DEF PushRequest, app, pointers, locals, net, Thread,
     Ticker, MasterIsPrepared, InitDone, Master
<1>14. CASE TypeExit
  BY <1>14, GotoMoves, PointersStay DEF TypeExit, app, pointers, locals, net, Thread,
     Ticker, MasterIsPrepared, InitDone, Master
<1>15. CASE StopThreads
  BY <1>15, GotoMoves, PointersStay DEF StopThreads, app, pointers, locals, net, Thread,
     Ticker, MasterIsPrepared, InitDone, Master
<1>16. CASE Exit
  BY <1>16, GotoMoves, PointersStay DEF Exit, app, pointers, locals, net, Thread, Ticker,
     MasterIsPrepared, InitDone, Master
<1>17. CASE NetLoop
  BY <1>17, GotoMoves, PointersStay DEF NetLoop, app, pointers, locals, net, Thread, Ticker,
     MasterIsPrepared, InitDone, Master
<1>18. CASE ServiceNothing
  BY <1>18, GotoMoves, PointersStay DEF ServiceNothing, app, pointers, locals, net, Thread,
     Ticker, MasterIsPrepared, InitDone, Master
<1>19. CASE ReceiveUserInfo
  BY <1>19, GotoMoves, PointersStay DEF ReceiveUserInfo, app, pointers, locals, net, Thread,
     Ticker, MasterIsPrepared, InitDone, Master
<1>20. CASE ReceiveSlaveConnected
  BY <1>20, GotoMoves, PointersStay DEF ReceiveSlaveConnected, app, pointers, locals, net,
     Thread, Ticker, MasterIsPrepared, InitDone, Master
<1>21. CASE ReceivePlayerInput
  BY <1>21, GotoMoves DEF ReceivePlayerInput, TakesInputs, app, pointers, locals, net,
     Thread, Ticker, MasterIsPrepared, InitDone, Master
<1>22. CASE SetInfo
  BY <1>22, GotoMoves, PointersStay DEF SetInfo, Inside, app, pointers, locals, net, Thread,
     Ticker, MasterIsPrepared, InitDone, Master
<1>23. CASE InitWorld
  <2>1. CURRENT_GAME_STATE' # NULL
    BY <1>23, EmptyWorldIsNotNull DEF InitWorld
  <2>2. QED  BY <1>23, <2>1, GotoMoves DEF InitWorld, Inside, app, pointers, locals, net, Thread, Ticker, MasterIsPrepared, InitDone, Master
<1>24. CASE InitInputs
  BY <1>24, GotoMoves, ClientAssumption DEF InitInputs, Inside, app, pointers, locals, net,
     Thread, Ticker, MasterIsPrepared, InitDone, Master
<1>25. CASE AddSlave
  BY <1>25, GotoMoves, PointersStay DEF AddSlave, Inside, app, pointers, locals, net,
     Thread, Ticker, MasterIsPrepared, InitDone, Master
<1>26. CASE SetInput
  BY <1>26, DereferenceMoves, GotoMoves, PointersStay DEF SetInput, Inside, app, pointers,
     locals, net, Thread, Ticker, MasterIsPrepared, InitDone, Master
<1>27. CASE PopNothing
  BY <1>27, GotoMoves, PointersStay DEF PopNothing, app, pointers, locals, net, Thread,
     Ticker, MasterIsPrepared, InitDone, Master
<1>28. CASE PopCommand
  BY <1>28, GotoMoves, PointersStay DEF PopCommand, app, pointers, locals, net, Thread,
     Ticker, MasterIsPrepared, InitDone, Master
<1>29. CASE ConnectToHost
  BY <1>29, GotoMoves DEF ConnectToHost, NoLink, app, pointers, locals, net, Thread, Ticker,
     MasterIsPrepared, InitDone, Master
<1>30. CASE RequestUserInfo
  BY <1>30, GotoMoves, PointersStay DEF RequestUserInfo, app, pointers, locals, net, Thread,
     Ticker, MasterIsPrepared, InitDone, Master
<1>31. CASE Requested
  BY <1>31, GotoMoves, PointersStay DEF Requested, app, pointers, locals, net, Thread,
     Ticker, MasterIsPrepared, InitDone, Master
<1>32. CASE Disconnect
  BY <1>32, GotoMoves, PointersStay DEF Disconnect, app, pointers, locals, net, Thread,
     Ticker, MasterIsPrepared, InitDone, Master
<1>33. CASE DestroyHost
  BY <1>33, GotoMoves, PointersStay DEF DestroyHost, app, pointers, locals, net, Thread,
     Ticker, MasterIsPrepared, InitDone, Master
<1>34. CASE ForgetHost
  BY <1>34, GotoMoves DEF ForgetHost, NoLink, app, pointers, locals, net, Thread, Ticker,
     MasterIsPrepared, InitDone, Master
<1>35. CASE ServerRegisters
  <2>1. link'.answered = link.answered /\ ~link.answered
    BY <1>35 DEF ServerRegisters, MasterIsPrepared, TypeOK, DataOK
  <2>2. QED  BY <1>35, <2>1 DEF ServerRegisters, app, pointers, locals, net, Thread, Ticker, MasterIsPrepared, InitDone, Master
<1>36. CASE LinkLost
  BY <1>36, PointersStay DEF LinkLost, app, pointers, locals, net, MasterIsPrepared,
     InitDone, Master
<1>37. CASE UNCHANGED vars
  BY <1>37, PointersStay DEF vars, app, pointers, locals, net, MasterIsPrepared, InitDone,
     Master
<1>38. QED
  BY <1>1, <1>2, <1>3, <1>4, <1>5, <1>6, <1>7, <1>8, <1>9, <1>10, <1>11, <1>12, <1>13,
     <1>14, <1>15, <1>16, <1>17, <1>18, <1>19, <1>20, <1>21, <1>22, <1>23, <1>24, <1>25,
     <1>26, <1>27, <1>28, <1>29, <1>30, <1>31, <1>32, <1>33, <1>34, <1>35, <1>36, <1>37 DEF
     Next, MainStep, TickStep, NetStep, Tick, Thread, Ticker

\* Every step keeps a freed host to the moment before it is forgotten.
LEMMA FreedStep ==
  ASSUME TypeOK, FreedHostIsForgotten, [Next]_vars
  PROVE  FreedHostIsForgotten'
<1>1. CASE \E t \in Thread : Lock(t)
  BY <1>1 DEF Lock, app, pointers, locals, net, FreedHostIsForgotten
<1>2. CASE \E t \in Ticker : ReadInfo(t)
  BY <1>2, GotoMoves DEF ReadInfo, Inside, Return, app, pointers, locals, net, Thread,
     Ticker, FreedHostIsForgotten
<1>3. CASE \E t \in Ticker : CopyWorld(t)
  BY <1>3, GotoMoves DEF CopyWorld, Inside, Return, app, pointers, locals, net, Thread,
     Ticker, FreedHostIsForgotten
<1>4. CASE \E t \in Ticker : AddInputs(t)
  BY <1>4, DereferenceMoves DEF AddInputs, Inside, app, pointers, locals, net, Thread,
     Ticker, FreedHostIsForgotten
<1>5. CASE \E t \in Ticker : PutWorld(t)
  BY <1>5, DereferenceMoves DEF PutWorld, Inside, app, pointers, locals, net, Thread,
     Ticker, FreedHostIsForgotten
<1>6. CASE \E t \in Ticker : ReadWorld(t)
  BY <1>6, GotoMoves DEF ReadWorld, Inside, Return, app, pointers, locals, net, Thread,
     Ticker, FreedHostIsForgotten
<1>7. CASE \E t \in Ticker : ReadId(t)
  BY <1>7, DereferenceMoves DEF ReadId, Inside, app, pointers, locals, net, Thread, Ticker,
     FreedHostIsForgotten
<1>8. CASE \E t \in Ticker : Send(t)
  BY <1>8, GotoMoves DEF Send, Return, app, pointers, locals, net, Thread, Ticker,
     FreedHostIsForgotten
<1>9. CASE \E t \in Ticker : Sent(t)
  BY <1>9, GotoMoves DEF Sent, Return, app, pointers, locals, net, Thread, Ticker,
     FreedHostIsForgotten
<1>10. CASE Frame
  BY <1>10, GotoMoves DEF Frame, app, pointers, locals, net, Thread, Ticker,
     FreedHostIsForgotten
<1>11. CASE CheckInfo
  BY <1>11, GotoMoves DEF CheckInfo, Inside, app, pointers, locals, net, Thread, Ticker,
     FreedHostIsForgotten
<1>12. CASE TypeCommand
  BY <1>12, GotoMoves DEF TypeCommand, app, pointers, locals, net, Thread, Ticker,
     FreedHostIsForgotten
<1>13. CASE PushRequest
  BY <1>13, GotoMoves DEF PushRequest, app, pointers, locals, net, Thread, Ticker,
     FreedHostIsForgotten
<1>14. CASE TypeExit
  BY <1>14, GotoMoves DEF TypeExit, app, pointers, locals, net, Thread, Ticker,
     FreedHostIsForgotten
<1>15. CASE StopThreads
  BY <1>15, GotoMoves DEF StopThreads, app, pointers, locals, net, Thread, Ticker,
     FreedHostIsForgotten
<1>16. CASE Exit
  BY <1>16, GotoMoves DEF Exit, app, pointers, locals, net, Thread, Ticker,
     FreedHostIsForgotten
<1>17. CASE NetLoop
  BY <1>17, GotoMoves DEF NetLoop, app, pointers, locals, net, Thread, Ticker,
     FreedHostIsForgotten
<1>18. CASE ServiceNothing
  BY <1>18, GotoMoves DEF ServiceNothing, app, pointers, locals, net, Thread, Ticker,
     FreedHostIsForgotten
<1>19. CASE ReceiveUserInfo
  BY <1>19, GotoMoves DEF ReceiveUserInfo, app, pointers, locals, net, Thread, Ticker,
     FreedHostIsForgotten
<1>20. CASE ReceiveSlaveConnected
  BY <1>20, GotoMoves DEF ReceiveSlaveConnected, app, pointers, locals, net, Thread, Ticker,
     FreedHostIsForgotten
<1>21. CASE ReceivePlayerInput
  BY <1>21, GotoMoves DEF ReceivePlayerInput, app, pointers, locals, net, Thread, Ticker,
     FreedHostIsForgotten
<1>22. CASE SetInfo
  BY <1>22, GotoMoves DEF SetInfo, Inside, app, pointers, locals, net, Thread, Ticker,
     FreedHostIsForgotten
<1>23. CASE InitWorld
  BY <1>23, GotoMoves DEF InitWorld, Inside, app, pointers, locals, net, Thread, Ticker,
     FreedHostIsForgotten
<1>24. CASE InitInputs
  BY <1>24, GotoMoves DEF InitInputs, Inside, app, pointers, locals, net, Thread, Ticker,
     FreedHostIsForgotten
<1>25. CASE AddSlave
  BY <1>25, GotoMoves DEF AddSlave, Inside, app, pointers, locals, net, Thread, Ticker,
     FreedHostIsForgotten
<1>26. CASE SetInput
  BY <1>26, DereferenceMoves, GotoMoves DEF SetInput, Inside, app, pointers, locals, net,
     Thread, Ticker, FreedHostIsForgotten
<1>27. CASE PopNothing
  BY <1>27, GotoMoves DEF PopNothing, app, pointers, locals, net, Thread, Ticker,
     FreedHostIsForgotten
<1>28. CASE PopCommand
  BY <1>28, GotoMoves DEF PopCommand, app, pointers, locals, net, Thread, Ticker,
     FreedHostIsForgotten
<1>29. CASE ConnectToHost
  BY <1>29, GotoMoves DEF ConnectToHost, app, pointers, locals, net, Thread, Ticker,
     FreedHostIsForgotten
<1>30. CASE RequestUserInfo
  BY <1>30, GotoMoves DEF RequestUserInfo, app, pointers, locals, net, Thread, Ticker,
     FreedHostIsForgotten
<1>31. CASE Requested
  BY <1>31, GotoMoves DEF Requested, app, pointers, locals, net, Thread, Ticker,
     FreedHostIsForgotten
<1>32. CASE Disconnect
  BY <1>32, GotoMoves DEF Disconnect, app, pointers, locals, net, Thread, Ticker,
     FreedHostIsForgotten
<1>33. CASE DestroyHost
  BY <1>33, GotoMoves DEF DestroyHost, app, pointers, locals, net, Thread, Ticker,
     FreedHostIsForgotten
<1>34. CASE ForgetHost
  BY <1>34, ClientAssumption DEF ForgetHost, FreedHostIsForgotten
<1>35. CASE ServerRegisters
  BY <1>35 DEF ServerRegisters, app, pointers, locals, net, FreedHostIsForgotten
<1>36. CASE LinkLost
  BY <1>36 DEF LinkLost, app, pointers, locals, net, FreedHostIsForgotten
<1>37. CASE UNCHANGED vars
  BY <1>37 DEF vars, app, pointers, locals, net, FreedHostIsForgotten
<1>38. QED
  BY <1>1, <1>2, <1>3, <1>4, <1>5, <1>6, <1>7, <1>8, <1>9, <1>10, <1>11, <1>12, <1>13,
     <1>14, <1>15, <1>16, <1>17, <1>18, <1>19, <1>20, <1>21, <1>22, <1>23, <1>24, <1>25,
     <1>26, <1>27, <1>28, <1>29, <1>30, <1>31, <1>32, <1>33, <1>34, <1>35, <1>36, <1>37 DEF
     Next, MainStep, TickStep, NetStep, Tick, Thread, Ticker

\* A step of a tick leaves the commands, the connection and the other threads alone.
LEMMA StepsOfATick ==
  ASSUME TypeOK, NEW t \in Ticker, Tick(t)
  PROVE  /\ UNCHANGED <<IS_APP_RUNNING, commands, CLIENT_PEER, IS_DISCONNECTED>>
         /\ \A u \in Thread \ {t} : pc'[u] = pc[u]
         /\ pc[t] \in InTick /\ pc'[t] \in InTick \union {"prompt", "frame"}
         /\ pc'[t] = "sending" => pc[t] = "sending" \/ CLIENT_PEER \in {"up", "freed"}
<1>0. t \in Thread
  BY DEF Ticker, Thread
<1>1. CASE ReadInfo(t) \/ CopyWorld(t) \/ ReadWorld(t)
  BY <1>0, <1>1, GotoMoves
     DEF ReadInfo, CopyWorld, ReadWorld, Inside, Return, app, net, InTick
<1>2. CASE AddInputs(t) \/ PutWorld(t) \/ ReadId(t)
  BY <1>0, <1>2, DereferenceMoves DEF AddInputs, PutWorld, ReadId, Inside, net, InTick
<1>3. CASE Send(t) \/ Sent(t)
  BY <1>0, <1>3, GotoMoves DEF Send, Sent, Return, app, net, InTick
<1>4. QED  BY <1>1, <1>2, <1>3 DEF Tick

\* A disconnect that is queued stays the last command when others are taken.
LEMMA TailKeepsTheLast ==
  ASSUME NEW s \in Seq(Command), s # <<>>,
         NEW n \in DOMAIN Tail(s), Tail(s)[n] = "DISCONNECT_N_FREE",
         \A i \in DOMAIN s : s[i] = "DISCONNECT_N_FREE" => i = Len(s)
  PROVE  n = Len(Tail(s)) /\ n + 1 \in DOMAIN s /\ s[n + 1] = "DISCONNECT_N_FREE"
OBVIOUS

\* Every step keeps the disconnect behind all else.
LEMMA DisconnectStep ==
  ASSUME TypeOK, FreedHostIsForgotten, DisconnectComesLast, [Next]_vars
  PROVE  DisconnectComesLast'
<1>0. /\ "main" \in Thread /\ "tick" \in Thread /\ "net" \in Thread /\ Runner = {"tick", "net"}
      /\ "main" \in Ticker /\ "tick" \in Ticker
      /\ commands \in Seq(Command) /\ NULL \notin {"up", "down", "freed"}
  BY ClientAssumption DEF Thread, Runner, Ticker, TypeOK, DataOK
<1>1. ASSUME NEW t \in Thread, Lock(t) PROVE DisconnectComesLast'
  BY <1>1 DEF Lock, app, net, DisconnectComesLast, ExitTyped
<1>2. CASE Tick("main")
  <2>1. /\ pc["main"] \in InTick /\ pc'["main"] \in InTick \union {"prompt", "frame"}
        /\ pc'["main"] = "sending" => pc["main"] = "sending" \/ CLIENT_PEER \in {"up", "freed"}
        /\ UNCHANGED <<IS_APP_RUNNING, commands, CLIENT_PEER, IS_DISCONNECTED>>
        /\ pc'["tick"] = pc["tick"] /\ pc'["net"] = pc["net"]
    BY <1>0, <1>2, StepsOfATick
  <2>2. ~ExitTyped /\ CLIENT_PEER # "freed"
    BY <2>1 DEF ExitTyped, InTick, FreedHostIsForgotten, DisconnectComesLast
  <2>3. QED  BY <1>0, <2>1, <2>2 DEF DisconnectComesLast, ExitTyped, InTick
<1>3. CASE Tick("tick")
  <2>1. /\ pc'["tick"] \in InTick \union {"prompt", "frame"}
        /\ UNCHANGED <<IS_APP_RUNNING, commands, CLIENT_PEER, IS_DISCONNECTED>>
        /\ pc'["main"] = pc["main"] /\ pc'["net"] = pc["net"]
    BY <1>0, <1>3, StepsOfATick
  <2>2. QED  BY <1>0, <2>1 DEF DisconnectComesLast, ExitTyped, InTick
<1>4. CASE Frame \/ CheckInfo
  BY <1>0, <1>4, GotoMoves DEF Frame, CheckInfo, app, net, DisconnectComesLast, ExitTyped
<1>5. CASE TypeCommand \/ PushRequest
  <2>1. /\ pc["main"] \in {"prompt", "conreg"} /\ pc'["main"] \in {"prompt", "conreg", "read_info"}
        /\ UNCHANGED <<IS_APP_RUNNING, CLIENT_PEER, IS_DISCONNECTED>>
        /\ pc'["tick"] = pc["tick"] /\ pc'["net"] = pc["net"]
    BY <1>0, <1>5, GotoMoves DEF TypeCommand, PushRequest, net
  <2>2. \A n \in DOMAIN commands' : commands'[n] # "DISCONNECT_N_FREE"
    BY <1>0, <1>5, <2>1 DEF TypeCommand, PushRequest, Push, DisconnectComesLast, ExitTyped
  <2>3. QED  BY <1>0, <2>1, <2>2 DEF DisconnectComesLast, ExitTyped
<1>6. CASE TypeExit
  <2>1. /\ pc["main"] = "prompt" /\ pc'["main"] = "sleep"
        /\ UNCHANGED <<IS_APP_RUNNING, CLIENT_PEER, IS_DISCONNECTED>>
        /\ pc'["tick"] = pc["tick"] /\ pc'["net"] = pc["net"]
        /\ commands' = Append(commands, "DISCONNECT_N_FREE")
    BY <1>0, <1>6, GotoMoves DEF TypeExit, Push, net
  <2>2. \A n \in DOMAIN commands' : commands'[n] = "DISCONNECT_N_FREE" => n = Len(commands')
    BY <1>0, <2>1 DEF DisconnectComesLast, ExitTyped
  <2>3. QED  BY <1>0, <2>1, <2>2 DEF DisconnectComesLast, ExitTyped
<1>7. CASE StopThreads \/ Exit
  BY <1>0, <1>7, GotoMoves DEF StopThreads, Exit, app, net, DisconnectComesLast, ExitTyped
<1>8. CASE NetLoop
  BY <1>0, <1>8, GotoMoves DEF NetLoop, app, net, DisconnectComesLast, ExitTyped
<1>9. CASE \/ ServiceNothing \/ ReceiveUserInfo \/ ReceiveSlaveConnected \/ ReceivePlayerInput
           \/ PopNothing
  BY <1>0, <1>9, GotoMoves
     DEF ServiceNothing, ReceiveUserInfo, ReceiveSlaveConnected, ReceivePlayerInput, PopNothing,
         app, net, DisconnectComesLast, ExitTyped
<1>10. CASE SetInfo \/ InitWorld \/ InitInputs \/ AddSlave
  BY <1>0, <1>10, GotoMoves
     DEF SetInfo, InitWorld, InitInputs, AddSlave, Inside, app, net, DisconnectComesLast,
         ExitTyped
<1>11. CASE SetInput
  BY <1>0, <1>11, GotoMoves, DereferenceMoves
     DEF SetInput, Inside, net, DisconnectComesLast, ExitTyped
<1>12. CASE PopCommand
  <2>1. /\ commands # <<>> /\ commands' = Tail(commands)
        /\ UNCHANGED <<IS_APP_RUNNING, CLIENT_PEER, IS_DISCONNECTED>>
        /\ pc'["main"] = pc["main"] /\ pc'["tick"] = pc["tick"]
        /\ pc'["net"] \in {"connecting", "request", "disconnect"}
        /\ pc'["net"] = "disconnect" => Head(commands) = "DISCONNECT_N_FREE"
    BY <1>0, <1>12, GotoMoves DEF PopCommand
  <2>2. ~IS_DISCONNECTED
    BY <2>1 DEF DisconnectComesLast
  <2>3. \A n \in DOMAIN commands' :
          commands'[n] = "DISCONNECT_N_FREE" => ExitTyped /\ n = Len(commands')
    BY <1>0, <2>1, TailKeepsTheLast DEF DisconnectComesLast
  <2>4. pc'["net"] = "disconnect" => ExitTyped /\ commands' = <<>>
    <3>1. SUFFICES ASSUME commands[1] = "DISCONNECT_N_FREE"
                   PROVE  ExitTyped /\ commands' = <<>>
      BY <1>0, <2>1
    <3>2. 1 \in DOMAIN commands
      BY <1>0, <2>1
    <3>3. ExitTyped /\ Len(commands) = 1
      BY <3>1, <3>2 DEF DisconnectComesLast
    <3>4. QED  BY <1>0, <2>1, <3>3
  <2>5. QED  BY <1>0, <2>1, <2>2, <2>3, <2>4 DEF DisconnectComesLast, ExitTyped
<1>13. CASE ConnectToHost \/ RequestUserInfo \/ Requested
  BY <1>0, <1>13, GotoMoves
     DEF ConnectToHost, RequestUserInfo, Requested, app, net, DisconnectComesLast, ExitTyped
<1>14. CASE Disconnect \/ DestroyHost \/ ForgetHost
  BY <1>0, <1>14, GotoMoves
     DEF Disconnect, DestroyHost, ForgetHost, app, DisconnectComesLast, ExitTyped
<1>15. CASE ServerRegisters \/ LinkLost \/ UNCHANGED vars
  BY <1>15 DEF ServerRegisters, LinkLost, vars, app, net, DisconnectComesLast, ExitTyped
<1>16. QED
  BY <1>0, <1>1, <1>2, <1>3, <1>4, <1>5, <1>6, <1>7, <1>8, <1>9, <1>10, <1>11, <1>12, <1>13,
     <1>14, <1>15 DEF Next, MainStep, TickStep, NetStep

\* Every step keeps the causes of a death to those three, and makes no other.
LEMMA DeathStep ==
  ASSUME ClientInv, ~crashed, [Next]_vars
  PROVE  DeathsHaveACause' /\ EveryDeathIsKnown'
<1>0. /\ "main" \in Thread /\ "tick" \in Thread /\ "net" \in Thread
      /\ "main" \in Ticker /\ "tick" \in Ticker /\ Ticker = {"main", "tick"}
      /\ NULL \notin {"up", "down", "freed", "allocated"}
      /\ TypeOK /\ TickHasItsData /\ MasterIsPrepared /\ FreedHostIsForgotten
      /\ DisconnectComesLast /\ DeathsHaveACause
  BY ClientAssumption DEF Thread, Ticker, ClientInv
<1> DEFINE Quiet == /\ UNCHANGED <<crashed, CURRENT_GAME_STATE, LAST_PLAYER_INPUTS, CLIENT_PEER>>
<1>1. ASSUME NEW t \in Thread, Lock(t) PROVE DeathsHaveACause' /\ EveryDeathIsKnown'
  BY <1>0, <1>1 DEF Lock, app, pointers, net, DeathsHaveACause, EveryDeathIsKnown, ExitTyped
<1>2. ASSUME NEW t \in Ticker, Tick(t) PROVE DeathsHaveACause' /\ EveryDeathIsKnown'
  <2>0. t \in Thread
    BY <1>2 DEF Ticker, Thread
  <2>1. /\ UNCHANGED <<IS_APP_RUNNING, commands, CLIENT_PEER, IS_DISCONNECTED>>
        /\ \A u \in Thread \ {t} : pc'[u] = pc[u]
        /\ pc[t] \in InTick /\ pc'[t] \in InTick \union {"prompt", "frame"}
        /\ pc'[t] = "sending" => pc[t] = "sending" \/ CLIENT_PEER \in {"up", "freed"}
    BY <1>0, <1>2, StepsOfATick
  <2>2. CURRENT_GAME_STATE' # NULL => CURRENT_GAME_STATE # NULL
    BY <1>2 DEF Tick, ReadInfo, CopyWorld, AddInputs, PutWorld, ReadWorld, ReadId, Send, Sent,
       pointers
  <2>3. UNCHANGED LAST_PLAYER_INPUTS
    BY <1>2 DEF Tick, ReadInfo, CopyWorld, AddInputs, PutWorld, ReadWorld, ReadId, Send, Sent,
       pointers
  <2>4. DeathsHaveACause'
    BY <1>0, <2>0, <2>1, <2>2, <2>3 DEF DeathsHaveACause, ExitTyped, InTick
  <2>5. EveryDeathIsKnown'
    <3>1. CASE AddInputs(t)
      <4>1. crashed' => LAST_PLAYER_INPUTS = NULL /\ UNCHANGED pc /\ pc[t] = "add_inputs"
        BY <3>1 DEF AddInputs, Inside, Dereference
      <4>2. pc[t] = "add_inputs" => CURRENT_GAME_STATE # NULL
        BY <1>0 DEF TickHasItsData
      <4>3. QED  BY <1>0, <2>3, <4>1, <4>2 DEF DeathsHaveACause, EveryDeathIsKnown
    <3>2. CASE PutWorld(t) \/ ReadId(t)
      <4>1. ~crashed'
        BY <1>0, <3>2 DEF PutWorld, ReadId, Inside, Dereference, TickHasItsData
      <4>2. QED  BY <4>1 DEF EveryDeathIsKnown
    <3>3. CASE Sent(t)
      <4>1. crashed' => CLIENT_PEER \in {"freed", NULL} /\ UNCHANGED pc /\ pc[t] = "sending"
        BY <3>3 DEF Sent
      <4>2. crashed' => t = "tick"
        BY <1>0, <4>1 DEF DisconnectComesLast
      <4>3. crashed' => ExitTyped
        BY <1>0, <4>1, <4>2 DEF DeathsHaveACause, FreedHostIsForgotten, DisconnectComesLast
      <4>4. QED  BY <2>1, <4>1, <4>2, <4>3 DEF EveryDeathIsKnown, ExitTyped
    <3>4. CASE ReadInfo(t) \/ CopyWorld(t) \/ ReadWorld(t) \/ Send(t)
      BY <3>4 DEF ReadInfo, CopyWorld, ReadWorld, Send, app, EveryDeathIsKnown
    <3>5. QED  BY <1>2, <3>1, <3>2, <3>3, <3>4 DEF Tick
  <2>6. QED  BY <2>4, <2>5
<1>3. CASE Frame \/ CheckInfo
  <2>1. Quiet /\ pc'["net"] = pc["net"] /\ pc'["main"] = pc["main"] /\ pc'["tick"] # "sending"
    BY <1>0, <1>3, GotoMoves DEF Frame, CheckInfo, app, pointers, net
  <2>2. QED  BY <1>0, <2>1 DEF DeathsHaveACause, EveryDeathIsKnown, ExitTyped
<1>4. CASE TypeCommand \/ PushRequest \/ TypeExit \/ StopThreads \/ Exit
  <2>1. /\ Quiet /\ pc'["net"] = pc["net"] /\ pc'["tick"] = pc["tick"]
        /\ ExitTyped => pc'["main"] \in {"sleep", "join", "exited"}
    BY <1>0, <1>4, GotoMoves
       DEF TypeCommand, PushRequest, TypeExit, StopThreads, Exit, app, pointers, net, ExitTyped
  <2>2. QED  BY <1>0, <2>1 DEF DeathsHaveACause, EveryDeathIsKnown, ExitTyped
<1>5. CASE \/ NetLoop \/ ServiceNothing \/ ReceiveUserInfo \/ ReceiveSlaveConnected
           \/ ReceivePlayerInput \/ PopNothing \/ PopCommand \/ RequestUserInfo \/ Requested
  <2>1. /\ Quiet /\ pc["net"] # "init_inputs"
        /\ pc'["main"] = pc["main"] /\ pc'["tick"] = pc["tick"]
    BY <1>0, <1>5, GotoMoves
       DEF NetLoop, ServiceNothing, ReceiveUserInfo, ReceiveSlaveConnected, ReceivePlayerInput,
           PopNothing, PopCommand, RequestUserInfo, Requested, app, pointers, net
  <2>2. QED  BY <1>0, <2>1 DEF DeathsHaveACause, EveryDeathIsKnown, ExitTyped
<1>6. CASE SetInfo \/ AddSlave
  <2>1. /\ UNCHANGED <<crashed, LAST_PLAYER_INPUTS, CLIENT_PEER>> /\ pc["net"] # "init_inputs"
        /\ CURRENT_GAME_STATE' # NULL => CURRENT_GAME_STATE # NULL
        /\ pc'["main"] = pc["main"] /\ pc'["tick"] = pc["tick"]
    BY <1>0, <1>6, GotoMoves DEF SetInfo, AddSlave, Inside, app, net
  <2>2. QED  BY <1>0, <2>1 DEF DeathsHaveACause, EveryDeathIsKnown, ExitTyped
<1>7. CASE InitWorld \/ InitInputs
  <2>1. /\ UNCHANGED <<crashed, CLIENT_PEER>>
        /\ pc'["net"] = "init_inputs" \/ LAST_PLAYER_INPUTS' # NULL
        /\ pc'["main"] = pc["main"] /\ pc'["tick"] = pc["tick"]
    BY <1>0, <1>7, GotoMoves DEF InitWorld, InitInputs, app, net
  <2>2. QED  BY <1>0, <2>1 DEF DeathsHaveACause, EveryDeathIsKnown, ExitTyped
<1>8. CASE SetInput
  <2>1. LAST_PLAYER_INPUTS # NULL
    BY <1>0, <1>8 DEF SetInput, Inside, MasterIsPrepared, InitDone
  <2>2. /\ Quiet /\ pc'["main"] = pc["main"] /\ pc'["tick"] = pc["tick"]
    BY <1>0, <1>8, <2>1, GotoMoves, DereferenceMoves
       DEF SetInput, Inside, Dereference, pointers, net
  <2>3. QED  BY <1>0, <2>1, <2>2 DEF DeathsHaveACause, EveryDeathIsKnown, ExitTyped
<1>9. CASE ConnectToHost
  <2>1. /\ UNCHANGED <<crashed, CURRENT_GAME_STATE, LAST_PLAYER_INPUTS>>
        /\ CLIENT_PEER' = CLIENT_PEER \/ CLIENT_PEER' # NULL
        /\ pc["net"] # "init_inputs" /\ pc'["main"] = pc["main"] /\ pc'["tick"] = pc["tick"]
    BY <1>0, <1>9, GotoMoves DEF ConnectToHost, app, pointers
  <2>2. QED  BY <1>0, <2>1 DEF DeathsHaveACause, EveryDeathIsKnown, ExitTyped
<1>10. CASE Disconnect \/ DestroyHost \/ ForgetHost
  <2>1. pc["net"] \in {"disconnect", "disconnecting", "destroyed"} /\ ExitTyped
    BY <1>0, <1>10 DEF Disconnect, DestroyHost, ForgetHost, DisconnectComesLast
  <2>2. /\ UNCHANGED <<CURRENT_GAME_STATE, LAST_PLAYER_INPUTS>>
        /\ pc'["main"] = pc["main"] /\ pc'["tick"] = pc["tick"]
    BY <1>0, <1>10, GotoMoves DEF Disconnect, DestroyHost, ForgetHost, app, pointers
  <2>3. crashed' => CLIENT_PEER = NULL /\ UNCHANGED <<pc, CLIENT_PEER>> /\ pc["net"] = "disconnect"
    BY <1>10 DEF Disconnect, DestroyHost, ForgetHost, app
  <2>4. QED  BY <1>0, <2>1, <2>2, <2>3 DEF DeathsHaveACause, EveryDeathIsKnown, ExitTyped
<1>11. CASE ServerRegisters \/ LinkLost \/ UNCHANGED vars
  <2>1. /\ UNCHANGED <<pc, crashed, CURRENT_GAME_STATE, LAST_PLAYER_INPUTS>>
        /\ CLIENT_PEER' = CLIENT_PEER \/ CLIENT_PEER' # NULL
    BY <1>0, <1>11 DEF ServerRegisters, LinkLost, vars, app, pointers, net
  <2>2. QED  BY <1>0, <2>1 DEF DeathsHaveACause, EveryDeathIsKnown, ExitTyped
<1>12. QED
  BY <1>0, <1>1, <1>2, <1>3, <1>4, <1>5, <1>6, <1>7, <1>8, <1>9, <1>10, <1>11
     DEF Next, MainStep, TickStep, NetStep

-----------------------------------------------------------------------------
(* The theorems                                                             *)

\* At the start nothing is locked, read or allocated.
LEMMA InitEstablishesInv ==
  ASSUME Init
  PROVE  ClientInv
<1>1. PlacesOK
  BY DEF Init, PlacesOK, Place, InTick, Thread
<1>2. DataOK
  <2>1. typed \in 0 .. MaxCommands
    BY ClientAssumption DEF Init
  <2>2. commands \in Seq(Command)
    BY DEF Init
  <2>3. QED  BY <2>1, <2>2, NoLinkType DEF Init, DataOK
<1>3. MutexesAreHeldInTheirSections
  BY DEF Init, MutexesAreHeldInTheirSections
<1>4. TickHasItsData /\ NetHasItsEvent
  BY DEF Init, TickHasItsData, NetHasItsEvent, Thread, Ticker
<1>5. MasterIsPrepared /\ FreedHostIsForgotten
  BY ClientAssumption
     DEF Init, MasterIsPrepared, FreedHostIsForgotten, Master, NoLink, InitDone, Thread
<1>6. DisconnectComesLast
  BY DEF Init, DisconnectComesLast, Runner, Thread
<1>7. EveryDeathIsKnown /\ DeathsHaveACause
  BY DEF Init, EveryDeathIsKnown, DeathsHaveACause, Thread
<1>8. QED  BY <1>1, <1>2, <1>3, <1>4, <1>5, <1>6, <1>7 DEF ClientInv, TypeOK

\* Every step keeps the invariant.
LEMMA NextKeepsInv ==
  ASSUME ClientInv, [Next]_vars
  PROVE  ClientInv'
<1>1. /\ TypeOK /\ MutexesAreHeldInTheirSections /\ TickHasItsData
      /\ NetHasItsEvent /\ MasterIsPrepared /\ FreedHostIsForgotten /\ DisconnectComesLast
  BY DEF ClientInv
<1>2. TypeOK'
  BY <1>1, PlacesStep, DataStep DEF TypeOK
<1>3. MutexesAreHeldInTheirSections'
  BY <1>1, MutexStep
<1>4. TickHasItsData' /\ NetHasItsEvent' /\ MasterIsPrepared' /\ FreedHostIsForgotten'
  BY <1>1, TickDataStep, EventStep, PreparedStep, FreedStep
<1>5. DisconnectComesLast'
  BY <1>1, DisconnectStep
<1>6. DeathsHaveACause' /\ EveryDeathIsKnown'
  <2>1. CASE ~crashed
    BY <2>1, DeathStep
  <2>2. CASE crashed
    <3>1. UNCHANGED vars
      BY <2>2 DEF Next
    <3>2. UNCHANGED <<pc, crashed, CURRENT_GAME_STATE, LAST_PLAYER_INPUTS, CLIENT_PEER>>
      BY <3>1 DEF vars, app, pointers, net
    <3>3. QED  BY <3>2 DEF ClientInv, DeathsHaveACause, EveryDeathIsKnown, ExitTyped
  <2>3. QED  BY <2>1, <2>2
<1>7. QED  BY <1>2, <1>3, <1>4, <1>5, <1>6 DEF ClientInv

\* The invariant holds in every interleaving of the three threads.
THEOREM ClientInvariance == Spec => []ClientInv
<1>1. Init => ClientInv
  BY InitEstablishesInv
<1>2. ClientInv /\ [Next]_vars => ClientInv'
  BY NextKeepsInv
<1>3. QED  BY <1>1, <1>2, PTL DEF Spec

\* The variables of the client have their types.
THEOREM ClientTypeCorrectness == Spec => []TypeOK
<1>1. ClientInv => TypeOK
  BY DEF ClientInv
<1>2. QED  BY <1>1, ClientInvariance, PTL

\* Each mutex is held only by a thread inside a section it guards: no thread
\* ever waits for one mutex while it holds another, or ends holding one.
THEOREM MutexDiscipline == Spec => []MutexesAreHeldInTheirSections
<1>1. ClientInv => MutexesAreHeldInTheirSections
  BY DEF ClientInv
<1>2. QED  BY <1>1, ClientInvariance, PTL

\* Of the dereferences without a test of their own, those of client.c:87-98,
\* 192 and 563 never meet a null pointer.
THEOREM PointerSafety == Spec => []PointersOutliveTheirTests
<1>1. ClientInv => PointersOutliveTheirTests
  BY DEF ClientInv, PointersOutliveTheirTests, TickHasItsData, MasterIsPrepared, InitDone
<1>2. QED  BY <1>1, ClientInvariance, PTL

\* A Slave is never announced to a Master that has no world.
THEOREM SlaveNewsIsHandled == Spec => []SlaveNewsFindsAWorld
<1>1. ClientInv => SlaveNewsFindsAWorld
  BY DEF ClientInv, SlaveNewsFindsAWorld, MasterIsPrepared, InitDone
<1>2. QED  BY <1>1, ClientInvariance, PTL

\* The net thread never gives ENet a host it has destroyed.
THEOREM LiveHost == Spec => []NetThreadUsesALiveHost
<1>1. ClientInv => NetThreadUsesALiveHost
  BY DEF ClientInv, NetThreadUsesALiveHost, FreedHostIsForgotten
<1>2. QED  BY <1>1, ClientInvariance, PTL

\* The program dies of exit before any connection, of a tick in the middle of the
\* preparation of a new Master, or of the tick thread's send on a host that exit
\* has destroyed (client.c:223, 548, 590), and of nothing else that it models.
THEOREM DeathsAreKnown == Spec => []EveryDeathIsKnown
<1>1. ClientInv => EveryDeathIsKnown
  BY DEF ClientInv
<1>2. QED  BY <1>1, ClientInvariance, PTL

\* The disconnect of "exit" is the last command (client.c:822-828): none is queued
\* behind it, no host is taken down before "exit" is typed, and main never sends
\* on a peer that has been freed.  That is left to the tick thread.
THEOREM NothingFollowsExit == Spec => []DisconnectComesLast
<1>1. ClientInv => DisconnectComesLast
  BY DEF ClientInv
<1>2. QED  BY <1>1, ClientInvariance, PTL
=============================================================================
