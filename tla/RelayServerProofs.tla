------------------------- MODULE RelayServerProofs -------------------------
(***************************************************************************)
(* Proofs about RelayServer, for every number of peers and slots.          *)
(***************************************************************************)
EXTENDS RelayServer, FiniteSetTheorems, WellFoundedInduction, TLAPS

-----------------------------------------------------------------------------
(* The scans of the table.                                                  *)

\* A nonempty set of naturals has a least element.
LEMMA LeastExists ==
  ASSUME NEW S \in SUBSET Nat, S # {}
  PROVE  \E i \in S : \A j \in S : i <= j
<1> DEFINE R == {s \in Nat \X Nat : s[1] < s[2]}
<1>1. IsWellFoundedOn(R, Nat)
  BY NatLessThanWellFounded DEF OpToRel
<1>2. PICK i \in S : \A j \in S : <<j, i>> \notin R
  BY <1>1, WFMin
<1>3. ASSUME NEW j \in S
      PROVE  i <= j
  <2>1. <<j, i>> \in Nat \X Nat /\ i \in Nat /\ j \in Nat
    OBVIOUS
  <2>2. ~(<<j, i>>[1] < <<j, i>>[2])
    BY <1>2, <2>1
  <2>3. QED  BY <2>1, <2>2
<1>4. QED  BY <1>3

\* A scan that finds something finds the lowest slot of those it looks for.
LEMMA FirstIsLeast ==
  ASSUME NEW S \in SUBSET Slots, S # {}
  PROVE  First(S) \in S /\ \A j \in S : First(S) <= j
<1>1. S \in SUBSET Nat
  BY ServerAssumption DEF Slots
<1>2. \E i \in S : \A j \in S : i <= j
  BY <1>1, LeastExists
<1>3. QED  BY <1>2 DEF First

\* A newcomer gets a slot nobody holds, slot 0 when the table is empty.
LEMMA FreeSlotIsFree ==
  ASSUME NEW t, FreeSlots(t) # {}
  PROVE  /\ FreeSlot(t) \in Slots
         /\ ~ExistsAndConnected(t, FreeSlot(t))
         /\ Occupied(t) = {} => FreeSlot(t) = 0
<1>1. FreeSlot(t) \in FreeSlots(t) /\ \A j \in FreeSlots(t) : FreeSlot(t) <= j
  BY FirstIsLeast DEF FreeSlots, FreeSlot
<1>2. FreeSlot(t) \in Slots /\ ~ExistsAndConnected(t, FreeSlot(t))
  BY <1>1 DEF FreeSlots, Occupied
<1>3. Occupied(t) = {} => FreeSlot(t) = 0
  BY <1>1, <1>2, ServerAssumption DEF FreeSlots, Slots
<1>4. QED  BY <1>2, <1>3

\* The scan for the Master finds one when there is one.
LEMMA MasterSlotIsFound ==
  ASSUME NEW t, MasterSlots(t) # {}
  PROVE  First(MasterSlots(t)) \in MasterSlots(t)
BY FirstIsLeast DEF MasterSlots, Occupied

\* The scan for a peer finds a slot of that peer when it has one.
LEMMA SlotOfPeerIsFound ==
  ASSUME NEW t, NEW p, SlotsOf(t, p) # {}
  PROVE  First(SlotsOf(t, p)) \in SlotsOf(t, p)
BY FirstIsLeast DEF SlotsOf

\* A client is made Master exactly when the table is empty.
LEMMA BecomesMasterOfEmptyTable ==
  ASSUME NEW t
  PROVE  BecomesMaster(t) <=> Occupied(t) = {}
<1>1. IsFiniteSet(Slots)
  BY ServerAssumption, FS_Interval DEF Slots
<1>2. IsFiniteSet(Occupied(t))
  BY <1>1, FS_Subset DEF Occupied
<1>3. QED  BY <1>2, FS_EmptySet DEF BecomesMaster

-----------------------------------------------------------------------------
(* Type correctness.                                                        *)

\* A user info message has its type.
LEMMA MessageType ==
  ASSUME NEW i \in Slots, NEW m \in BOOLEAN,
         NEW kind \in {"RES_USER_INFO", "SLAVE_CONNECTED"}
  PROVE  UserInfoMsg(kind, i, m) \in UserInfo
BY DEF UserInfoMsg, UserInfo

\* Sending on the critical channel keeps its type.
LEMMA SendType ==
  ASSUME NEW S, NEW chan \in [Peer -> Seq(S)], NEW p \in Peer, NEW m \in S
  PROVE  TrySend(chan, p, m) \in [Peer -> Seq(S)]
BY DEF TrySend

\* So does receiving from it.
LEMMA ReceiveType ==
  ASSUME NEW S, NEW chan \in [Peer -> Seq(S)], NEW p \in Peer, chan[p] # <<>>
  PROVE  [chan EXCEPT ![p] = Tail(@)] \in [Peer -> Seq(S)]
OBVIOUS

\* So does answering a request.
LEMMA AnswerType ==
  ASSUME NEW chan \in [Peer -> Seq(UserInfo)], NEW p \in Peer,
         NEW i \in Slots, NEW m \in BOOLEAN
  PROVE  Answer(chan, p, i, m) \in [Peer -> Seq(UserInfo)]
BY MessageType, SendType DEF Answer

\* So does announcing a Slave.
LEMMA AnnounceType ==
  ASSUME NEW chan \in [Peer -> Seq(UserInfo)], NEW t \in [Slots -> Player],
         \A i \in Occupied(t) : t[i].peer \in Peer,
         NEW i \in Slots, NEW m \in BOOLEAN
  PROVE  Announce(chan, t, i, m) \in [Peer -> Seq(UserInfo)]
<1>1. CASE m \/ MasterSlots(t) = {}
  BY <1>1 DEF Announce
<1>2. CASE ~m /\ MasterSlots(t) # {}
  <2>1. MasterPeer(t) \in Peer
    BY <1>2, MasterSlotIsFound DEF MasterPeer, MasterSlots
  <2>2. QED  BY <1>2, <2>1, MessageType, SendType DEF Announce
<1>3. QED  BY <1>1, <1>2

-----------------------------------------------------------------------------
(* The steps that leave the table, the links and the critical channel alone. *)

\* The elements of a sequence with one appended.
LEMMA AppendedElements ==
  ASSUME NEW S, NEW s \in Seq(S), NEW e \in S
  PROVE  {Append(s, e)[n] : n \in DOMAIN Append(s, e)} = {s[n] : n \in DOMAIN s} \union {e}
<1> DEFINE a == Append(s, e)
<1>1. /\ DOMAIN s = 1 .. Len(s) /\ Len(s) \in Nat
      /\ DOMAIN a = 1 .. Len(s) + 1
      /\ a[Len(s) + 1] = e
      /\ \A n \in 1 .. Len(s) : a[n] = s[n]
  OBVIOUS
<1>2. DOMAIN a = (DOMAIN s) \union {Len(s) + 1}
  BY <1>1
<1> HIDE DEF a
<1>3. {a[n] : n \in DOMAIN a} = {s[n] : n \in DOMAIN s} \union {e}
  BY <1>1, <1>2
<1>4. QED  BY <1>3 DEF a

\* The elements of a sequence are its head and those of its tail.
LEMMA HeadAndTailElements ==
  ASSUME NEW S, NEW s \in Seq(S), s # <<>>
  PROVE  {s[n] : n \in DOMAIN s} = {Tail(s)[n] : n \in DOMAIN Tail(s)} \union {Head(s)}
<1>1. /\ DOMAIN s = 1 .. Len(s) /\ Len(s) \in Nat \ {0}
      /\ DOMAIN Tail(s) = 1 .. Len(s) - 1
      /\ Head(s) = s[1]
      /\ \A n \in 1 .. Len(s) - 1 : Tail(s)[n] = s[n + 1]
  OBVIOUS
<1>2. \A n \in DOMAIN s : n = 1 \/ (n - 1 \in DOMAIN Tail(s) /\ s[n] = Tail(s)[n - 1])
  BY <1>1
<1>3. \A n \in DOMAIN Tail(s) : n + 1 \in DOMAIN s /\ Tail(s)[n] = s[n + 1]
  BY <1>1
<1>4. 1 \in DOMAIN s
  BY <1>1
<1>5. {s[n] : n \in DOMAIN s} \subseteq {Tail(s)[n] : n \in DOMAIN Tail(s)} \union {Head(s)}
  BY <1>1, <1>2
<1>6. {Tail(s)[n] : n \in DOMAIN Tail(s)} \union {Head(s)} \subseteq {s[n] : n \in DOMAIN s}
  BY <1>1, <1>3, <1>4
<1>7. QED  BY <1>5, <1>6

\* The part of the invariant that stream packets and requests do not touch.
RegistrationInv ==
  /\ OneMasterAtSlotZero
  /\ SlotsHoldDistinctLivePeers
  /\ UserInfoMatchesTable
  /\ AnswerComesFirst
  /\ MasterKnowsEverySlave
  /\ ConnectionsAreNumbered
  /\ RegisteredAreAnswered

\* A step that leaves the table, the links and the critical channel alone keeps
\* everything that is said of them.
LEMMA RegistrationKept ==
  ASSUME RegistrationInv, UNCHANGED <<ACTIVE_PLAYERS, links, critical, received>>
  PROVE  RegistrationInv'
BY DEF RegistrationInv, links, OneMasterAtSlotZero, SlotsHoldDistinctLivePeers,
       UserInfoMatchesTable, AnswerComesFirst, MasterKnowsEverySlave,
       ConnectionsAreNumbered, RegisteredAreAnswered, SlotOf, IsMaster, ToldTo

\* A step that moves no input and no Master keeps inputs with the Master.
LEMMA InputsKept ==
  ASSUME InputsReachOnlyTheMaster, UNCHANGED <<ACTIVE_PLAYERS, inputsOut>>
  PROVE  InputsReachOnlyTheMaster'
BY DEF InputsReachOnlyTheMaster, IsMaster, SlotOf

\* The invariant in the three parts the steps are checked against.
LEMMA InvParts == ServerInv <=> TypeOK /\ RegistrationInv /\ InputsReachOnlyTheMaster
BY DEF ServerInv, RegistrationInv

\* A repeated request, or one that finds the table full, changes nothing of note.
LEMMA IgnoreRequestKeepsInv ==
  ASSUME ServerInv, NEW p \in Peer, IgnoreRequest(p)
  PROVE  ServerInv'
<1>1. TypeOK'
  <2>1. requests' \in [Peer -> 0 .. MaxRequests]
    BY ServerAssumption DEF ServerInv, TypeOK, IgnoreRequest, CanTakeRequest, TakeRequest
  <2>2. QED  BY <2>1 DEF ServerInv, TypeOK, IgnoreRequest, links, streams
<1>2. RegistrationInv'
  BY InvParts, RegistrationKept DEF IgnoreRequest
<1>3. InputsReachOnlyTheMaster'
  BY InputsKept DEF ServerInv, IgnoreRequest, streams
<1>4. QED  BY <1>1, <1>2, <1>3 DEF ServerInv, RegistrationInv

\* Broadcasting a game state keeps the invariant.
LEMMA BroadcastStateKeepsInv ==
  ASSUME ServerInv, NEW p \in Peer, BroadcastState(p)
  PROVE  ServerInv'
<1>1. TypeOK'
  <2>1. statesIn' \in [Peer -> Seq(GameState)]
    BY DEF ServerInv, TypeOK, BroadcastState
  <2>2. statesOut' \in [Peer -> Seq(GameState)]
    <3>1. Head(statesIn[p]) \in GameState
      BY DEF ServerInv, TypeOK, BroadcastState
    <3>2. \A q \in Peer : Append(statesOut[q], Head(statesIn[p])) \in Seq(GameState)
      BY <3>1 DEF ServerInv, TypeOK
    <3>3. QED  BY <3>2 DEF ServerInv, TypeOK, BroadcastState
  <2>3. QED  BY <2>1, <2>2 DEF ServerInv, TypeOK, BroadcastState, links
<1>2. RegistrationInv'
  BY InvParts, RegistrationKept DEF BroadcastState
<1>3. InputsReachOnlyTheMaster'
  BY InputsKept DEF ServerInv, BroadcastState
<1>4. QED  BY <1>1, <1>2, <1>3 DEF ServerInv, RegistrationInv

\* The slot a scan finds for the Master names a peer, and that peer is Master.
LEMMA MasterPeerIsMaster ==
  ASSUME ServerInv, MasterSlots(ACTIVE_PLAYERS) # {}
  PROVE  MasterPeer(ACTIVE_PLAYERS) \in Peer /\ IsMaster(MasterPeer(ACTIVE_PLAYERS))
BY MasterSlotIsFound DEF MasterPeer, MasterSlots, Occupied, ExistsAndConnected, IsMaster,
   SlotOf, ServerInv, SlotsHoldDistinctLivePeers

\* Relaying an input keeps the invariant: it goes to the Master of the moment.
LEMMA RelayInputKeepsInv ==
  ASSUME ServerInv, NEW p \in Peer, RelayInput(p)
  PROVE  ServerInv'
<1> DEFINE to == MasterPeer(ACTIVE_PLAYERS)
           v == Head(inputsIn[p])
<1>1. v \in PlayerInput
  BY DEF ServerInv, TypeOK, RelayInput
<1>0. inputsIn' \in [Peer -> Seq(PlayerInput)]
  BY DEF ServerInv, TypeOK, RelayInput
<1>2. CASE UNCHANGED inputsOut
  <2>1. TypeOK'
    BY <1>0, <1>2 DEF ServerInv, TypeOK, RelayInput, links
  <2>2. RegistrationInv'
    BY InvParts, RegistrationKept DEF RelayInput
  <2>3. QED  BY <1>2, <2>1, <2>2, InputsKept DEF ServerInv, RegistrationInv, RelayInput
<1>3. CASE MasterSlots(ACTIVE_PLAYERS) # {} /\ inputsOut' = TrySend(inputsOut, to, v)
  <2>1. to \in Peer /\ IsMaster(to)
    BY <1>3, MasterPeerIsMaster
  <2>2. inputsOut' \in [Peer -> Seq(PlayerInput)]
    BY <1>1, <1>3, <2>1, SendType DEF ServerInv, TypeOK
  <2>3. TypeOK'
    BY <1>0, <2>2 DEF ServerInv, TypeOK, RelayInput, links
  <2>4. RegistrationInv'
    BY InvParts, RegistrationKept DEF RelayInput
  <2>5. \A q \in Peer : q # to => inputsOut'[q] = inputsOut[q]
    BY <1>3, <2>1 DEF TrySend, ServerInv, TypeOK
  <2>6. \A q \in Peer : IsMaster(q)' <=> IsMaster(q)
    BY DEF IsMaster, SlotOf, RelayInput
  <2>7. InputsReachOnlyTheMaster'
    BY <2>1, <2>5, <2>6 DEF InputsReachOnlyTheMaster, ServerInv
  <2>8. QED  BY <2>3, <2>4, <2>7 DEF ServerInv, RegistrationInv
<1>4. QED  BY <1>2, <1>3 DEF RelayInput, TrySendLossy

\* Packets that arrive at the server keep the invariant.
LEMMA ArrivalsKeepInv ==
  ASSUME ServerInv, NEW p \in Peer, RequestArrives(p) \/ StateArrives(p) \/ InputArrives(p)
  PROVE  ServerInv'
<1>1. TypeOK'
  <2>1. CASE RequestArrives(p)
    BY <2>1, ServerAssumption DEF ServerInv, TypeOK, RequestArrives, links, streams
  <2>2. CASE StateArrives(p)
    BY <2>2 DEF ServerInv, TypeOK, StateArrives, links, streams
  <2>3. CASE InputArrives(p)
    BY <2>3 DEF ServerInv, TypeOK, InputArrives, links, streams
  <2>4. QED  BY <2>1, <2>2, <2>3
<1>2. UNCHANGED <<ACTIVE_PLAYERS, links, critical, received, streams>>
  BY DEF RequestArrives, StateArrives, InputArrives
<1>3. RegistrationInv' /\ InputsReachOnlyTheMaster'
  BY <1>2, InvParts, RegistrationKept, InputsKept DEF streams
<1>4. QED  BY <1>1, <1>3 DEF ServerInv, RegistrationInv

\* A client that takes a stream packet keeps the invariant.
LEMMA ClientReceivesStreamKeepsInv ==
  ASSUME ServerInv, NEW p \in Peer, ClientReceivesStream(p)
  PROVE  ServerInv'
<1>1. TypeOK'
  <2>0. /\ statesOut \in [Peer -> Seq(GameState)]
        /\ inputsOut \in [Peer -> Seq(PlayerInput)]
    BY DEF ServerInv, TypeOK
  <2>1. \/ statesOut[p] # <<>> /\ statesOut' = [statesOut EXCEPT ![p] = Tail(@)]
        \/ UNCHANGED statesOut
    BY DEF ClientReceivesStream
  <2>2. statesOut' \in [Peer -> Seq(GameState)]
    <3>1. CASE UNCHANGED statesOut
      BY <2>0, <3>1
    <3>2. CASE statesOut[p] # <<>> /\ statesOut' = [statesOut EXCEPT ![p] = Tail(@)]
      <4>1. [statesOut EXCEPT ![p] = Tail(@)] \in [Peer -> Seq(GameState)]
        BY <2>0, <3>2, ReceiveType
      <4>2. QED  BY <3>2, <4>1
    <3>3. QED  BY <2>1, <3>1, <3>2
  <2>3. \/ inputsOut[p] # <<>> /\ inputsOut' = [inputsOut EXCEPT ![p] = Tail(@)]
        \/ UNCHANGED inputsOut
    BY DEF ClientReceivesStream
  <2>4. inputsOut' \in [Peer -> Seq(PlayerInput)]
    <3>1. CASE UNCHANGED inputsOut
      BY <2>0, <3>1
    <3>2. CASE inputsOut[p] # <<>> /\ inputsOut' = [inputsOut EXCEPT ![p] = Tail(@)]
      <4>1. [inputsOut EXCEPT ![p] = Tail(@)] \in [Peer -> Seq(PlayerInput)]
        BY <2>0, <3>2, ReceiveType
      <4>2. QED  BY <3>2, <4>1
    <3>3. QED  BY <2>3, <3>1, <3>2
  <2>5. QED  BY <2>2, <2>4 DEF ServerInv, TypeOK, ClientReceivesStream, links, arrivals
<1>2. RegistrationInv'
  BY InvParts, RegistrationKept DEF ClientReceivesStream
<1>3. \A q \in Peer : inputsOut'[q] # <<>> => inputsOut[q] # <<>>
  BY DEF ServerInv, TypeOK, ClientReceivesStream
<1>4. InputsReachOnlyTheMaster'
  BY <1>3 DEF ServerInv, InputsReachOnlyTheMaster, IsMaster, SlotOf, ClientReceivesStream
<1>5. QED  BY <1>1, <1>2, <1>4 DEF ServerInv, RegistrationInv

-----------------------------------------------------------------------------
(* The steps that change the links or the critical channel.                 *)

\* A new connection keeps the invariant: its peer struct is in no slot.
LEMMA ConnectKeepsInv ==
  ASSUME ServerInv, NEW p \in Peer, Connect(p)
  PROVE  ServerInv'
<1> USE DEF ServerInv
<1>1. /\ connects \in Nat /\ connects < MaxConnects /\ connects' = connects + 1
      /\ connectID \in [Peer -> 0 .. MaxConnects]
      /\ peerState \in [Peer -> {"DISCONNECTED", "CONNECTED", "ZOMBIE"}]
  BY ServerAssumption DEF TypeOK, Connect
<1>2. \A q \in Peer : /\ connectID'[q] = IF q = p THEN connects + 1 ELSE connectID[q]
                      /\ peerState'[q] = IF q = p THEN "CONNECTED" ELSE peerState[q]
  BY <1>1 DEF Connect
<1>3. TypeOK'
  BY <1>1, ServerAssumption DEF TypeOK, Connect, arrivals, streams
<1>4. ~\E i \in Slots : SlotOf(p, i)
  BY DEF SlotsHoldDistinctLivePeers, SlotOf, Connect
<1>5. UNCHANGED <<ACTIVE_PLAYERS, critical, received, inputsOut>>
  BY DEF Connect, streams
<1>6. OneMasterAtSlotZero' /\ AnswerComesFirst' /\ InputsReachOnlyTheMaster'
  BY <1>5 DEF OneMasterAtSlotZero, AnswerComesFirst, InputsReachOnlyTheMaster, IsMaster, SlotOf
<1>7. SlotsHoldDistinctLivePeers'
  BY <1>2, <1>5 DEF SlotsHoldDistinctLivePeers, SlotOf
<1>8. UserInfoMatchesTable'
  BY <1>5 DEF UserInfoMatchesTable, IsMaster, SlotOf, ToldTo
<1>9. MasterKnowsEverySlave'
  BY <1>2, <1>4, <1>5 DEF MasterKnowsEverySlave, IsMaster, SlotOf, ToldTo
<1>10. ConnectionsAreNumbered'
  <2>1. \A q \in Peer : connectID[q] \in Nat /\ connectID[q] <= connects
    BY <1>1, ServerAssumption DEF ConnectionsAreNumbered
  <2>2. QED  BY <1>1, <1>2, <2>1 DEF ConnectionsAreNumbered
<1>11. RegisteredAreAnswered'
  BY <1>5 DEF RegisteredAreAnswered, SlotOf, ToldTo
<1>12. QED  BY <1>3, <1>6, <1>7, <1>8, <1>9, <1>10, <1>11

\* A link that ends keeps the invariant: the slot waits for the DISCONNECT event.
LEMMA LinkEndsKeepsInv ==
  ASSUME ServerInv, NEW p \in Peer, LinkEnds(p)
  PROVE  ServerInv'
<1> USE DEF ServerInv
<1>1. peerState \in [Peer -> {"DISCONNECTED", "CONNECTED", "ZOMBIE"}]
  BY DEF TypeOK
<1>2. \A q \in Peer : peerState'[q] = IF q = p THEN "ZOMBIE" ELSE peerState[q]
  BY <1>1 DEF LinkEnds
<1>3. TypeOK'
  <2>1. peerState' \in [Peer -> {"DISCONNECTED", "CONNECTED", "ZOMBIE"}]
    BY <1>1 DEF LinkEnds
  <2>2. requests' \in [Peer -> 0 .. MaxRequests]
    BY ServerAssumption DEF TypeOK, LinkEnds
  <2>3. statesIn' \in [Peer -> Seq(GameState)] /\ inputsIn' \in [Peer -> Seq(PlayerInput)]
    BY DEF TypeOK, LinkEnds
  <2>4. QED  BY <2>1, <2>2, <2>3 DEF TypeOK, LinkEnds, streams
<1>4. UNCHANGED <<ACTIVE_PLAYERS, connectID, connects, critical, received, inputsOut>>
  BY DEF LinkEnds, streams
<1>5. OneMasterAtSlotZero' /\ AnswerComesFirst' /\ InputsReachOnlyTheMaster'
  BY <1>4 DEF OneMasterAtSlotZero, AnswerComesFirst, InputsReachOnlyTheMaster, IsMaster, SlotOf
<1>6. SlotsHoldDistinctLivePeers'
  BY <1>2, <1>4 DEF SlotsHoldDistinctLivePeers, SlotOf
<1>7. UserInfoMatchesTable' /\ RegisteredAreAnswered'
  BY <1>4 DEF UserInfoMatchesTable, RegisteredAreAnswered, IsMaster, SlotOf, ToldTo
<1>8. MasterKnowsEverySlave'
  BY <1>2, <1>4 DEF MasterKnowsEverySlave, IsMaster, SlotOf, ToldTo
<1>9. ConnectionsAreNumbered'
  BY <1>2, <1>4 DEF ConnectionsAreNumbered, LinkEnds
<1>10. QED  BY <1>3, <1>5, <1>6, <1>7, <1>8, <1>9

\* Receiving moves a message from one half of what a client was told to the other.
LEMMA ClientReceivesUserInfoKeepsInv ==
  ASSUME ServerInv, NEW p \in Peer, ClientReceivesUserInfo(p)
  PROVE  ServerInv'
<1> USE DEF ServerInv
<1>1. critical \in [Peer -> Seq(UserInfo)] /\ received \in [Peer -> SUBSET UserInfo]
  BY DEF TypeOK
<1>2. critical[p] \in Seq(UserInfo) /\ critical[p] # <<>> /\ Head(critical[p]) \in UserInfo
  BY <1>1 DEF ClientReceivesUserInfo
<1>3. \A q \in Peer :
        /\ critical'[q] = IF q = p THEN Tail(critical[p]) ELSE critical[q]
        /\ received'[q] = IF q = p THEN received[p] \union {Head(critical[p])} ELSE received[q]
  BY <1>1 DEF ClientReceivesUserInfo
<1>4. TypeOK'
  <2>1. critical' \in [Peer -> Seq(UserInfo)]
    BY <1>1, <1>2, ReceiveType DEF ClientReceivesUserInfo
  <2>2. received' \in [Peer -> SUBSET UserInfo]
    BY <1>1, <1>2 DEF ClientReceivesUserInfo
  <2>3. QED  BY <2>1, <2>2 DEF TypeOK, ClientReceivesUserInfo, links, arrivals, streams
<1>5. UNCHANGED <<ACTIVE_PLAYERS, peerState, connectID, connects, inputsOut>>
  BY DEF ClientReceivesUserInfo, links, streams
<1>6. \A q \in Peer : ToldTo(q)' = ToldTo(q)
  <2>1. ToldTo(p)' = ToldTo(p)
    <3>1. ToldTo(p)' = received[p] \union {Head(critical[p])}
                         \union {Tail(critical[p])[n] : n \in DOMAIN Tail(critical[p])}
      BY <1>3 DEF ToldTo
    <3>2. {critical[p][n] : n \in DOMAIN critical[p]}
            = {Tail(critical[p])[n] : n \in DOMAIN Tail(critical[p])} \union {Head(critical[p])}
      BY <1>2, HeadAndTailElements
    <3>3. QED  BY <3>1, <3>2 DEF ToldTo
  <2>2. QED  BY <1>3, <2>1 DEF ToldTo
<1>7. OneMasterAtSlotZero' /\ SlotsHoldDistinctLivePeers' /\ InputsReachOnlyTheMaster'
      /\ ConnectionsAreNumbered'
  BY <1>5 DEF OneMasterAtSlotZero, SlotsHoldDistinctLivePeers, InputsReachOnlyTheMaster,
              ConnectionsAreNumbered, IsMaster, SlotOf
<1>8. UserInfoMatchesTable' /\ MasterKnowsEverySlave' /\ RegisteredAreAnswered'
  BY <1>5, <1>6 DEF UserInfoMatchesTable, MasterKnowsEverySlave, RegisteredAreAnswered,
                    IsMaster, SlotOf
<1>9. AnswerComesFirst'
  <2>1. ASSUME NEW n \in DOMAIN Tail(critical[p])
        PROVE  Tail(critical[p])[n].type # "RES_USER_INFO"
    <3>1. /\ n + 1 \in DOMAIN critical[p] /\ n + 1 # 1
          /\ Tail(critical[p])[n] = critical[p][n + 1]
      BY <1>2
    <3>2. QED  BY <3>1 DEF AnswerComesFirst
  <2>2. ASSUME NEW q \in Peer, NEW n \in DOMAIN critical'[q]
        PROVE  critical'[q][n].type = "RES_USER_INFO" <=> n = 1 /\ received'[q] = {}
    <3>1. CASE q = p
      <4>1. received'[p] # {}
        BY <1>3
      <4>2. QED  BY <1>3, <2>1, <3>1, <4>1
    <3>2. CASE q # p
      BY <1>3, <3>2 DEF AnswerComesFirst
    <3>3. QED  BY <3>1, <3>2
  <2>3. QED  BY <2>2 DEF AnswerComesFirst
<1>10. QED  BY <1>4, <1>7, <1>8, <1>9

-----------------------------------------------------------------------------
(* The steps that change the table.                                         *)

\* Removing a peer frees the one slot it holds and touches no other.
LEMMA RemoveFreesOneSlot ==
  ASSUME ServerInv, NEW p \in Peer
  PROVE  /\ RemovePlayer(ACTIVE_PLAYERS, p) \in [Slots -> Player]
         /\ \A i \in Slots :
              RemovePlayer(ACTIVE_PLAYERS, p)[i] =
                IF SlotOf(p, i)
                THEN [ACTIVE_PLAYERS[i] EXCEPT !.peer = NULL, !.is_exists = FALSE]
                ELSE ACTIVE_PLAYERS[i]
<1> USE DEF ServerInv
<1> DEFINE S == SlotsOf(ACTIVE_PLAYERS, p)
           r == RemovePlayer(ACTIVE_PLAYERS, p)
<1>1. ACTIVE_PLAYERS \in [Slots -> Player]
  BY DEF TypeOK
<1>2. \A i \in Slots : i \in S <=> SlotOf(p, i)
  BY DEF SlotsOf, SlotOf
<1>3. CASE S = {}
  <2>1. r = ACTIVE_PLAYERS
    BY <1>3 DEF RemovePlayer
  <2>2. QED  BY <1>1, <1>2, <1>3, <2>1
<1>4. CASE S # {}
  <2>1. PICK k \in Slots : k = First(S) /\ SlotOf(p, k)
    BY <1>4, <1>2, SlotOfPeerIsFound DEF SlotsOf
  <2>2. \A i \in Slots : SlotOf(p, i) => i = k
    BY <2>1 DEF SlotsHoldDistinctLivePeers
  <2>3. r = [ACTIVE_PLAYERS EXCEPT ![k].peer = NULL, ![k].is_exists = FALSE]
    BY <1>4, <2>1 DEF RemovePlayer
  <2>4. /\ r \in [Slots -> Player]
        /\ \A i \in Slots :
             r[i] = IF i = k THEN [ACTIVE_PLAYERS[k] EXCEPT !.peer = NULL, !.is_exists = FALSE]
                    ELSE ACTIVE_PLAYERS[i]
    BY <1>1, <2>3 DEF Player
  <2>5. QED  BY <2>1, <2>2, <2>4
<1>5. QED  BY <1>3, <1>4

\* Removing a player keeps the invariant.
LEMMA HandleDisconnectKeepsInv ==
  ASSUME ServerInv, NEW p \in Peer, HandleDisconnect(p)
  PROVE  ServerInv'
<1> USE DEF ServerInv
<1>1. /\ ACTIVE_PLAYERS \in [Slots -> Player]
      /\ ACTIVE_PLAYERS' \in [Slots -> Player]
      /\ \A i \in Slots :
           ACTIVE_PLAYERS'[i] =
             IF SlotOf(p, i)
             THEN [ACTIVE_PLAYERS[i] EXCEPT !.peer = NULL, !.is_exists = FALSE]
             ELSE ACTIVE_PLAYERS[i]
  BY RemoveFreesOneSlot DEF HandleDisconnect, TypeOK
<1>2. \A i \in Slots :
        /\ ACTIVE_PLAYERS'[i].is_exists <=> ACTIVE_PLAYERS[i].is_exists /\ ~SlotOf(p, i)
        /\ ACTIVE_PLAYERS'[i].is_exists => ACTIVE_PLAYERS'[i] = ACTIVE_PLAYERS[i]
  <2>1. SUFFICES ASSUME NEW i \in Slots
                 PROVE  /\ ACTIVE_PLAYERS'[i].is_exists <=>
                              ACTIVE_PLAYERS[i].is_exists /\ ~SlotOf(p, i)
                        /\ ACTIVE_PLAYERS'[i].is_exists =>
                              ACTIVE_PLAYERS'[i] = ACTIVE_PLAYERS[i]
    OBVIOUS
  <2>2. ACTIVE_PLAYERS[i] \in Player
    BY <1>1
  <2>3. CASE SlotOf(p, i)
    BY <1>1, <2>2, <2>3 DEF Player
  <2>4. CASE ~SlotOf(p, i)
    BY <1>1, <2>4
  <2>5. QED  BY <2>3, <2>4
<1>3. \A q \in Peer : \A i \in Slots : SlotOf(q, i)' <=> SlotOf(q, i) /\ q # p
  BY <1>2 DEF SlotOf
<1>4. \A q \in Peer : IsMaster(q)' <=> IsMaster(q) /\ q # p
  BY <1>2, <1>3 DEF IsMaster, SlotOf
<1>5. /\ critical \in [Peer -> Seq(UserInfo)] /\ received \in [Peer -> SUBSET UserInfo]
      /\ statesOut \in [Peer -> Seq(GameState)] /\ inputsOut \in [Peer -> Seq(PlayerInput)]
      /\ peerState \in [Peer -> {"DISCONNECTED", "CONNECTED", "ZOMBIE"}]
      /\ connectID \in [Peer -> 0 .. MaxConnects]
  BY DEF TypeOK
<1>6. \A q \in Peer :
        /\ critical'[q] = IF q = p THEN <<>> ELSE critical[q]
        /\ received'[q] = IF q = p THEN {} ELSE received[q]
        /\ inputsOut'[q] = IF q = p THEN <<>> ELSE inputsOut[q]
        /\ peerState'[q] = IF q = p THEN "DISCONNECTED" ELSE peerState[q]
        /\ connectID'[q] = IF q = p THEN 0 ELSE connectID[q]
  BY <1>5 DEF HandleDisconnect
<1>7. \A q \in Peer : ToldTo(q)' = IF q = p THEN {} ELSE ToldTo(q)
  BY <1>6 DEF ToldTo
<1>8. TypeOK'
  <2>1. critical' \in [Peer -> Seq(UserInfo)] /\ received' \in [Peer -> SUBSET UserInfo]
    BY <1>5 DEF HandleDisconnect
  <2>2. statesOut' \in [Peer -> Seq(GameState)] /\ inputsOut' \in [Peer -> Seq(PlayerInput)]
    BY <1>5 DEF HandleDisconnect
  <2>3. /\ peerState' \in [Peer -> {"DISCONNECTED", "CONNECTED", "ZOMBIE"}]
        /\ connectID' \in [Peer -> 0 .. MaxConnects]
    BY <1>5, ServerAssumption DEF HandleDisconnect
  <2>4. QED  BY <1>1, <2>1, <2>2, <2>3 DEF TypeOK, HandleDisconnect, arrivals
<1>9. OneMasterAtSlotZero'
  BY <1>2 DEF OneMasterAtSlotZero
<1>10. SlotsHoldDistinctLivePeers'
  <2>1. \A i \in Slots : ACTIVE_PLAYERS'[i].is_exists =>
          /\ ACTIVE_PLAYERS'[i].peer \in Peer
          /\ peerState'[ACTIVE_PLAYERS'[i].peer] # "DISCONNECTED"
    BY <1>2, <1>6 DEF SlotsHoldDistinctLivePeers, SlotOf
  <2>2. \A i, j \in Slots : \A q \in Peer : SlotOf(q, i)' /\ SlotOf(q, j)' => i = j
    BY <1>3 DEF SlotsHoldDistinctLivePeers
  <2>3. QED  BY <2>1, <2>2 DEF SlotsHoldDistinctLivePeers
<1>11. UserInfoMatchesTable'
  <2>1. ASSUME NEW q \in Peer, q # p, NEW m \in ToldTo(q)
        PROVE  IF m.type = "RES_USER_INFO"
               THEN SlotOf(q, m.id)' /\ m.is_master = ACTIVE_PLAYERS'[m.id].is_master
               ELSE IsMaster(q)' /\ ~m.is_master /\ m.id # 0
    <3>1. m \in UserInfo
      BY <1>5 DEF ToldTo
    <3>2. m.id \in Slots
      BY <3>1 DEF UserInfo
    <3>3. QED  BY <1>2, <1>3, <1>4, <2>1, <3>2 DEF UserInfoMatchesTable, SlotOf
  <2>2. QED  BY <1>7, <2>1 DEF UserInfoMatchesTable
<1>12. AnswerComesFirst'
  BY <1>6 DEF AnswerComesFirst
<1>13. MasterKnowsEverySlave'
  BY <1>2, <1>4, <1>6, <1>7 DEF MasterKnowsEverySlave
<1>14. InputsReachOnlyTheMaster'
  BY <1>4, <1>6 DEF InputsReachOnlyTheMaster
<1>15. ConnectionsAreNumbered'
  BY <1>5, <1>6 DEF ConnectionsAreNumbered, HandleDisconnect, TypeOK
<1>16. RegisteredAreAnswered'
  BY <1>2, <1>3, <1>7 DEF RegisteredAreAnswered
<1>17. QED
  BY <1>8, <1>9, <1>10, <1>11, <1>12, <1>13, <1>14, <1>15, <1>16

\* What a registration does, in the terms of the invariant: a free slot i is
\* filled for a peer that had been told nothing; that peer is answered, and the
\* Master, if it is another peer with a working link, hears of the newcomer.
Registration(p, i, m) ==
  /\ ~ACTIVE_PLAYERS[i].is_exists
  /\ m <=> \A j \in Slots : ~ACTIVE_PLAYERS[j].is_exists
  /\ m => i = 0
  /\ ACTIVE_PLAYERS' \in [Slots -> Player]
  /\ \A j \in Slots : ACTIVE_PLAYERS'[j] =
       IF j = i THEN [peer |-> p, is_exists |-> TRUE, is_connected |-> TRUE, is_master |-> m]
       ELSE ACTIVE_PLAYERS[j]
  /\ \A j \in Slots : ~SlotOf(p, j)
  /\ critical[p] = <<>> /\ received[p] = {}
  /\ critical' \in [Peer -> Seq(UserInfo)]
  /\ critical'[p] = <<UserInfoMsg("RES_USER_INFO", i, m)>>
  /\ \A q \in Peer \ {p} :
       critical'[q] = IF ~m /\ IsMaster(q) /\ peerState[q] = "CONNECTED"
                      THEN Append(critical[q], UserInfoMsg("SLAVE_CONNECTED", i, m))
                      ELSE critical[q]

\* What a registration does to the table and to the critical channel.
LEMMA RegisterEffect ==
  ASSUME ServerInv, NEW p \in Peer, RegisterPlayer(p)
  PROVE  \E i \in Slots, m \in BOOLEAN : Registration(p, i, m)
<1> USE DEF ServerInv
<1> DEFINE i == FreeSlot(ACTIVE_PLAYERS)
           m == BecomesMaster(ACTIVE_PLAYERS)
           t == ACTIVE_PLAYERS'
           answered == Answer(critical, p, i, m)
<1>1. /\ ACTIVE_PLAYERS \in [Slots -> Player]
      /\ critical \in [Peer -> Seq(UserInfo)] /\ received \in [Peer -> SUBSET UserInfo]
  BY DEF TypeOK
<1>2. \A j \in Slots : ExistsAndConnected(ACTIVE_PLAYERS, j) <=> ACTIVE_PLAYERS[j].is_exists
  BY DEF RegisteredAreAnswered, ExistsAndConnected
<1>3. i \in Slots /\ ~ACTIVE_PLAYERS[i].is_exists /\ (Occupied(ACTIVE_PLAYERS) = {} => i = 0)
  BY <1>2, FreeSlotIsFree DEF RegisterPlayer
<1>4. m \in BOOLEAN /\ (m <=> Occupied(ACTIVE_PLAYERS) = {})
  BY BecomesMasterOfEmptyTable DEF BecomesMaster
<1>5. m <=> \A j \in Slots : ~ACTIVE_PLAYERS[j].is_exists
  BY <1>2, <1>4 DEF Occupied
<1>6. m => i = 0
  BY <1>3, <1>4
<1>7. /\ t \in [Slots -> Player]
      /\ \A j \in Slots : t[j] =
           IF j = i THEN [peer |-> p, is_exists |-> TRUE, is_connected |-> TRUE, is_master |-> m]
           ELSE ACTIVE_PLAYERS[j]
  BY <1>1, <1>3, <1>4 DEF RegisterPlayer, Player
<1>8. \A j \in Slots : ~SlotOf(p, j)
  BY <1>2 DEF RegisterPlayer, IsPlayerActive, Occupied, SlotOf
<1>9. critical[p] = <<>> /\ received[p] = {}
  <2>1. ToldTo(p) = {}
    BY <1>8 DEF RegisteredAreAnswered
  <2>2. \A n \in DOMAIN critical[p] : FALSE
    BY <2>1 DEF ToldTo
  <2>3. critical[p] \in Seq(UserInfo)
    BY <1>1
  <2>4. critical[p] = <<>>
    BY <2>2, <2>3
  <2>5. QED  BY <2>1, <2>4 DEF ToldTo
<1>10. /\ critical' = Announce(answered, t, i, m)
       /\ peerState[p] = "CONNECTED"
       /\ UNCHANGED peerState
  BY DEF RegisterPlayer, CanTakeRequest, links
<1> HIDE DEF i, m, t
<1>11. /\ answered \in [Peer -> Seq(UserInfo)]
       /\ answered[p] = <<UserInfoMsg("RES_USER_INFO", i, m)>>
       /\ \A q \in Peer \ {p} : answered[q] = critical[q]
  <2>1. answered \in [Peer -> Seq(UserInfo)]
    BY <1>1, <1>3, <1>4, AnswerType
  <2>2. answered = [critical EXCEPT ![p] = Append(@, UserInfoMsg("RES_USER_INFO", i, m))]
    BY <1>10 DEF Answer, TrySend
  <2>3. Append(<<>>, UserInfoMsg("RES_USER_INFO", i, m)) = <<UserInfoMsg("RES_USER_INFO", i, m)>>
    OBVIOUS
  <2>4. QED  BY <1>1, <1>9, <2>1, <2>2, <2>3
<1> HIDE DEF answered
<1>12. \A j \in Slots : t[j].is_exists => t[j].peer \in Peer /\ t[j].is_connected
  BY <1>7 DEF SlotsHoldDistinctLivePeers, RegisteredAreAnswered
<1>13. critical' \in [Peer -> Seq(UserInfo)]
  BY <1>3, <1>4, <1>7, <1>10, <1>11, <1>12, AnnounceType DEF Occupied, ExistsAndConnected
<1> DEFINE Told == \A q \in Peer \ {p} :
                     critical'[q] = IF ~m /\ IsMaster(q) /\ peerState[q] = "CONNECTED"
                                    THEN Append(critical[q], UserInfoMsg("SLAVE_CONNECTED", i, m))
                                    ELSE critical[q]
           TakesAnswer == critical'[p] = <<UserInfoMsg("RES_USER_INFO", i, m)>>
<1>14. ASSUME m PROVE TakesAnswer /\ Told
  BY <1>10, <1>11, <1>14 DEF Announce
<1>15. ASSUME ~m PROVE TakesAnswer /\ Told
  <2>1. \A j \in Slots : j \in MasterSlots(t)
          <=> ACTIVE_PLAYERS[j].is_exists /\ ACTIVE_PLAYERS[j].is_master
    <3>1. \A j \in Slots : j \in MasterSlots(t) <=> t[j].is_exists /\ t[j].is_master
      BY <1>12 DEF MasterSlots, Occupied, ExistsAndConnected
    <3>2. QED  BY <1>3, <1>7, <1>15, <3>1
  <2>2. CASE MasterSlots(t) = {}
    <3>1. \A q \in Peer : ~IsMaster(q)
      BY <2>1, <2>2 DEF IsMaster, SlotOf
    <3>2. critical' = answered
      BY <1>10, <2>2 DEF Announce
    <3>3. QED  BY <1>11, <3>1, <3>2
  <2>3. CASE MasterSlots(t) # {}
    <3> DEFINE k == First(MasterSlots(t))
               q0 == MasterPeer(t)
    <3>1. k \in MasterSlots(t) /\ k \in Slots
      BY <2>3, MasterSlotIsFound DEF MasterSlots, Occupied
    <3>2. ACTIVE_PLAYERS[k].is_exists /\ ACTIVE_PLAYERS[k].is_master /\ k # i /\ k = 0
      BY <1>3, <2>1, <3>1 DEF OneMasterAtSlotZero
    <3>3. q0 = ACTIVE_PLAYERS[k].peer /\ q0 \in Peer /\ SlotOf(q0, k)
      BY <1>7, <3>1, <3>2 DEF MasterPeer, SlotsHoldDistinctLivePeers, SlotOf
    <3>4. q0 # p
      BY <1>8, <3>1, <3>3
    <3>5. \A q \in Peer : IsMaster(q) <=> q = q0
      BY <3>1, <3>2, <3>3 DEF IsMaster, SlotOf, OneMasterAtSlotZero
    <3>6. critical' = TrySend(answered, q0, UserInfoMsg("SLAVE_CONNECTED", i, m))
      BY <1>10, <1>15, <2>3 DEF Announce
    <3> HIDE DEF q0
    <3>7. \A q \in Peer : critical'[q] =
            IF q = q0 /\ peerState[q] = "CONNECTED"
            THEN Append(answered[q], UserInfoMsg("SLAVE_CONNECTED", i, m))
            ELSE answered[q]
      BY <1>11, <3>3, <3>6 DEF TrySend
    <3>8. QED  BY <1>11, <1>15, <3>4, <3>5, <3>7
  <2>4. QED  BY <2>2, <2>3
<1>16. TakesAnswer /\ Told
  BY <1>4, <1>14, <1>15
<1> HIDE DEF TakesAnswer, Told
<1> USE <1>3, <1>4
<1>17. WITNESS i \in Slots, m \in BOOLEAN
<1>18. QED
  BY <1>3, <1>5, <1>6, <1>7, <1>8, <1>9, <1>13, <1>16 DEF Registration, t, TakesAnswer, Told

\* Registering a player keeps the invariant.
LEMMA RegisterPlayerKeepsInv ==
  ASSUME ServerInv, NEW p \in Peer, RegisterPlayer(p)
  PROVE  ServerInv'
<1> USE DEF ServerInv
<1>1. PICK i \in Slots, m \in BOOLEAN : Registration(p, i, m)
  BY RegisterEffect
<1> USE DEF Registration
<1> DEFINE answer == UserInfoMsg("RES_USER_INFO", i, m)
           news == UserInfoMsg("SLAVE_CONNECTED", i, m)
           hears(q) == ~m /\ IsMaster(q) /\ peerState[q] = "CONNECTED"
<1>2. UNCHANGED <<peerState, connectID, connects, received, inputsOut>>
      /\ peerState[p] = "CONNECTED"
  BY DEF RegisterPlayer, CanTakeRequest, links, streams
<1>3. /\ critical \in [Peer -> Seq(UserInfo)] /\ received \in [Peer -> SUBSET UserInfo]
      /\ answer \in UserInfo /\ news \in UserInfo
  BY MessageType DEF TypeOK
<1>4. /\ answer.type = "RES_USER_INFO" /\ answer.id = i /\ answer.is_master = m
      /\ news.type = "SLAVE_CONNECTED" /\ news.id = i /\ news.is_master = m
  BY DEF UserInfoMsg
<1> HIDE DEF answer, news
<1>5. /\ \A j \in Slots : SlotOf(p, j)' <=> j = i
      /\ \A q \in Peer \ {p} : \A j \in Slots : SlotOf(q, j)' <=> SlotOf(q, j)
      /\ \A j \in Slots : ACTIVE_PLAYERS'[j].is_exists /\ j # i =>
           ACTIVE_PLAYERS[j].is_exists /\ ACTIVE_PLAYERS'[j] = ACTIVE_PLAYERS[j]
      /\ \A j \in Slots : ACTIVE_PLAYERS[j].is_exists =>
           j # i /\ ACTIVE_PLAYERS'[j] = ACTIVE_PLAYERS[j]
  BY <1>1 DEF SlotOf
<1>6. /\ IsMaster(p)' <=> m
      /\ \A q \in Peer \ {p} : IsMaster(q)' <=> IsMaster(q)
  <2>1. IsMaster(p)' <=> m
    BY <1>1, <1>5 DEF IsMaster
  <2>2. ASSUME NEW q \in Peer \ {p} PROVE IsMaster(q)' <=> IsMaster(q)
    BY <1>5, <2>2 DEF IsMaster, SlotOf
  <2>3. QED  BY <2>1, <2>2
<1>7. /\ ToldTo(p)' = {answer}
      /\ \A q \in Peer \ {p} :
           ToldTo(q)' = IF hears(q) THEN ToldTo(q) \union {news} ELSE ToldTo(q)
  <2>1. ToldTo(p)' = {answer}
    <3>1. DOMAIN <<answer>> = {1} /\ <<answer>>[1] = answer
      OBVIOUS
    <3>2. critical'[p] = <<answer>> /\ received'[p] = {}
      BY <1>1, <1>2 DEF answer
    <3>3. QED  BY <3>1, <3>2 DEF ToldTo
  <2>2. ASSUME NEW q \in Peer \ {p}
        PROVE  ToldTo(q)' = IF hears(q) THEN ToldTo(q) \union {news} ELSE ToldTo(q)
    <3>1. CASE hears(q)
      <4>1. critical'[q] = Append(critical[q], news)
        BY <1>1, <3>1 DEF news
      <4>2. critical[q] \in Seq(UserInfo)
        BY <1>3
      <4>3. {Append(critical[q], news)[n] : n \in DOMAIN Append(critical[q], news)}
              = {critical[q][n] : n \in DOMAIN critical[q]} \union {news}
        <5>1. news \in UserInfo
          BY <1>3
        <5>2. PICK s \in Seq(UserInfo), e \in UserInfo : s = critical[q] /\ e = news
          BY <4>2, <5>1
        <5>3. {Append(s, e)[n] : n \in DOMAIN Append(s, e)} = {s[n] : n \in DOMAIN s} \union {e}
          BY AppendedElements
        <5>4. QED  BY <5>2, <5>3
      <4>4. QED  BY <1>2, <3>1, <4>1, <4>3 DEF ToldTo
    <3>2. CASE ~hears(q)
      BY <1>1, <1>2, <3>2 DEF ToldTo
    <3>3. QED  BY <3>1, <3>2
  <2>3. QED  BY <2>1, <2>2
<1>8. TypeOK'
  <2>1. requests' \in [Peer -> 0 .. MaxRequests]
    BY ServerAssumption DEF TypeOK, RegisterPlayer, CanTakeRequest, TakeRequest
  <2>2. QED  BY <1>1, <2>1 DEF TypeOK, RegisterPlayer, links, streams
<1>9. OneMasterAtSlotZero'
  BY <1>1, <1>5 DEF OneMasterAtSlotZero
<1>10. SlotsHoldDistinctLivePeers'
  <2>1. \A j \in Slots : ACTIVE_PLAYERS'[j].is_exists =>
          /\ ACTIVE_PLAYERS'[j].peer \in Peer
          /\ peerState'[ACTIVE_PLAYERS'[j].peer] # "DISCONNECTED"
    BY <1>1, <1>2, <1>5 DEF SlotsHoldDistinctLivePeers
  <2>2. \A j, k \in Slots : \A q \in Peer : SlotOf(q, j)' /\ SlotOf(q, k)' => j = k
    BY <1>5 DEF SlotsHoldDistinctLivePeers
  <2>3. QED  BY <2>1, <2>2 DEF SlotsHoldDistinctLivePeers
<1>11. UserInfoMatchesTable'
  <2>1. ASSUME NEW q \in Peer, NEW msg \in ToldTo(q)'
        PROVE  IF msg.type = "RES_USER_INFO"
               THEN SlotOf(q, msg.id)' /\ msg.is_master = ACTIVE_PLAYERS'[msg.id].is_master
               ELSE IsMaster(q)' /\ ~msg.is_master /\ msg.id # 0
    <3>1. CASE q = p
      BY <1>1, <1>4, <1>5, <1>7, <2>1, <3>1
    <3>2. CASE q # p /\ msg \in ToldTo(q)
      <4>0. msg \in UserInfo
        BY <1>3, <3>2 DEF ToldTo
      <4>1. msg.id \in Slots
        BY <4>0 DEF UserInfo
      <4>2. msg.type = "RES_USER_INFO" =>
              SlotOf(q, msg.id) /\ msg.is_master = ACTIVE_PLAYERS[msg.id].is_master
        BY <3>2 DEF UserInfoMatchesTable
      <4>3. msg.type # "RES_USER_INFO" => IsMaster(q) /\ ~msg.is_master /\ msg.id # 0
        BY <3>2 DEF UserInfoMatchesTable
      <4>4. QED  BY <1>5, <1>6, <3>2, <4>1, <4>2, <4>3 DEF SlotOf
    <3>3. CASE q # p /\ msg = news /\ hears(q)
      <4>1. ACTIVE_PLAYERS[0].is_exists /\ 0 \in Slots
        BY <3>3 DEF IsMaster, SlotOf, OneMasterAtSlotZero
      <4>2. i # 0
        BY <1>1, <4>1
      <4>3. QED  BY <1>4, <1>6, <3>3, <4>2
    <3>4. QED  BY <1>7, <2>1, <3>1, <3>2, <3>3
  <2>2. QED  BY <2>1 DEF UserInfoMatchesTable
<1>12. RegisteredAreAnswered'
  <2>1. \A j \in Slots : ACTIVE_PLAYERS'[j].is_exists => ACTIVE_PLAYERS'[j].is_connected
    BY <1>1, <1>5 DEF RegisteredAreAnswered
  <2>2. \A q \in Peer : (\E j \in Slots : SlotOf(q, j)') <=> ToldTo(q)' # {}
    <3>1. ASSUME NEW q \in Peer \ {p}
          PROVE  (\E j \in Slots : SlotOf(q, j)') <=> ToldTo(q)' # {}
      <4>1. hears(q) => \E j \in Slots : SlotOf(q, j)
        BY DEF IsMaster
      <4>2. QED  BY <1>5, <1>7, <3>1, <4>1 DEF RegisteredAreAnswered
    <3>2. QED  BY <1>5, <1>7, <3>1
  <2>3. QED  BY <2>1, <2>2 DEF RegisteredAreAnswered
<1>13. AnswerComesFirst'
  <2>1. ASSUME NEW q \in Peer, NEW n \in DOMAIN critical'[q]
        PROVE  critical'[q][n].type = "RES_USER_INFO" <=> n = 1 /\ received'[q] = {}
    <3>1. CASE q = p
      BY <1>1, <1>2, <1>4, <2>1, <3>1 DEF answer
    <3>2. CASE q # p /\ ~hears(q)
      BY <1>1, <1>2, <2>1, <3>2 DEF AnswerComesFirst
    <3>3. CASE q # p /\ hears(q)
      <4>1. critical'[q] = Append(critical[q], news) /\ critical[q] \in Seq(UserInfo)
        BY <1>1, <1>3, <3>3 DEF news
      <4>2. ToldTo(q) # {}
        BY <3>3 DEF IsMaster, RegisteredAreAnswered
      <4>3. critical[q] # <<>> \/ received[q] # {}
        BY <4>2 DEF ToldTo
      <4>4. CASE n \in DOMAIN critical[q]
        BY <1>2, <4>1, <4>4 DEF AnswerComesFirst
      <4>5. CASE n = Len(critical[q]) + 1
        BY <1>2, <1>4, <4>1, <4>3, <4>5
      <4>6. n \in DOMAIN critical[q] \/ n = Len(critical[q]) + 1
        BY <2>1, <4>1
      <4>7. QED  BY <4>4, <4>5, <4>6
    <3>4. QED  BY <3>1, <3>2, <3>3
  <2>2. QED  BY <2>1 DEF AnswerComesFirst
<1>14. MasterKnowsEverySlave'
  <2>1. ASSUME NEW q \in Peer, IsMaster(q)', peerState'[q] = "CONNECTED",
               NEW j \in Slots,
               ACTIVE_PLAYERS'[j].is_exists, ~ACTIVE_PLAYERS'[j].is_master
        PROVE  \E msg \in ToldTo(q)' : msg.type = "SLAVE_CONNECTED" /\ msg.id = j
    <3>1. CASE q = p
      <4>1. m
        BY <1>6, <2>1, <3>1
      <4>2. j = i
        BY <1>1, <1>5, <2>1, <4>1
      <4>3. ACTIVE_PLAYERS'[i].is_master
        BY <1>1, <4>1
      <4>4. QED  BY <2>1, <4>2, <4>3
    <3>2. CASE q # p /\ j = i
      <4>1. hears(q)
        BY <1>1, <1>2, <1>6, <2>1, <3>2
      <4>2. QED  BY <1>4, <1>7, <3>2, <4>1
    <3>3. CASE q # p /\ j # i
      <4>1. ACTIVE_PLAYERS[j].is_exists /\ ~ACTIVE_PLAYERS[j].is_master
        BY <1>5, <2>1, <3>3
      <4>2. \E msg \in ToldTo(q) : msg.type = "SLAVE_CONNECTED" /\ msg.id = j
        BY <1>2, <1>6, <2>1, <3>3, <4>1 DEF MasterKnowsEverySlave
      <4>3. QED  BY <1>7, <3>3, <4>2
    <3>4. QED  BY <3>1, <3>2, <3>3
  <2>2. QED  BY <2>1 DEF MasterKnowsEverySlave
<1>15. InputsReachOnlyTheMaster'
  <2>1. ~IsMaster(p)
    BY <1>1 DEF IsMaster
  <2>2. QED  BY <1>2, <1>6, <2>1 DEF InputsReachOnlyTheMaster
<1>16. ConnectionsAreNumbered'
  BY <1>2 DEF ConnectionsAreNumbered
<1>17. QED
  BY <1>8, <1>9, <1>10, <1>11, <1>12, <1>13, <1>14, <1>15, <1>16

-----------------------------------------------------------------------------
(* The theorems.                                                            *)

\* The invariant holds at the start.
LEMMA InitEstablishesInv == Init => ServerInv
<1> SUFFICES ASSUME Init PROVE ServerInv
  OBVIOUS
<1>1. TypeOK
  BY ServerAssumption DEF Init, TypeOK, EmptySlot, Player
<1>2. \A i \in Slots : ~ACTIVE_PLAYERS[i].is_exists
  BY DEF Init, EmptySlot
<1>3. \A p \in Peer : ToldTo(p) = {}
  BY DEF Init, ToldTo
<1>4. AnswerComesFirst /\ InputsReachOnlyTheMaster /\ ConnectionsAreNumbered
  BY DEF Init, AnswerComesFirst, InputsReachOnlyTheMaster, ConnectionsAreNumbered
<1>5. OneMasterAtSlotZero /\ SlotsHoldDistinctLivePeers /\ MasterKnowsEverySlave
  BY <1>2 DEF OneMasterAtSlotZero, SlotsHoldDistinctLivePeers, MasterKnowsEverySlave, SlotOf
<1>6. UserInfoMatchesTable /\ RegisteredAreAnswered
  BY <1>2, <1>3 DEF UserInfoMatchesTable, RegisteredAreAnswered, SlotOf
<1>7. QED  BY <1>1, <1>4, <1>5, <1>6 DEF ServerInv

\* Every step keeps the invariant.
LEMMA NextKeepsInv == ServerInv /\ [Next]_vars => ServerInv'
<1> SUFFICES ASSUME ServerInv, [Next]_vars PROVE ServerInv'
  OBVIOUS
<1>1. CASE UNCHANGED vars
  <2>1. TypeOK'
    BY <1>1 DEF ServerInv, TypeOK, vars, links, arrivals, streams
  <2>2. RegistrationInv' /\ InputsReachOnlyTheMaster'
    BY <1>1, InvParts, RegistrationKept, InputsKept DEF vars, streams
  <2>3. QED  BY <2>1, <2>2 DEF ServerInv, RegistrationInv
<1>2. ASSUME NEW p \in Peer, RegisterPlayer(p) PROVE ServerInv'
  BY <1>2, RegisterPlayerKeepsInv
<1>3. ASSUME NEW p \in Peer, IgnoreRequest(p) PROVE ServerInv'
  BY <1>3, IgnoreRequestKeepsInv
<1>4. ASSUME NEW p \in Peer, BroadcastState(p) PROVE ServerInv'
  BY <1>4, BroadcastStateKeepsInv
<1>5. ASSUME NEW p \in Peer, RelayInput(p) PROVE ServerInv'
  BY <1>5, RelayInputKeepsInv
<1>6. ASSUME NEW p \in Peer, HandleDisconnect(p) PROVE ServerInv'
  BY <1>6, HandleDisconnectKeepsInv
<1>7. ASSUME NEW p \in Peer, Connect(p) PROVE ServerInv'
  BY <1>7, ConnectKeepsInv
<1>8. ASSUME NEW p \in Peer, LinkEnds(p) PROVE ServerInv'
  BY <1>8, LinkEndsKeepsInv
<1>9. ASSUME NEW p \in Peer, RequestArrives(p) \/ StateArrives(p) \/ InputArrives(p)
      PROVE  ServerInv'
  BY <1>9, ArrivalsKeepInv
<1>10. ASSUME NEW p \in Peer, ClientReceivesUserInfo(p) PROVE ServerInv'
  BY <1>10, ClientReceivesUserInfoKeepsInv
<1>11. ASSUME NEW p \in Peer, ClientReceivesStream(p) PROVE ServerInv'
  BY <1>11, ClientReceivesStreamKeepsInv
<1>12. QED
  BY <1>1, <1>2, <1>3, <1>4, <1>5, <1>6, <1>7, <1>8, <1>9, <1>10, <1>11
     DEF Next, ServerStep, ClientStep, HandleRequest

\* The inductive invariant of the server holds of every behaviour.
THEOREM ServerInvariance == Spec => []ServerInv
BY InitEstablishesInv, NextKeepsInv, PTL DEF Spec

\* Every variable keeps its type.
THEOREM TypeCorrectness == Spec => []TypeOK
<1>1. ServerInv => TypeOK
  BY DEF ServerInv
<1>2. QED  BY <1>1, ServerInvariance, PTL

\* However players come and go, there is never a second Master, and the Master
\* is the player of slot 0 (handle_player_register, server.c:213).
THEOREM MasterUniqueness == Spec => []OneMasterAtSlotZero
<1>1. ServerInv => OneMasterAtSlotZero
  BY DEF ServerInv
<1>2. QED  BY <1>1, ServerInvariance, PTL

\* No peer holds two slots, and no slot outlives the connection it was given to.
THEOREM SlotsAreSound == Spec => []SlotsHoldDistinctLivePeers
<1>1. ServerInv => SlotsHoldDistinctLivePeers
  BY DEF ServerInv
<1>2. QED  BY <1>1, ServerInvariance, PTL

\* What a client has been told of itself and of others agrees with the table.
THEOREM ClientsAreToldTheTruth == Spec => []UserInfoMatchesTable
<1>1. ServerInv => UserInfoMatchesTable
  BY DEF ServerInv
<1>2. QED  BY <1>1, ServerInvariance, PTL

\* A client hears its own id and role before it hears of any Slave.
THEOREM AnswerPrecedesNews == Spec => []AnswerComesFirst
<1>1. ServerInv => AnswerComesFirst
  BY DEF ServerInv
<1>2. QED  BY <1>1, ServerInvariance, PTL

\* A Master with a working link is told of every Slave of the table.
THEOREM MasterIsInformed == Spec => []MasterKnowsEverySlave
<1>1. ServerInv => MasterKnowsEverySlave
  BY DEF ServerInv
<1>2. QED  BY <1>1, ServerInvariance, PTL

\* Inputs are relayed to the Master of the table and to nobody else.
THEOREM InputsGoToTheMaster == Spec => []InputsReachOnlyTheMaster
<1>1. ServerInv => InputsReachOnlyTheMaster
  BY DEF ServerInv
<1>2. QED  BY <1>1, ServerInvariance, PTL

-----------------------------------------------------------------------------
(* The server implements the session.                                       *)

Registered(q) == \E i \in Slots : SlotOf(q, i)

\* The refinement mapping in the terms of the invariant.
LEMMA MembersAndMaster ==
  ServerInv =>
    /\ \A c : c \in SessionMembers <=> \E q \in Peer : Registered(q) /\ c = connectID[q]
    /\ \A q \in Peer : IsMaster(q) => SessionMaster = connectID[q]
    /\ (\A q \in Peer : ~IsMaster(q)) => SessionMaster = 0
    /\ \A q \in Peer : IsMaster(q) => Registered(q)
    /\ \A q, r \in Peer : Registered(q) /\ connectID[q] = connectID[r] => q = r
    /\ \A q \in Peer : Registered(q) => connectID[q] \in 1 .. MaxConnects
<1> SUFFICES ASSUME ServerInv
             PROVE  /\ \A c : c \in SessionMembers <=>
                              \E q \in Peer : Registered(q) /\ c = connectID[q]
                    /\ \A q \in Peer : IsMaster(q) => SessionMaster = connectID[q]
                    /\ (\A q \in Peer : ~IsMaster(q)) => SessionMaster = 0
                    /\ \A q \in Peer : IsMaster(q) => Registered(q)
                    /\ \A q, r \in Peer : Registered(q) /\ connectID[q] = connectID[r] => q = r
                    /\ \A q \in Peer : Registered(q) => connectID[q] \in 1 .. MaxConnects
  OBVIOUS
<1> USE DEF ServerInv
<1>1. \A i \in Slots : i \in Occupied(ACTIVE_PLAYERS) <=> ACTIVE_PLAYERS[i].is_exists
  BY DEF Occupied, ExistsAndConnected, RegisteredAreAnswered
<1>2. \A i \in Slots : ACTIVE_PLAYERS[i].is_exists => ACTIVE_PLAYERS[i].peer \in Peer
  BY DEF SlotsHoldDistinctLivePeers
<1>3. \A c : c \in SessionMembers <=> \E q \in Peer : Registered(q) /\ c = connectID[q]
  <2>1. \A c : c \in SessionMembers <=>
               \E i \in Slots : ACTIVE_PLAYERS[i].is_exists /\ c = connectID[ACTIVE_PLAYERS[i].peer]
    BY <1>1 DEF SessionMembers, ConnectionOf, Occupied
  <2>2. QED  BY <1>2, <2>1 DEF Registered, SlotOf
<1>4. \A i \in Slots : i \in MasterSlots(ACTIVE_PLAYERS) <=>
                         ACTIVE_PLAYERS[i].is_exists /\ ACTIVE_PLAYERS[i].is_master
  BY <1>1 DEF MasterSlots, Occupied
<1>5. ASSUME NEW q \in Peer, IsMaster(q)
      PROVE  SessionMaster = connectID[q]
  <2>1. PICK k \in Slots : SlotOf(q, k) /\ ACTIVE_PLAYERS[k].is_master
    BY <1>5 DEF IsMaster
  <2>2. k \in MasterSlots(ACTIVE_PLAYERS)
    BY <1>4, <2>1 DEF SlotOf
  <2>3. First(MasterSlots(ACTIVE_PLAYERS)) \in MasterSlots(ACTIVE_PLAYERS)
    BY <2>2, MasterSlotIsFound
  <2>4. First(MasterSlots(ACTIVE_PLAYERS)) \in Slots
    BY <2>3 DEF MasterSlots, Occupied
  <2>5. First(MasterSlots(ACTIVE_PLAYERS)) = k
    BY <1>4, <2>2, <2>3, <2>4 DEF OneMasterAtSlotZero
  <2>6. QED  BY <2>1, <2>2, <2>5 DEF SessionMaster, ConnectionOf, SlotOf
<1>6. (\A q \in Peer : ~IsMaster(q)) => SessionMaster = 0
  <2>1. SUFFICES ASSUME \A q \in Peer : ~IsMaster(q) PROVE MasterSlots(ACTIVE_PLAYERS) = {}
    BY DEF SessionMaster
  <2>2. \A i \in Slots : i \notin MasterSlots(ACTIVE_PLAYERS)
    BY <1>2, <1>4, <2>1 DEF IsMaster, SlotOf
  <2>3. QED  BY <2>2 DEF MasterSlots, Occupied
<1>7. \A q \in Peer : Registered(q) => connectID[q] \in 1 .. MaxConnects
  <2>1. \A q \in Peer : Registered(q) => peerState[q] # "DISCONNECTED"
    BY DEF Registered, SlotOf, SlotsHoldDistinctLivePeers
  <2>2. QED  BY <2>1, ServerAssumption DEF ConnectionsAreNumbered, TypeOK
<1>8. \A q, r \in Peer : Registered(q) /\ connectID[q] = connectID[r] => q = r
  BY <1>7 DEF ConnectionsAreNumbered
<1>9. \A q \in Peer : IsMaster(q) => Registered(q)
  BY DEF IsMaster, Registered
<1>10. QED  BY <1>3, <1>5, <1>6, <1>7, <1>8, <1>9

\* A step that keeps the table and the connections of registered peers is a
\* stutter of the session.
LEMMA SessionStutters ==
  ASSUME ServerInv, UNCHANGED ACTIVE_PLAYERS,
         \A q \in Peer : Registered(q) => connectID'[q] = connectID[q]
  PROVE  UNCHANGED <<SessionMembers, SessionMaster>>
<1>1. \A i \in Slots : i \in Occupied(ACTIVE_PLAYERS) =>
        ConnectionOf(i)' = ConnectionOf(i)
  BY DEF Occupied, ExistsAndConnected, ConnectionOf, Registered, SlotOf, ServerInv,
         SlotsHoldDistinctLivePeers
<1>2. SessionMembers' = SessionMembers
  BY <1>1 DEF SessionMembers, Occupied
<1>3. MasterSlots(ACTIVE_PLAYERS) # {} =>
        First(MasterSlots(ACTIVE_PLAYERS)) \in Slots \cap Occupied(ACTIVE_PLAYERS)
  BY MasterSlotIsFound DEF MasterSlots, Occupied
<1>4. SessionMaster' = SessionMaster
  BY <1>1, <1>3 DEF SessionMaster
<1>5. QED  BY <1>2, <1>4

\* While a slot is free, fewer players than slots are in the session.
LEMMA RoomInSession ==
  ASSUME ServerInv, FreeSlots(ACTIVE_PLAYERS) # {}
  PROVE  Cardinality(SessionMembers) < ACTIVE_PLAYERS_SIZE
<1> DEFINE O == Occupied(ACTIVE_PLAYERS)
           f == [i \in O |-> ConnectionOf(i)]
<1>1. IsFiniteSet(Slots) /\ Cardinality(Slots) = ACTIVE_PLAYERS_SIZE
  BY ServerAssumption, FS_Interval DEF Slots
<1>2. O \in SUBSET Slots /\ O # Slots
  BY DEF FreeSlots, Occupied
<1>3. IsFiniteSet(O) /\ Cardinality(O) <= ACTIVE_PLAYERS_SIZE
      /\ Cardinality(O) # ACTIVE_PLAYERS_SIZE
  BY <1>1, <1>2, FS_Subset
<1>4. Cardinality(O) \in Nat
  BY <1>3, FS_CardinalityType
<1>5. f \in Surjection(O, SessionMembers)
  BY DEF Surjection, SessionMembers
<1>6. IsFiniteSet(SessionMembers) /\ Cardinality(SessionMembers) <= Cardinality(O)
  BY <1>3, <1>5, FS_Surjection
<1>7. Cardinality(SessionMembers) \in Nat
  BY <1>6, FS_CardinalityType
<1>8. QED  BY <1>3, <1>4, <1>6, <1>7, ServerAssumption

\* A registration is a Join of the session.
LEMMA RegisterJoins ==
  ASSUME ServerInv, ServerInv', NEW p \in Peer, RegisterPlayer(p)
  PROVE  Session!Join(connectID[p])
<1>1. PICK i \in Slots, m \in BOOLEAN : Registration(p, i, m)
  BY RegisterEffect
<1> USE DEF Registration
<1>2. UNCHANGED connectID
  BY DEF RegisterPlayer, links
<1>3. /\ \A q \in Peer : Registered(q)' <=> Registered(q) \/ q = p
      /\ \A q \in Peer : IsMaster(q)' <=> IsMaster(q) \/ (q = p /\ m)
      /\ ~Registered(p)
  <2>1. /\ \A j \in Slots : SlotOf(p, j)' <=> j = i
        /\ \A q \in Peer \ {p} : \A j \in Slots : SlotOf(q, j)' <=> SlotOf(q, j)
    BY <1>1 DEF SlotOf
  <2>2. Registered(p)' /\ ~Registered(p) /\ ~IsMaster(p) /\ (IsMaster(p)' <=> m)
    BY <1>1, <2>1 DEF Registered, IsMaster
  <2>3. ASSUME NEW q \in Peer \ {p}
        PROVE  (Registered(q)' <=> Registered(q)) /\ (IsMaster(q)' <=> IsMaster(q))
    <3>1. \A j \in Slots : SlotOf(q, j) => ACTIVE_PLAYERS'[j] = ACTIVE_PLAYERS[j]
      BY <1>1 DEF SlotOf
    <3>2. QED  BY <2>1, <3>1 DEF Registered, IsMaster
  <2>4. QED  BY <2>2, <2>3
<1>4. /\ \A c : c \in SessionMembers <=> \E q \in Peer : Registered(q) /\ c = connectID[q]
      /\ \A q \in Peer : IsMaster(q) => SessionMaster = connectID[q]
      /\ (\A q \in Peer : ~IsMaster(q)) => SessionMaster = 0
      /\ \A q, r \in Peer : Registered(q) /\ connectID[q] = connectID[r] => q = r
  BY MembersAndMaster
<1>5. (ServerInv =>
    /\ \A c : c \in SessionMembers <=> \E q \in Peer : Registered(q) /\ c = connectID[q]
    /\ \A q \in Peer : IsMaster(q) => SessionMaster = connectID[q]
    /\ (\A q \in Peer : ~IsMaster(q)) => SessionMaster = 0
    /\ \A q \in Peer : IsMaster(q) => Registered(q)
    /\ \A q, r \in Peer : Registered(q) /\ connectID[q] = connectID[r] => q = r
    /\ \A q \in Peer : Registered(q) => connectID[q] \in 1 .. MaxConnects)'
  BY MembersAndMaster, PTL
<1>6. /\ \A c : c \in SessionMembers' <=> \E q \in Peer : Registered(q)' /\ c = connectID[q]
      /\ \A q \in Peer : IsMaster(q)' => SessionMaster' = connectID[q]
      /\ (\A q \in Peer : ~IsMaster(q)') => SessionMaster' = 0
  BY <1>2, <1>5
<1>7. connectID[p] \notin SessionMembers
  BY <1>3, <1>4
<1>8. Cardinality(SessionMembers) < ACTIVE_PLAYERS_SIZE
  BY RoomInSession DEF RegisterPlayer
<1>9. SessionMembers' = SessionMembers \union {connectID[p]}
  BY <1>3, <1>4, <1>6
<1>10. m <=> SessionMembers = {}
  <2>1. \A j \in Slots : ACTIVE_PLAYERS[j].is_exists => \E q \in Peer : SlotOf(q, j)
    BY DEF ServerInv, SlotsHoldDistinctLivePeers, SlotOf
  <2>2. m <=> \A q \in Peer : ~Registered(q)
    BY <1>1, <2>1 DEF Registered, SlotOf
  <2>3. QED  BY <1>4, <2>2
<1>11. SessionMaster' = IF SessionMembers = {} THEN connectID[p] ELSE SessionMaster
  <2>1. CASE m
    BY <1>3, <1>6, <1>10, <2>1
  <2>2. CASE ~m
    BY <1>3, <1>4, <1>6, <1>10, <2>2
  <2>3. QED  BY <2>1, <2>2
<1>12. Session!Cardinality(SessionMembers) = Cardinality(SessionMembers)
  BY DEF Session!Cardinality, Cardinality
<1>13. QED  BY <1>7, <1>8, <1>9, <1>11, <1>12 DEF Session!Join

\* A DISCONNECT event is a Leave of the session, or nothing to it.
LEMMA DisconnectLeaves ==
  ASSUME ServerInv, ServerInv', NEW p \in Peer, HandleDisconnect(p)
  PROVE  IF Registered(p) THEN Session!Leave(connectID[p])
         ELSE UNCHANGED <<SessionMembers, SessionMaster>>
<1>1. \A i \in Slots :
        ACTIVE_PLAYERS'[i] =
          IF SlotOf(p, i)
          THEN [ACTIVE_PLAYERS[i] EXCEPT !.peer = NULL, !.is_exists = FALSE]
          ELSE ACTIVE_PLAYERS[i]
  BY RemoveFreesOneSlot DEF HandleDisconnect
<1>2. ACTIVE_PLAYERS \in [Slots -> Player] /\ connectID \in [Peer -> 0 .. MaxConnects]
  BY DEF ServerInv, TypeOK
<1>3. \A i \in Slots :
        /\ ACTIVE_PLAYERS'[i].is_exists <=> ACTIVE_PLAYERS[i].is_exists /\ ~SlotOf(p, i)
        /\ ACTIVE_PLAYERS'[i].is_exists => ACTIVE_PLAYERS'[i] = ACTIVE_PLAYERS[i]
  <2>1. ASSUME NEW i \in Slots, SlotOf(p, i)
        PROVE  ~ACTIVE_PLAYERS'[i].is_exists
    <3>1. ACTIVE_PLAYERS[i] \in Player
      BY <1>2
    <3>2. QED  BY <1>1, <2>1, <3>1 DEF Player
  <2>2. QED  BY <1>1, <2>1 DEF SlotOf
<1>4. /\ \A q \in Peer : Registered(q)' <=> Registered(q) /\ q # p
      /\ \A q \in Peer : IsMaster(q)' <=> IsMaster(q) /\ q # p
  BY <1>3 DEF Registered, IsMaster, SlotOf
<1>5. \A q \in Peer : connectID'[q] = IF q = p THEN 0 ELSE connectID[q]
  BY <1>2 DEF HandleDisconnect
<1>6. /\ \A c : c \in SessionMembers <=> \E q \in Peer : Registered(q) /\ c = connectID[q]
      /\ \A q \in Peer : IsMaster(q) => SessionMaster = connectID[q]
      /\ (\A q \in Peer : ~IsMaster(q)) => SessionMaster = 0
      /\ \A q \in Peer : IsMaster(q) => Registered(q)
      /\ \A q, r \in Peer : Registered(q) /\ connectID[q] = connectID[r] => q = r
      /\ \A q \in Peer : Registered(q) => connectID[q] \in 1 .. MaxConnects
  BY MembersAndMaster
<1>7. (ServerInv =>
    /\ \A c : c \in SessionMembers <=> \E q \in Peer : Registered(q) /\ c = connectID[q]
    /\ \A q \in Peer : IsMaster(q) => SessionMaster = connectID[q]
    /\ (\A q \in Peer : ~IsMaster(q)) => SessionMaster = 0
    /\ \A q \in Peer : IsMaster(q) => Registered(q)
    /\ \A q, r \in Peer : Registered(q) /\ connectID[q] = connectID[r] => q = r
    /\ \A q \in Peer : Registered(q) => connectID[q] \in 1 .. MaxConnects)'
  BY MembersAndMaster, PTL
<1>8. /\ \A c : c \in SessionMembers' <=> \E q \in Peer : Registered(q)' /\ c = connectID'[q]
      /\ \A q \in Peer : IsMaster(q)' => SessionMaster' = connectID'[q]
      /\ (\A q \in Peer : ~IsMaster(q)') => SessionMaster' = 0
  BY <1>7
<1>9. CASE ~Registered(p)
  <2>1. SessionMembers' = SessionMembers
    BY <1>4, <1>5, <1>6, <1>8, <1>9
  <2>2. \A q \in Peer : IsMaster(q)' <=> IsMaster(q)
    BY <1>4, <1>6, <1>9
  <2>3. SessionMaster' = SessionMaster
    BY <1>5, <1>4, <1>6, <1>8, <2>2
  <2>4. QED  BY <1>9, <2>1, <2>3
<1>10. CASE Registered(p)
  <2>1. connectID[p] \in SessionMembers
    BY <1>6, <1>10
  <2>2. SessionMembers' = SessionMembers \ {connectID[p]}
    BY <1>4, <1>5, <1>6, <1>8
  <2>3. \A q \in Peer : IsMaster(q) /\ IsMaster(p) => q = p
    BY DEF ServerInv, OneMasterAtSlotZero, IsMaster, SlotOf
  <2>4. CASE IsMaster(p)
    <3>1. SessionMaster = connectID[p] /\ SessionMaster' = 0
      BY <1>4, <1>6, <1>8, <2>3, <2>4
    <3>2. QED  BY <1>10, <2>1, <2>2, <3>1 DEF Session!Leave
  <2>5. CASE ~IsMaster(p) /\ \E q \in Peer : IsMaster(q)
    <3>1. PICK q \in Peer : IsMaster(q)
      BY <2>5
    <3>2. q # p /\ IsMaster(q)' /\ SessionMaster = connectID[q] /\ SessionMaster' = connectID[q]
      BY <1>4, <1>5, <1>6, <1>8, <2>5, <3>1
    <3>3. connectID[q] # connectID[p]
      BY <1>6, <1>10, <3>2
    <3>4. SessionMaster' = IF SessionMaster = connectID[p] THEN 0 ELSE SessionMaster
      BY <3>2, <3>3
    <3>5. QED  BY <1>10, <2>1, <2>2, <3>4 DEF Session!Leave
  <2>6. CASE \A q \in Peer : ~IsMaster(q)
    <3>1. SessionMaster = 0 /\ SessionMaster' = 0
      BY <1>4, <1>6, <1>8, <2>6
    <3>2. QED  BY <1>10, <2>1, <2>2, <3>1 DEF Session!Leave
  <2>7. QED  BY <2>4, <2>5, <2>6
<1>11. QED  BY <1>9, <1>10

\* The slots, peers and messages of server.c implement the session: a client
\* that registers joins it, and only a Master that leaves ends its reign.
THEOREM ServerImplementsSession == Spec => ImplementsSession
<1>1. Init => Session!Init
  <2>1. SUFFICES ASSUME Init PROVE Session!Init
    OBVIOUS
  <2>2. Occupied(ACTIVE_PLAYERS) = {}
    BY <2>1 DEF Init, EmptySlot, Occupied, ExistsAndConnected
  <2>3. QED  BY <2>2 DEF Session!Init, SessionMembers, SessionMaster, MasterSlots
<1>2. ServerInv /\ ServerInv' /\ [Next]_vars => [Session!Next]_(Session!sessionVars)
  <2> SUFFICES ASSUME ServerInv, ServerInv', [Next]_vars
               PROVE  Session!Next \/ UNCHANGED <<SessionMembers, SessionMaster>>
    BY DEF Session!sessionVars
  <2>1. ASSUME NEW p \in Peer, RegisterPlayer(p)
        PROVE  Session!Next
    <3>1. Session!Join(connectID[p])
      BY <2>1, RegisterJoins
    <3>2. connectID[p] \in 1 .. MaxConnects
      BY <2>1, ServerAssumption DEF ServerInv, TypeOK, ConnectionsAreNumbered,
         RegisterPlayer, CanTakeRequest
    <3>3. QED  BY <3>1, <3>2 DEF Session!Next
  <2>2. ASSUME NEW p \in Peer, HandleDisconnect(p)
        PROVE  Session!Next \/ UNCHANGED <<SessionMembers, SessionMaster>>
    <3>1. Registered(p) => connectID[p] \in 1 .. MaxConnects
      BY MembersAndMaster
    <3>2. QED  BY <2>2, <3>1, DisconnectLeaves DEF Session!Next
  <2>3. ASSUME NEW p \in Peer, Connect(p)
        PROVE  UNCHANGED <<SessionMembers, SessionMaster>>
    <3>1. ~Registered(p)
      BY <2>3 DEF Connect, Registered, SlotOf, ServerInv, SlotsHoldDistinctLivePeers
    <3>2. \A q \in Peer : Registered(q) => connectID'[q] = connectID[q]
      BY <2>3, <3>1 DEF Connect, ServerInv, TypeOK
    <3>3. QED  BY <2>3, <3>2, SessionStutters DEF Connect
  <2>4. ASSUME UNCHANGED <<ACTIVE_PLAYERS, connectID>>
        PROVE  UNCHANGED <<SessionMembers, SessionMaster>>
    BY <2>4, SessionStutters
  <2>5. ASSUME NEW p \in Peer,
               \/ IgnoreRequest(p) \/ BroadcastState(p) \/ RelayInput(p) \/ LinkEnds(p)
               \/ RequestArrives(p) \/ StateArrives(p) \/ InputArrives(p)
               \/ ClientReceivesUserInfo(p) \/ ClientReceivesStream(p)
        PROVE  UNCHANGED <<ACTIVE_PLAYERS, connectID>>
    BY <2>5 DEF IgnoreRequest, BroadcastState, RelayInput, LinkEnds, RequestArrives,
       StateArrives, InputArrives, ClientReceivesUserInfo, ClientReceivesStream, links
  <2>6. CASE UNCHANGED vars
    BY <2>4, <2>6 DEF vars, links
  <2>7. QED
    BY <2>1, <2>2, <2>3, <2>4, <2>5, <2>6 DEF Next, ServerStep, ClientStep, HandleRequest
<1>3. QED
  BY <1>1, <1>2, ServerInvariance, PTL DEF Spec, ImplementsSession, Session!Spec

-----------------------------------------------------------------------------
(* The server keeps what a link promises.                                   *)

\* What the clients' links need besides ServerInv: no request outlives its
\* link, and who has received anything has received its answer.
LinkInv ==
  /\ \A p \in Peer : peerState[p] # "CONNECTED" => requests[p] = 0
  /\ \A p \in Peer : received[p] # {} => \E m \in received[p] : m.type = "RES_USER_INFO"

LEMMA LinkInvKept == ServerInv /\ LinkInv /\ [Next]_vars => LinkInv'
<1> SUFFICES ASSUME ServerInv, LinkInv, [Next]_vars PROVE LinkInv'
  OBVIOUS
<1>1. /\ peerState \in [Peer -> {"DISCONNECTED", "CONNECTED", "ZOMBIE"}]
      /\ requests \in [Peer -> 0 .. MaxRequests]
      /\ received \in [Peer -> SUBSET UserInfo] /\ critical \in [Peer -> Seq(UserInfo)]
  BY DEF ServerInv, TypeOK
<1>2. ASSUME NEW q \in Peer, RegisterPlayer(q) \/ IgnoreRequest(q) \/ RequestArrives(q)
      PROVE  LinkInv'
  BY <1>1, <1>2
     DEF RegisterPlayer, IgnoreRequest, RequestArrives, CanTakeRequest, TakeRequest, links, LinkInv
<1>3. ASSUME NEW q \in Peer, LinkEnds(q) \/ Connect(q) \/ HandleDisconnect(q)
      PROVE  LinkInv'
  BY <1>1, <1>3 DEF LinkEnds, Connect, HandleDisconnect, arrivals, LinkInv
<1>4. ASSUME NEW q \in Peer, ClientReceivesUserInfo(q)
      PROVE  LinkInv'
  <2>1. /\ critical[q] # <<>> /\ 1 \in DOMAIN critical[q] /\ Head(critical[q]) = critical[q][1]
        /\ received' = [received EXCEPT ![q] = @ \union {Head(critical[q])}]
    BY <1>1, <1>4 DEF ClientReceivesUserInfo
  <2>2. received[q] = {} => Head(critical[q]).type = "RES_USER_INFO"
    BY <2>1 DEF ServerInv, AnswerComesFirst
  <2>3. UNCHANGED <<peerState, requests>>
    BY <1>4 DEF ClientReceivesUserInfo, links, arrivals
  <2>4. QED  BY <1>1, <2>1, <2>2, <2>3 DEF LinkInv
<1>5. ASSUME UNCHANGED <<peerState, requests, received>>
      PROVE  LinkInv'
  BY <1>5 DEF LinkInv
<1>6. ASSUME NEW q \in Peer,
             \/ BroadcastState(q) \/ RelayInput(q) \/ StateArrives(q) \/ InputArrives(q)
             \/ ClientReceivesStream(q)
      PROVE  UNCHANGED <<peerState, requests, received>>
  BY <1>6 DEF BroadcastState, RelayInput, StateArrives, InputArrives, ClientReceivesStream,
     links, arrivals
<1>7. CASE UNCHANGED vars
  BY <1>5, <1>7 DEF vars, links, arrivals
<1>8. QED
  BY <1>2, <1>3, <1>4, <1>5, <1>6, <1>7 DEF Next, ServerStep, ClientStep, HandleRequest

LEMMA LinkInvariance == Spec => []LinkInv
<1>1. Init => LinkInv
  BY DEF Init, LinkInv
<1>2. QED  BY <1>1, LinkInvKept, ServerInvariance, PTL DEF Spec

\* The refinement mapping in the terms of the invariants: the role given is that
\* of the one slot, and the one heard is the one given.
LEMMA RoleOfSlot ==
  ASSUME ServerInv, NEW p \in Peer
  PROVE  /\ RoleGiven(p) # {} <=> \E i \in Slots : SlotOf(p, i)
         /\ \A i \in Slots : SlotOf(p, i) => RoleGiven(p) = {ACTIVE_PLAYERS[i].is_master}
         /\ IsMaster(p) => RoleGiven(p) = {TRUE}
<1>1. \A i \in Slots : ACTIVE_PLAYERS[i].is_master \in BOOLEAN
  BY DEF ServerInv, TypeOK, Player
<1>2. \A i, j \in Slots : SlotOf(p, i) /\ SlotOf(p, j) => i = j
  BY DEF ServerInv, SlotsHoldDistinctLivePeers
<1>3. \A i \in Slots : SlotOf(p, i) => RoleGiven(p) = {ACTIVE_PLAYERS[i].is_master}
  BY <1>1, <1>2 DEF RoleGiven
<1>4. (\A i \in Slots : ~SlotOf(p, i)) => RoleGiven(p) = {}
  BY DEF RoleGiven
<1>5. QED  BY <1>3, <1>4 DEF IsMaster

LEMMA HeardWhatWasGiven ==
  ASSUME ServerInv, LinkInv, NEW p \in Peer
  PROVE  /\ received[p] # {} => RoleHeard(p) = RoleGiven(p)
         /\ received[p] = {} => RoleHeard(p) = {} /\ SlavesHeardOf(p) = {}
<1>1. ASSUME received[p] # {} PROVE RoleHeard(p) = RoleGiven(p)
  <2>1. \A m \in received[p] : m.type = "RES_USER_INFO" => RoleGiven(p) = {m.is_master}
    <3>1. \A m \in received[p] : m \in UserInfo /\ m \in ToldTo(p)
      BY DEF ServerInv, TypeOK, ToldTo
    <3>2. \A m \in received[p] : m.type = "RES_USER_INFO" =>
            m.id \in Slots /\ SlotOf(p, m.id) /\ m.is_master = ACTIVE_PLAYERS[m.id].is_master
      BY <3>1 DEF ServerInv, UserInfoMatchesTable, UserInfo
    <3>3. \A i \in Slots : SlotOf(p, i) => RoleGiven(p) = {ACTIVE_PLAYERS[i].is_master}
      BY RoleOfSlot
    <3>4. TAKE m \in received[p]
    <3>5. HAVE m.type = "RES_USER_INFO"
    <3>6. m.id \in Slots /\ SlotOf(p, m.id) /\ m.is_master = ACTIVE_PLAYERS[m.id].is_master
      BY <3>2, <3>5
    <3> HIDE DEF SlotOf
    <3>7. RoleGiven(p) = {ACTIVE_PLAYERS[m.id].is_master}
      BY <3>3, <3>6
    <3>8. QED  BY <3>6, <3>7
  <2>2. PICK m \in received[p] : m.type = "RES_USER_INFO"
    BY <1>1 DEF LinkInv
  <2>3. QED  BY <2>1, <2>2 DEF RoleHeard
<1>2. QED  BY <1>1 DEF RoleHeard, SlavesHeardOf

\* A step that leaves a client's slot and its link alone is a stutter of the link.
LEMMA RoleStays ==
  ASSUME NEW p \in Peer,
         \A i \in Slots : /\ SlotOf(p, i)' <=> SlotOf(p, i)
                          /\ SlotOf(p, i) => ACTIVE_PLAYERS'[i] = ACTIVE_PLAYERS[i]
  PROVE  UNCHANGED RoleGiven(p)
BY DEF RoleGiven

LEMMA LinkStutters ==
  ASSUME NEW p \in Peer, UNCHANGED RoleGiven(p),
         UNCHANGED <<peerState[p], requests[p], received[p], inputsOut[p]>>
  PROVE  LinkStep(p)
BY DEF LinkStep, Link!linkVars, RoleHeard, SlavesHeardOf

\* A registration gives its client a role, once, and no other client one.
LEMMA RegisterGives ==
  ASSUME ServerInv, NEW q \in Peer, RegisterPlayer(q), NEW p \in Peer
  PROVE  LinkStep(p)
<1>1. PICK i \in Slots, m \in BOOLEAN : Registration(q, i, m)
  BY RegisterEffect
<1>2. /\ requests[q] > 0 /\ requests' = [requests EXCEPT ![q] = @ - 1]
      /\ UNCHANGED <<peerState, received, inputsOut>>
  BY DEF RegisterPlayer, CanTakeRequest, TakeRequest, links, streams
<1>3. requests \in [Peer -> 0 .. MaxRequests]
  BY DEF ServerInv, TypeOK
<1>4. CASE p = q
  <2>1. /\ \A j \in Slots : ~SlotOf(p, j)
        /\ \A j \in Slots : SlotOf(p, j)' <=> j = i
        /\ ACTIVE_PLAYERS'[i].is_master = m
    BY <1>1, <1>4 DEF Registration, SlotOf
  <2>2. RoleGiven(p) = {} /\ RoleGiven(p)' = {m}
    BY <2>1 DEF RoleGiven
  <2>3. RoleHeard(p)' = RoleHeard(p) /\ SlavesHeardOf(p)' = SlavesHeardOf(p)
    BY <1>2 DEF RoleHeard, SlavesHeardOf
  <2>4. Link(p)!Give(m)
    BY <1>2, <1>3, <1>4, <2>2, <2>3 DEF Link!Give
  <2>5. QED  BY <2>4 DEF LinkStep, Link!Next
<1>5. CASE p # q
  <2>1. \A j \in Slots : /\ SlotOf(p, j)' <=> SlotOf(p, j)
                         /\ SlotOf(p, j) => ACTIVE_PLAYERS'[j] = ACTIVE_PLAYERS[j]
    BY <1>1, <1>5 DEF Registration, SlotOf
  <2>2. UNCHANGED <<peerState[p], requests[p], received[p], inputsOut[p]>>
    BY <1>2, <1>3, <1>5
  <2>3. QED  BY <2>1, <2>2, RoleStays, LinkStutters
<1>6. QED  BY <1>4, <1>5

\* The end of a connection leaves nothing for the next one on the same peer.
LEMMA DisconnectCloses ==
  ASSUME ServerInv, LinkInv, NEW q \in Peer, HandleDisconnect(q), NEW p \in Peer
  PROVE  LinkStep(p)
<1>1. \A i \in Slots :
        ACTIVE_PLAYERS'[i] =
          IF SlotOf(q, i)
          THEN [ACTIVE_PLAYERS[i] EXCEPT !.peer = NULL, !.is_exists = FALSE]
          ELSE ACTIVE_PLAYERS[i]
  BY RemoveFreesOneSlot DEF HandleDisconnect
<1>2. /\ ACTIVE_PLAYERS \in [Slots -> Player] /\ inputsOut \in [Peer -> Seq(PlayerInput)]
      /\ received \in [Peer -> SUBSET UserInfo]
      /\ peerState \in [Peer -> {"DISCONNECTED", "CONNECTED", "ZOMBIE"}]
  BY DEF ServerInv, TypeOK
<1>3. /\ peerState[q] = "ZOMBIE" /\ peerState' = [peerState EXCEPT ![q] = "DISCONNECTED"]
      /\ received' = [received EXCEPT ![q] = {}] /\ inputsOut' = [inputsOut EXCEPT ![q] = <<>>]
      /\ UNCHANGED requests
  BY DEF HandleDisconnect, arrivals
<1>4. CASE p = q
  <2>1. \A i \in Slots : ~SlotOf(p, i)'
    <3>1. \A i \in Slots : ACTIVE_PLAYERS[i] \in Player
      BY <1>2
    <3>2. ASSUME NEW i \in Slots, SlotOf(p, i) PROVE ~ACTIVE_PLAYERS'[i].is_exists
      BY <1>1, <1>4, <3>1, <3>2 DEF Player
    <3>3. QED  BY <1>1, <1>4, <3>2 DEF SlotOf
  <2>2. RoleGiven(p)' = {}
    BY <2>1 DEF RoleGiven
  <2>3. received'[p] = {} /\ inputsOut'[p] = <<>> /\ peerState'[p] = "DISCONNECTED"
    BY <1>2, <1>3, <1>4
  <2>4. RoleHeard(p)' = {} /\ SlavesHeardOf(p)' = {}
    BY <2>3 DEF RoleHeard, SlavesHeardOf
  <2>5. requests[p] = 0 /\ requests'[p] = requests[p]
    BY <1>3, <1>4 DEF LinkInv
  <2>6. Link(p)!Close
    BY <1>3, <1>4, <2>2, <2>3, <2>4, <2>5 DEF Link!Close
  <2>7. QED  BY <2>6 DEF LinkStep, Link!Next
<1>5. CASE p # q
  <2>1. \A i \in Slots : /\ SlotOf(p, i)' <=> SlotOf(p, i)
                         /\ SlotOf(p, i) => ACTIVE_PLAYERS'[i] = ACTIVE_PLAYERS[i]
    <3>1. \A i \in Slots : ACTIVE_PLAYERS[i] \in Player
      BY <1>2
    <3>2. ASSUME NEW i \in Slots, SlotOf(q, i)
          PROVE  ~ACTIVE_PLAYERS'[i].is_exists /\ ~SlotOf(p, i)
      BY <1>1, <1>5, <3>1, <3>2 DEF Player, SlotOf
    <3>3. QED  BY <1>1, <3>2 DEF SlotOf
  <2>2. UNCHANGED <<peerState[p], requests[p], received[p], inputsOut[p]>>
    BY <1>2, <1>3, <1>5
  <2>3. QED  BY <2>1, <2>2, RoleStays, LinkStutters
<1>6. QED  BY <1>4, <1>5

\* What a client takes from the critical channel is its role, and after that
\* Slaves it hears of as a Master.
LEMMA ReceivedInOrder ==
  ASSUME ServerInv, LinkInv, LinkInv', ServerInv', NEW q \in Peer, ClientReceivesUserInfo(q),
         NEW p \in Peer
  PROVE  LinkStep(p)
<1>1. /\ received \in [Peer -> SUBSET UserInfo] /\ critical \in [Peer -> Seq(UserInfo)]
  BY DEF ServerInv, TypeOK
<1>2. /\ critical[q] # <<>> /\ received' = [received EXCEPT ![q] = @ \union {Head(critical[q])}]
      /\ UNCHANGED <<ACTIVE_PLAYERS, peerState, requests, inputsOut>>
  BY DEF ClientReceivesUserInfo, links, arrivals, streams
<1>3. \A r \in Peer : UNCHANGED RoleGiven(r)
  BY <1>2 DEF RoleGiven, SlotOf
<1>4. CASE p # q
  <2>1. UNCHANGED received[p]
    BY <1>1, <1>2, <1>4
  <2>2. QED  BY <1>2, <1>3, <2>1, LinkStutters
<1>5. CASE p = q
  <2> DEFINE m == Head(critical[p])
  <2>1. /\ m \in UserInfo /\ m = critical[p][1] /\ 1 \in DOMAIN critical[p]
        /\ m \in ToldTo(p)
    BY <1>1, <1>2, <1>5 DEF ToldTo
  <2>2. received'[p] = received[p] \union {m} /\ received'[p] # {}
    BY <1>1, <1>2, <1>5
  <2>3. m.type = "RES_USER_INFO" <=> received[p] = {}
    BY <2>1 DEF ServerInv, AnswerComesFirst
  <2>4. /\ received[p] # {} => RoleHeard(p) = RoleGiven(p)
        /\ received[p] = {} => RoleHeard(p) = {} /\ SlavesHeardOf(p) = {}
    BY HeardWhatWasGiven
  <2> HIDE DEF m
  <2>5. CASE m.type = "RES_USER_INFO"
    <3>1. received[p] = {} /\ received'[p] = {m}
      BY <2>2, <2>3, <2>5
    <3>2. RoleHeard(p) = {} /\ SlavesHeardOf(p) = {}
      BY <2>4, <3>1
    <3>3. SlavesHeardOf(p)' = {} /\ RoleHeard(p)' = {m.is_master}
      BY <2>5, <3>1 DEF SlavesHeardOf, RoleHeard
    <3>4. RoleGiven(p) = {m.is_master}
      <4>1. /\ m.id \in Slots /\ SlotOf(p, m.id)
            /\ m.is_master = ACTIVE_PLAYERS[m.id].is_master
        BY <2>1, <2>5 DEF ServerInv, UserInfoMatchesTable, UserInfo
      <4>2. \A i \in Slots : SlotOf(p, i) => RoleGiven(p) = {ACTIVE_PLAYERS[i].is_master}
        BY RoleOfSlot
      <4>3. RoleGiven(p) = {ACTIVE_PLAYERS[m.id].is_master}
        BY <4>1, <4>2
      <4>4. QED  BY <4>1, <4>3
    <3>5. Link(p)!Tell
      BY <1>2, <1>3, <3>2, <3>3, <3>4 DEF Link!Tell
    <3>6. QED  BY <3>5 DEF LinkStep, Link!Next
  <2>6. CASE m.type = "SLAVE_CONNECTED"
    <3>1. received[p] # {}
      BY <2>3, <2>6
    <3>2. IsMaster(p) /\ m.id \in Slots \ {0}
      BY <2>1, <2>6 DEF ServerInv, UserInfoMatchesTable, UserInfo
    <3>3. RoleHeard(p) = {TRUE}
      BY <2>4, <3>1, <3>2, RoleOfSlot
    <3>4. RoleHeard(p)' = RoleHeard(p)
      BY <2>2, <2>6 DEF RoleHeard
    <3>5. SlavesHeardOf(p)' = SlavesHeardOf(p) \union {m.id}
      BY <2>2, <2>6 DEF SlavesHeardOf
    <3>6. Link(p)!TellOfSlave(m.id)
      BY <1>2, <1>3, <3>3, <3>4, <3>5 DEF Link!TellOfSlave
    <3>7. QED  BY <3>2, <3>6 DEF LinkStep, Link!Next
  <2>7. QED  BY <2>1, <2>5, <2>6 DEF UserInfo
<1>6. QED  BY <1>4, <1>5

\* An input is sent to the Master, and taken by it.
LEMMA InputsStep ==
  ASSUME ServerInv, NEW q \in Peer, RelayInput(q) \/ ClientReceivesStream(q), NEW p \in Peer
  PROVE  LinkStep(p)
<1>1. inputsOut \in [Peer -> Seq(PlayerInput)] /\ inputsIn \in [Peer -> Seq(PlayerInput)]
  BY DEF ServerInv, TypeOK
<1>2. UNCHANGED <<ACTIVE_PLAYERS, peerState, requests, received>>
  BY DEF RelayInput, ClientReceivesStream, links, arrivals
<1>3. /\ RoleGiven(p)' = RoleGiven(p) /\ RoleHeard(p)' = RoleHeard(p)
      /\ SlavesHeardOf(p)' = SlavesHeardOf(p)
  BY <1>2 DEF RoleGiven, SlotOf, RoleHeard, SlavesHeardOf
<1>4. CASE UNCHANGED inputsOut[p]
  BY <1>2, <1>3, <1>4, LinkStutters
<1>5. CASE inputsOut'[p] # inputsOut[p] /\ RelayInput(q)
  <2> DEFINE master == MasterPeer(ACTIVE_PLAYERS)
             v == Head(inputsIn[q])
  <2>1. MasterSlots(ACTIVE_PLAYERS) # {} /\ inputsOut' \in TrySendLossy(inputsOut, master, v)
    BY <1>5 DEF RelayInput
  <2>2. master \in Peer /\ IsMaster(master)
    BY <2>1, MasterPeerIsMaster
  <2> HIDE DEF master
  <2>3. inputsOut' = [inputsOut EXCEPT ![master] = Append(@, v)] /\ v \in PlayerInput
    BY <1>1, <1>5, <2>1 DEF TrySendLossy, TrySend, RelayInput
  <2>4. p = master /\ inputsOut'[p] = Append(inputsOut[p], v)
    BY <1>1, <1>5, <2>2, <2>3
  <2>5. Len(inputsOut'[p]) = Len(inputsOut[p]) + 1
    BY <1>1, <2>3, <2>4
  <2>6. RoleGiven(p) = {TRUE}
    BY <2>2, <2>4, RoleOfSlot
  <2>7. Link(p)!SendInput
    BY <1>2, <1>3, <2>5, <2>6 DEF Link!SendInput
  <2>8. QED  BY <2>7 DEF LinkStep, Link!Next
<1>6. CASE inputsOut'[p] # inputsOut[p] /\ ClientReceivesStream(q)
  <2>1. p = q /\ inputsOut[p] # <<>> /\ inputsOut'[p] = Tail(inputsOut[p])
    BY <1>1, <1>6 DEF ClientReceivesStream
  <2>2. Len(inputsOut[p]) > 0 /\ Len(inputsOut'[p]) = Len(inputsOut[p]) - 1
    BY <1>1, <2>1
  <2>3. Link(p)!TakeInput
    BY <1>2, <1>3, <2>2 DEF Link!TakeInput
  <2>4. QED  BY <2>3 DEF LinkStep, Link!Next
<1>7. QED  BY <1>4, <1>5, <1>6

\* What becomes of requests, and a connection that begins or breaks down.
LEMMA RequestsAndLinks ==
  ASSUME ServerInv, NEW p \in Peer, NEW q \in Peer,
         IgnoreRequest(q) \/ RequestArrives(q) \/ Connect(q) \/ LinkEnds(q)
  PROVE  LinkStep(p)
<1>1. /\ requests \in [Peer -> 0 .. MaxRequests]
      /\ peerState \in [Peer -> {"DISCONNECTED", "CONNECTED", "ZOMBIE"}]
  BY DEF ServerInv, TypeOK
<1>2. UNCHANGED <<ACTIVE_PLAYERS, received, inputsOut>>
  BY DEF IgnoreRequest, RequestArrives, Connect, LinkEnds, links, streams
<1>3. /\ RoleGiven(p)' = RoleGiven(p) /\ RoleHeard(p)' = RoleHeard(p)
      /\ SlavesHeardOf(p)' = SlavesHeardOf(p)
  BY <1>2 DEF RoleGiven, SlotOf, RoleHeard, SlavesHeardOf
<1>4. CASE p # q
  <2>1. UNCHANGED <<peerState[p], requests[p]>>
    BY <1>1, <1>4 DEF IgnoreRequest, RequestArrives, Connect, LinkEnds, links, arrivals, TakeRequest
  <2>2. QED  BY <1>2, <1>3, <2>1, LinkStutters
<1>5. CASE p = q /\ IgnoreRequest(q)
  <2>1. Link(p)!Refuse
    BY <1>1, <1>2, <1>3, <1>5 DEF IgnoreRequest, CanTakeRequest, TakeRequest, links, Link!Refuse
  <2>2. QED  BY <2>1 DEF LinkStep, Link!Next
<1>6. CASE p = q /\ RequestArrives(q)
  <2>1. Link(p)!Ask
    BY <1>1, <1>2, <1>3, <1>6 DEF RequestArrives, links, Link!Ask
  <2>2. QED  BY <2>1 DEF LinkStep, Link!Next
<1>7. CASE p = q /\ Connect(q)
  <2>1. Link(p)!Open
    BY <1>1, <1>2, <1>3, <1>7 DEF Connect, arrivals, Link!Open
  <2>2. QED  BY <2>1 DEF LinkStep, Link!Next
<1>8. CASE p = q /\ LinkEnds(q)
  <2>1. Link(p)!Break
    BY <1>1, <1>2, <1>3, <1>8 DEF LinkEnds, Link!Break
  <2>2. QED  BY <2>1 DEF LinkStep, Link!Next
<1>9. QED  BY <1>4, <1>5, <1>6, <1>7, <1>8

\* Each client finds in the server what a link promises, whatever the others do
\* (server.c:203-262, 348-373, 386-394).
THEOREM ServerImplementsLinks == Spec => ImplementsLinks
<1>1. Init => \A p \in Peer : Link(p)!Init
  <2>1. ASSUME Init, NEW p \in Peer PROVE Link(p)!Init
    <3>1. \A i \in Slots : ~SlotOf(p, i)
      BY <2>1 DEF Init, EmptySlot, SlotOf
    <3>2. /\ received[p] = {} /\ inputsOut[p] = <<>> /\ requests[p] = 0
          /\ peerState[p] = "DISCONNECTED"
      BY <2>1 DEF Init
    <3>3. QED  BY <3>1, <3>2 DEF RoleGiven, RoleHeard, SlavesHeardOf, Link!Init
  <2>2. QED  BY <2>1
<1>2. ServerInv /\ ServerInv' /\ LinkInv /\ LinkInv' /\ [Next]_vars =>
        \A p \in Peer : LinkStep(p)
  <2> SUFFICES ASSUME ServerInv, ServerInv', LinkInv, LinkInv', [Next]_vars, NEW p \in Peer
               PROVE  LinkStep(p)
    OBVIOUS
  <2>1. ASSUME UNCHANGED <<ACTIVE_PLAYERS, peerState, requests, received, inputsOut>>
        PROVE  LinkStep(p)
    <3>1. UNCHANGED RoleGiven(p)
      BY <2>1 DEF RoleGiven, SlotOf
    <3>2. QED  BY <2>1, <3>1, LinkStutters
  <2>2. ASSUME NEW q \in Peer, BroadcastState(q) \/ StateArrives(q) \/ InputArrives(q)
        PROVE  LinkStep(p)
    BY <2>1, <2>2 DEF BroadcastState, StateArrives, InputArrives, links, streams
  <2>3. CASE UNCHANGED vars
    BY <2>1, <2>3 DEF vars, links, arrivals, streams
  <2>4. QED
    BY <2>2, <2>3, RegisterGives, DisconnectCloses, ReceivedInOrder, InputsStep, RequestsAndLinks
       DEF Next, ServerStep, ClientStep, HandleRequest
<1>3. QED
  BY <1>1, <1>2, ServerInvariance, LinkInvariance, PTL DEF Spec, ImplementsLinks
=============================================================================
