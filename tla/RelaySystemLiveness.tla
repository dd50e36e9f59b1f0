------------------------ MODULE RelaySystemLiveness ------------------------
(***************************************************************************)
(* Proofs of what the clients and the server get done in the end, for every *)
(* number of clients, peers and slots, from the fairness of ServedSysSpec:  *)
(* a step is taken that is waited for without a break.  It is the fairness  *)
(* of FairSysSpec, with what each step waits for in place of the ENABLED of *)
(* WF, about which the provers know nothing.                                *)
(***************************************************************************)
EXTENDS RelaySystemProofs

-----------------------------------------------------------------------------
(* What a step of the server's specification does to one link.              *)

\* A link ends before the server forgets it, and keeps its number so long.
LinkGoesOn(p) ==
  /\ peerState[p] = "CONNECTED" => peerState'[p] \in {"CONNECTED", "ZOMBIE"}
  /\ peerState[p] = "ZOMBIE" => peerState'[p] \in {"ZOMBIE", "DISCONNECTED"}
  /\ peerState[p] = "CONNECTED" \/ peerState'[p] = "ZOMBIE" => connectID'[p] = connectID[p]

LEMMA LinksGoOn ==
  ASSUME ServerInv, [Next]_vars, NEW p \in Peer
  PROVE  LinkGoesOn(p)
<1>1. /\ peerState \in [Peer -> {"DISCONNECTED", "CONNECTED", "ZOMBIE"}]
      /\ connectID \in [Peer -> 0 .. MaxConnects]
  BY DEF ServerInv, TypeOK
<1>2. CASE UNCHANGED <<peerState, connectID>>
  BY <1>1, <1>2 DEF LinkGoesOn
<1>3. ASSUME NEW q \in Peer, HandleDisconnect(q) \/ Connect(q) \/ LinkEnds(q)
      PROVE  LinkGoesOn(p)
  BY <1>1, <1>3 DEF HandleDisconnect, Connect, LinkEnds, LinkGoesOn
<1>4. ASSUME NEW q \in Peer,
             \/ RegisterPlayer(q) \/ IgnoreRequest(q) \/ BroadcastState(q) \/ RelayInput(q)
             \/ RequestArrives(q) \/ StateArrives(q) \/ InputArrives(q)
             \/ ClientReceivesUserInfo(q) \/ ClientReceivesStream(q)
      PROVE  UNCHANGED <<peerState, connectID>>
  BY <1>4 DEF RegisterPlayer, IgnoreRequest, BroadcastState, RelayInput, RequestArrives,
              StateArrives, InputArrives, ClientReceivesUserInfo, ClientReceivesStream, links
<1>5. CASE UNCHANGED vars
  BY <1>2, <1>5 DEF vars, links
<1>6. QED
  BY <1>2, <1>3, <1>4, <1>5 DEF Next, ServerStep, ClientStep, HandleRequest

\* A peer that ENet has reset holds no slot.
LEMMA ResetPeerHasNoSlot ==
  ASSUME ServerInv, NEW p \in Peer, peerState[p] = "DISCONNECTED"
  PROVE  \A i \in Slots : ~SlotOf(p, i)
BY DEF ServerInv, SlotsHoldDistinctLivePeers, SlotOf

\* Anything a client received on its connection came after the answer.
AnswerIsReceivedFirst ==
  \A p \in Peer : received[p] # {} => \E m \in received[p] : m.type = "RES_USER_INFO"

LEMMA AnswerFirstKept ==
  ASSUME ServerInv, AnswerIsReceivedFirst, [Next]_vars
  PROVE  AnswerIsReceivedFirst'
<1>1. received \in [Peer -> SUBSET UserInfo] /\ critical \in [Peer -> Seq(UserInfo)]
  BY DEF ServerInv, TypeOK
<1>2. CASE UNCHANGED received
  BY <1>2 DEF AnswerIsReceivedFirst
<1>3. ASSUME NEW p \in Peer, ClientReceivesUserInfo(p) PROVE AnswerIsReceivedFirst'
  <2>1. /\ 1 \in DOMAIN critical[p] /\ Head(critical[p]) = critical[p][1]
        /\ \A q \in Peer : received'[q] = IF q = p THEN received[p] \union {Head(critical[p])}
                                          ELSE received[q]
    <3>1. critical[p] \in Seq(UserInfo) /\ critical[p] # <<>>
      BY <1>1, <1>3 DEF ClientReceivesUserInfo
    <3>2. QED  BY <1>1, <1>3, <3>1 DEF ClientReceivesUserInfo
  <2>2. received[p] = {} => critical[p][1].type = "RES_USER_INFO"
    BY <2>1 DEF ServerInv, AnswerComesFirst
  <2>3. QED  BY <2>1, <2>2 DEF AnswerIsReceivedFirst
<1>4. ASSUME NEW p \in Peer, HandleDisconnect(p) PROVE AnswerIsReceivedFirst'
  BY <1>1, <1>4 DEF HandleDisconnect, AnswerIsReceivedFirst
<1>5. ASSUME NEW p \in Peer,
             \/ RegisterPlayer(p) \/ IgnoreRequest(p) \/ BroadcastState(p) \/ RelayInput(p)
             \/ Connect(p) \/ LinkEnds(p) \/ RequestArrives(p) \/ StateArrives(p)
             \/ InputArrives(p) \/ ClientReceivesStream(p)
      PROVE  UNCHANGED received
  BY <1>5 DEF RegisterPlayer, IgnoreRequest, BroadcastState, RelayInput, Connect, LinkEnds,
              RequestArrives, StateArrives, InputArrives, ClientReceivesStream
<1>6. CASE UNCHANGED vars
  BY <1>2, <1>6 DEF vars
<1>7. QED
  BY <1>2, <1>3, <1>4, <1>5, <1>6 DEF Next, ServerStep, ClientStep, HandleRequest

LEMMA AnswerIsFirst == Spec => []AnswerIsReceivedFirst
<1>1. Init => AnswerIsReceivedFirst
  BY DEF Init, AnswerIsReceivedFirst
<1>2. QED  BY <1>1, AnswerFirstKept, ServerInvariance, PTL DEF Spec

\* Whoever holds a slot has been sent its answer.
SlotHoldersAreAnswered == \A p \in Peer : \A i \in Slots : SlotOf(p, i) => Answered(p)

LEMMA RegisteredIsAnswered == ServerInv /\ AnswerIsReceivedFirst => SlotHoldersAreAnswered
<1> SUFFICES ASSUME ServerInv, AnswerIsReceivedFirst,
                    NEW p \in Peer, NEW i \in Slots, SlotOf(p, i)
             PROVE  Answered(p)
  BY DEF SlotHoldersAreAnswered
<1>1. ToldTo(p) # {} /\ critical[p] \in Seq(UserInfo)
  BY DEF ServerInv, RegisteredAreAnswered, TypeOK
<1>2. CASE received[p] # {}
  BY <1>2 DEF AnswerIsReceivedFirst, Answered, ToldTo
<1>3. CASE received[p] = {}
  <2>1. critical[p] # <<>>
    BY <1>1, <1>3 DEF ToldTo
  <2>2. 1 \in DOMAIN critical[p]
    BY <1>1, <2>1
  <2>3. critical[p][1].type = "RES_USER_INFO"
    BY <1>3, <2>2 DEF ServerInv, AnswerComesFirst
  <2>4. QED  BY <2>2, <2>3 DEF Answered, ToldTo
<1>4. QED  BY <1>2, <1>3

\* A request that is handled is answered, or was before, or finds the table full.
LEMMA HandledIsAnswered ==
  ASSUME ServerInv, ServerInv', AnswerIsReceivedFirst', NEW p \in Peer, HandleRequest(p)
  PROVE  Answered(p)' \/ (FreeSlots(ACTIVE_PLAYERS) = {})'
<1>0. SlotHoldersAreAnswered'
  BY RegisteredIsAnswered, PTL
<1>1. CASE IgnoreRequest(p) /\ FreeSlots(ACTIVE_PLAYERS) = {}
  BY <1>1 DEF IgnoreRequest
<1>2. CASE IgnoreRequest(p) /\ IsPlayerActive(ACTIVE_PLAYERS, p)
  <2>1. \E i \in Slots : SlotOf(p, i)'
    BY <1>2 DEF IgnoreRequest, IsPlayerActive, Occupied, ExistsAndConnected, SlotOf
  <2>2. QED  BY <1>0, <2>1 DEF SlotHoldersAreAnswered
<1>3. CASE RegisterPlayer(p)
  <2>1. PICK i \in Slots, m \in BOOLEAN : Registration(p, i, m)
    BY <1>3, RegisterEffect
  <2>2. SlotOf(p, i)'
    BY <2>1 DEF Registration, SlotOf, ServerInv, TypeOK
  <2>3. QED  BY <1>0, <2>2 DEF SlotHoldersAreAnswered
<1>4. QED  BY <1>1, <1>2, <1>3 DEF HandleRequest, IgnoreRequest

-----------------------------------------------------------------------------
(* The fairness of one peer and of one client.                              *)

LEMMA FairnessOfPeer ==
  ASSUME NEW p \in Peer
  PROVE  ServedSysSpec => SysSpec /\ PeerIsServed(p)
BY DEF ServedSysSpec

LEMMA FairnessOfClient ==
  ASSUME NEW c \in Client
  PROVE  ServedSysSpec => SysSpec /\ ClientIsServed(c)
BY DEF ServedSysSpec

\* What holds in every state of the system.
LEMMA SystemStates == SysSpec => []SysInv /\ []AnswerIsReceivedFirst
BY SystemInvariance, SystemUsesTheServer, AnswerIsFirst, PTL

\* A step of the system is one of the server's specification, and leaves its
\* invariant true.
LEMMA SystemSteps ==
  ASSUME SysInv, [SysNext]_sysVars
  PROVE  ServerInv /\ [Next]_vars /\ ServerInv' /\ SysInv'
BY StepOfTheServer, ServerPart, SysNextKeepsInv DEF SysInv

-----------------------------------------------------------------------------
(* Players whose link has ended.                                            *)

\* The server hears of every link that has ended, and frees the slot of its
\* player (EVENT_TYPE_DISCONNECT, server.c:279-297).
THEOREM GhostsLeaveTheTable == ServedSysSpec => GhostsAreRemoved
<1> SUFFICES ASSUME NEW p \in Peer
             PROVE  ServedSysSpec =>
                      (peerState[p] = "ZOMBIE" ~> HoldsNoSlot(p))
  BY DEF GhostsAreRemoved
<1> DEFINE Ghost == peerState[p] = "ZOMBIE"
           Event == HandleDisconnect(p) /\ UNCHANGED clientVars
<1>1. SysInv /\ Ghost /\ [SysNext]_sysVars => Ghost' \/ HoldsNoSlot(p)'
  <2>1. SUFFICES ASSUME SysInv, Ghost, [SysNext]_sysVars PROVE Ghost' \/ HoldsNoSlot(p)'
    OBVIOUS
  <2>2. peerState'[p] \in {"ZOMBIE", "DISCONNECTED"}
    BY <2>1, SystemSteps, LinksGoOn DEF LinkGoesOn
  <2>3. peerState'[p] = "DISCONNECTED" => HoldsNoSlot(p)'
    BY <2>1, SystemSteps DEF ServerInv, SlotsHoldDistinctLivePeers, SlotOf, HoldsNoSlot
  <2>4. QED  BY <2>2, <2>3
<1>2. SysInv /\ Ghost /\ [SysNext]_sysVars /\ Event => HoldsNoSlot(p)'
  <2>1. SUFFICES ASSUME SysInv, [SysNext]_sysVars, Event PROVE HoldsNoSlot(p)'
    OBVIOUS
  <2>2. peerState'[p] = "DISCONNECTED"
    BY <2>1 DEF HandleDisconnect, SysInv, ServerInv, TypeOK
  <2>3. QED
    BY <2>1, <2>2, SystemSteps
       DEF ServerInv, SlotsHoldDistinctLivePeers, SlotOf, HoldsNoSlot
<1>3. PeerIsServed(p) => []<>~Ghost \/ []<><<Event>>_sysVars
  <2>1. peerState[p] # "ZOMBIE" <=> ~Ghost
    OBVIOUS
  <2>2. QED  BY <2>1, PTL DEF PeerIsServed
<1> HIDE DEF Ghost, Event
<1>4. ServedSysSpec => (Ghost ~> HoldsNoSlot(p))
  BY <1>1, <1>2, <1>3, FairnessOfPeer, SystemStates, PTL DEF SysSpec
<1>5. QED  BY <1>4 DEF Ghost

-----------------------------------------------------------------------------
(* Requests.                                                                *)

\* A request waits until it is handled or the link ends.
LEMMA RequestsWait ==
  ASSUME ServerInv, [Next]_vars, NEW p \in Peer, CanTakeRequest(p)
  PROVE  \/ CanTakeRequest(p)' \/ peerState'[p] # "CONNECTED"
         \/ HandleRequest(p)
<1>1. /\ requests \in [Peer -> 0 .. MaxRequests] /\ MaxRequests \in Nat
      /\ requests[p] \in Nat /\ requests[p] > 0
  BY ServerAssumption DEF ServerInv, TypeOK, CanTakeRequest
<1>2. CASE requests'[p] >= requests[p]
  <2>1. requests'[p] \in Nat
    BY NextKeepsInv, ServerAssumption DEF ServerInv, TypeOK
  <2>2. QED  BY <1>1, <1>2, <2>1 DEF CanTakeRequest
<1>3. ASSUME NEW q \in Peer, HandleRequest(q), q # p PROVE requests'[p] = requests[p]
  BY <1>1, <1>3 DEF HandleRequest, RegisterPlayer, IgnoreRequest, TakeRequest
<1>4. ASSUME NEW q \in Peer, LinkEnds(q)
      PROVE  requests'[p] = requests[p] \/ peerState'[p] # "CONNECTED"
  BY <1>1, <1>4 DEF LinkEnds, ServerInv, TypeOK
<1>5. ASSUME NEW q \in Peer, RequestArrives(q) PROVE requests'[p] >= requests[p]
  BY <1>1, <1>5 DEF RequestArrives
<1>6. ASSUME NEW q \in Peer,
             \/ BroadcastState(q) \/ RelayInput(q) \/ HandleDisconnect(q) \/ Connect(q)
             \/ StateArrives(q) \/ InputArrives(q)
             \/ ClientReceivesUserInfo(q) \/ ClientReceivesStream(q)
      PROVE  requests' = requests
  BY <1>6 DEF BroadcastState, RelayInput, HandleDisconnect, Connect, StateArrives,
              InputArrives, ClientReceivesUserInfo, ClientReceivesStream, arrivals
<1>7. CASE UNCHANGED vars
  BY <1>1, <1>2, <1>7 DEF vars, arrivals
<1>8. QED
  BY <1>1, <1>2, <1>3, <1>4, <1>5, <1>6, <1>7 DEF Next, ServerStep, ClientStep

\* Only a connected client has requests waiting at the server.
RequestsAreOfTheConnected == \A p \in Peer : requests[p] > 0 => peerState[p] = "CONNECTED"

LEMMA DeadLinksRequestNothing ==
  ASSUME ServerInv, RequestsAreOfTheConnected, [Next]_vars
  PROVE  RequestsAreOfTheConnected'
<1>1. /\ requests \in [Peer -> 0 .. MaxRequests] /\ MaxRequests \in Nat
      /\ peerState \in [Peer -> {"DISCONNECTED", "CONNECTED", "ZOMBIE"}]
  BY ServerAssumption DEF ServerInv, TypeOK
<1>2. CASE UNCHANGED <<requests, peerState>>
  BY <1>2 DEF RequestsAreOfTheConnected
<1>3. ASSUME NEW q \in Peer, HandleRequest(q) PROVE RequestsAreOfTheConnected'
  <2>1. /\ UNCHANGED peerState /\ peerState[q] = "CONNECTED"
        /\ requests' = [requests EXCEPT ![q] = @ - 1]
    BY <1>3 DEF HandleRequest, RegisterPlayer, IgnoreRequest, TakeRequest, CanTakeRequest, links
  <2>2. QED  BY <1>1, <2>1 DEF RequestsAreOfTheConnected
<1>4. ASSUME NEW q \in Peer,
             \/ HandleDisconnect(q) \/ Connect(q) \/ LinkEnds(q) \/ RequestArrives(q)
      PROVE  RequestsAreOfTheConnected'
  BY <1>1, <1>4 DEF HandleDisconnect, Connect, LinkEnds, RequestArrives, links, arrivals,
                    RequestsAreOfTheConnected
<1>5. ASSUME NEW q \in Peer,
             \/ BroadcastState(q) \/ RelayInput(q) \/ StateArrives(q) \/ InputArrives(q)
             \/ ClientReceivesUserInfo(q) \/ ClientReceivesStream(q)
      PROVE  UNCHANGED <<requests, peerState>>
  BY <1>5 DEF BroadcastState, RelayInput, StateArrives, InputArrives,
              ClientReceivesUserInfo, ClientReceivesStream, arrivals, links
<1>6. CASE UNCHANGED vars
  BY <1>2, <1>6 DEF vars, arrivals, links
<1>7. QED
  BY <1>2, <1>3, <1>4, <1>5, <1>6 DEF Next, ServerStep, ClientStep

LEMMA RequestersAreConnected == Spec => []RequestsAreOfTheConnected
<1>1. Init => RequestsAreOfTheConnected
  BY DEF Init, RequestsAreOfTheConnected
<1>2. QED  BY <1>1, DeadLinksRequestNothing, ServerInvariance, PTL DEF Spec

\* A request that waits is handled: it is answered, or has been, unless the link
\* ends or the table is full at some time from then on (EVENT_TYPE_RECEIVE,
\* server.c:203-275).
THEOREM RequestsGetAnswers == ServedSysSpec => RequestsAreAnswered
<1> SUFFICES ASSUME NEW p \in Peer
             PROVE  ServedSysSpec =>
                      (requests[p] > 0 ~> Settled(p))
  BY DEF RequestsAreAnswered
<1> DEFINE Waits == CanTakeRequest(p)
           Handler == HandleRequest(p) /\ UNCHANGED clientVars
<1>1. SysInv /\ AnswerIsReceivedFirst /\ AnswerIsReceivedFirst' /\ [SysNext]_sysVars
        /\ HandleRequest(p) => Settled(p)'
  BY SystemSteps, HandledIsAnswered DEF Settled
<1>2. SysInv /\ AnswerIsReceivedFirst /\ AnswerIsReceivedFirst' /\ Waits /\ [SysNext]_sysVars
        => Waits' \/ Settled(p)'
  BY <1>1, SystemSteps, RequestsWait DEF Settled
<1>3. SysInv /\ AnswerIsReceivedFirst /\ AnswerIsReceivedFirst' /\ [SysNext]_sysVars /\ Handler
        => Settled(p)'
  BY <1>1
<1>4. RequestsAreOfTheConnected => (requests[p] > 0 => Waits)
  BY DEF RequestsAreOfTheConnected, CanTakeRequest
<1>5. PeerIsServed(p) => []<>~Waits \/ []<><<Handler>>_sysVars
  BY PTL DEF PeerIsServed
<1> HIDE DEF Waits, Handler
<1>6. ServedSysSpec => (requests[p] > 0 ~> Settled(p))
  BY <1>2, <1>3, <1>4, <1>5, FairnessOfPeer, SystemStates, SystemUsesTheServer,
     RequestersAreConnected, PTL DEF SysSpec
<1>7. QED  BY <1>6

-----------------------------------------------------------------------------
(* Connections that a client has left.                                      *)

\* Nobody gets a connection that nobody has.
LEMMA AbandonedStays ==
  ASSUME SysInv, [SysNext]_sysVars, NEW p \in Peer,
         peerState[p] = "CONNECTED", Abandoned(p)
  PROVE  peerState'[p] = "ZOMBIE" \/ (peerState'[p] = "CONNECTED" /\ Abandoned(p)')
<1>1. peerState'[p] \in {"CONNECTED", "ZOMBIE"} /\ connectID'[p] = connectID[p]
  BY SystemSteps, LinksGoOn DEF LinkGoesOn
<1>2. /\ CLIENT_PEER \in [Client -> 0 .. MaxConnects] /\ dialing \in [Client -> 0 .. MaxConnects]
      /\ connectID[p] \in Nat /\ connectID[p] # 0 /\ connectID[p] <= connects /\ connects \in Nat
  BY ServerAssumption
     DEF SysInv, SysTypeOK, ServerInv, TypeOK, ConnectionsAreNumbered
<1>3. \A c \in Client : connectID[p] # CLIENT_PEER[c] /\ connectID[p] # dialing[c]
  BY <1>2 DEF Abandoned, Carries
<1>4. \A c \in Client : connectID[p] # CLIENT_PEER'[c] /\ connectID[p] # dialing'[c]
  <2>1. CASE UNCHANGED clientVars
    BY <1>3, <2>1 DEF clientVars
  <2>2. ASSUME NEW c \in Client, NEW q \in Peer, Dial(c, q)
        PROVE  UNCHANGED CLIENT_PEER /\ dialing' = [dialing EXCEPT ![c] = connects + 1]
    BY <2>2 DEF Dial, Connect, SysInv, ServerInv, TypeOK
  <2>3. ASSUME NEW c \in Client, EndDial(c)
        PROVE  /\ CLIENT_PEER' = [CLIENT_PEER EXCEPT ![c] = dialing[c]]
               /\ dialing' = [dialing EXCEPT ![c] = 0]
    BY <2>3 DEF EndDial
  <2>4. ASSUME NEW c \in Client, Restart(c)
        PROVE  /\ CLIENT_PEER' = [CLIENT_PEER EXCEPT ![c] = 0]
               /\ dialing' = [dialing EXCEPT ![c] = 0]
    BY <2>4 DEF Restart
  <2>5. ASSUME NEW c \in Client, NEW q \in Peer,
               \/ RequestUserInfo(c, q) \/ ReceiveUserInfo(c, q) \/ ReceiveStream(c, q)
               \/ SendState(c, q) \/ SendInput(c, q)
        PROVE  UNCHANGED <<CLIENT_PEER, dialing>>
    BY <2>5 DEF RequestUserInfo, ReceiveUserInfo, ReceiveStream, SendState, SendInput, clientVars
  <2>6. ASSUME NEW c \in Client, BeginTick(c) \/ ReadId(c) \/ SendLost(c)
        PROVE  UNCHANGED <<CLIENT_PEER, dialing>>
    BY <2>6 DEF BeginTick, ReadId, SendLost
  <2>7. ASSUME NEW q \in Peer, ServerOrLink(q) PROVE UNCHANGED clientVars
    BY <2>7 DEF ServerOrLink, LinkOfSomebodyEnds, TimesOut
  <2>8. CASE UNCHANGED sysVars
    BY <2>1, <2>8 DEF sysVars
  <2>9. CASE \E c \in Client : NetThread(c)
    <3>1. PICK c \in Client : NetThread(c)
      BY <2>9
    <3>2. CASE EndDial(c)
      BY <1>2, <1>3, <2>3, <3>2
    <3>3. CASE \E q \in Peer : Dial(c, q)
      <4>1. connectID[p] # connects + 1
        BY <1>2
      <4>2. QED  BY <1>2, <1>3, <2>2, <3>3, <4>1
    <3>4. QED  BY <1>3, <2>5, <3>1, <3>2, <3>3 DEF NetThread
  <2>10. CASE \E c \in Client : Ticking(c)
    BY <1>3, <2>5, <2>6, <2>10 DEF Ticking
  <2>11. CASE \E c \in Client : Restart(c)
    BY <1>2, <1>3, <2>4, <2>11
  <2>12. QED  BY <2>1, <2>7, <2>8, <2>9, <2>10, <2>11 DEF SysNext
<1>5. Abandoned(p)'
  BY <1>1, <1>4 DEF Abandoned, Carries
<1>6. QED  BY <1>1, <1>5

\* ENet gives up a connection that its client has left without a word, by a
\* second connect or by ending (client.c:252-298, client.c:816-834), and its slot
\* is freed.
THEOREM AbandonedSlotsGetFree == ServedSysSpec => AbandonedSlotsAreFreed
<1> SUFFICES ASSUME NEW i \in Slots, NEW p \in Peer
             PROVE  ServedSysSpec =>
                      (SlotOf(p, i) /\ Abandoned(p) ~> ~SlotOf(p, i))
  BY DEF AbandonedSlotsAreFreed
<1> DEFINE Left == peerState[p] = "CONNECTED" /\ Abandoned(p)
           Ghost == peerState[p] = "ZOMBIE"
<1>1. SysInv /\ Left /\ [SysNext]_sysVars => Left' \/ Ghost'
  BY AbandonedStays
<1>2. SysInv /\ Left /\ [SysNext]_sysVars /\ TimesOut(p) => Ghost'
  BY DEF TimesOut, LinkEnds, SysInv, ServerInv, TypeOK
<1>3. SysInv /\ SlotOf(p, i) /\ Abandoned(p) => Left \/ Ghost
  BY DEF SysInv, ServerInv, TypeOK, SlotsHoldDistinctLivePeers, SlotOf
<1>4. GhostsAreRemoved => (Ghost ~> HoldsNoSlot(p))
  BY DEF GhostsAreRemoved
<1>5. HoldsNoSlot(p) => ~SlotOf(p, i)
  BY DEF HoldsNoSlot
<1>6. PeerIsServed(p) => []<>~Left \/ []<><<TimesOut(p)>>_sysVars
  BY PTL DEF PeerIsServed
<1> HIDE DEF Left, Ghost
<1>7. ServedSysSpec => (Left ~> Ghost)
  BY <1>1, <1>2, <1>6, FairnessOfPeer, SystemStates, PTL DEF SysSpec
<1>8. ServedSysSpec => (SlotOf(p, i) /\ Abandoned(p) ~> Left \/ Ghost)
  BY <1>3, FairnessOfPeer, SystemStates, PTL
<1>9. QED  BY <1>4, <1>5, <1>7, <1>8, GhostsLeaveTheTable, PTL

-----------------------------------------------------------------------------
(* Registration, from the request to the client that knows who it is.       *)

\* What can become of a client's connection in a step that is not one of the
\* client's own net thread or of its end.
LEMMA OwnSteps ==
  ASSUME SysInv, [SysNext]_sysVars, NEW c \in Client
  PROVE  \/ UNCHANGED <<CLIENT_PEER[c], dialing[c]>>
         \/ EndDial(c) \/ Restart(c)
         \/ CLIENT_PEER'[c] = CLIENT_PEER[c] /\ dialing[c] = 0 /\ dialing'[c] # 0
<1>1. /\ CLIENT_PEER \in [Client -> 0 .. MaxConnects] /\ dialing \in [Client -> 0 .. MaxConnects]
      /\ connects \in Nat /\ connectID \in [Peer -> 0 .. MaxConnects]
  BY ServerAssumption DEF SysInv, SysTypeOK, ServerInv, TypeOK
<1>2. CASE UNCHANGED clientVars
  BY <1>2 DEF clientVars
<1>3. ASSUME NEW d \in Client, NEW q \in Peer, Dial(d, q)
      PROVE  /\ UNCHANGED CLIENT_PEER /\ dialing[d] = 0
             /\ dialing'[d] # 0 /\ \A e \in Client \ {d} : dialing'[e] = dialing[e]
  <2>1. connectID'[q] = connects + 1 /\ connects + 1 # 0
    BY <1>1, <1>3 DEF Dial, Connect
  <2>2. QED  BY <1>1, <1>3, <2>1 DEF Dial
<1>4. ASSUME NEW d \in Client, d # c, EndDial(d) \/ Restart(d)
      PROVE  UNCHANGED <<CLIENT_PEER[c], dialing[c]>>
  BY <1>1, <1>4 DEF EndDial, Restart
<1>5. ASSUME NEW d \in Client, NEW q \in Peer,
             \/ RequestUserInfo(d, q) \/ ReceiveUserInfo(d, q) \/ ReceiveStream(d, q)
             \/ SendState(d, q) \/ SendInput(d, q)
      PROVE  UNCHANGED <<CLIENT_PEER, dialing>>
  BY <1>5 DEF RequestUserInfo, ReceiveUserInfo, ReceiveStream, SendState, SendInput, clientVars
<1>6. ASSUME NEW d \in Client, BeginTick(d) \/ ReadId(d) \/ SendLost(d)
      PROVE  UNCHANGED <<CLIENT_PEER, dialing>>
  BY <1>6 DEF BeginTick, ReadId, SendLost
<1>7. ASSUME NEW q \in Peer, ServerOrLink(q) PROVE UNCHANGED clientVars
  BY <1>7 DEF ServerOrLink, LinkOfSomebodyEnds, TimesOut
<1>8. CASE UNCHANGED sysVars
  BY <1>2, <1>8 DEF sysVars
<1>9. CASE \E d \in Client : NetThread(d)
  <2>1. PICK d \in Client : NetThread(d)
    BY <1>9
  <2>2. CASE EndDial(d)
    BY <1>4, <2>2
  <2>3. CASE \E q \in Peer : Dial(d, q)
    BY <1>3, <2>3
  <2>4. QED  BY <1>5, <2>1, <2>2, <2>3 DEF NetThread
<1>10. CASE \E d \in Client : Ticking(d)
  BY <1>5, <1>6, <1>10 DEF Ticking
<1>11. CASE \E d \in Client : Restart(d)
  BY <1>4, <1>11
<1>12. QED  BY <1>2, <1>7, <1>8, <1>9, <1>10, <1>11 DEF SysNext

\* An answer that has arrived waits for the client.
AnswerWaits(c, p) == critical[p] # <<>> /\ Carries(p, CLIENT_PEER[c])

LEMMA AnswerStays ==
  ASSUME SysInv, [SysNext]_sysVars, NEW c \in Client, NEW p \in Peer,
         AnswerWaits(c, p), peerState[p] = "CONNECTED"
  PROVE  AnswerWaits(c, p)' \/ Concluded(c, p)'
<1>1. /\ critical \in [Peer -> Seq(UserInfo)] /\ critical' \in [Peer -> Seq(UserInfo)]
      /\ received \in [Peer -> SUBSET UserInfo]
  BY SystemSteps DEF ServerInv, TypeOK
<1>2. ASSUME critical'[p] # <<>> PROVE AnswerWaits(c, p)' \/ Concluded(c, p)'
  BY <1>2 DEF AnswerWaits, Concluded
<1>3. CASE UNCHANGED critical
  BY <1>2, <1>3 DEF AnswerWaits
<1>4. ASSUME NEW d \in Client, NEW q \in Peer, ReceiveUserInfo(d, q)
      PROVE  AnswerWaits(c, p)' \/ Concluded(c, p)'
  <2>1. CASE q # p
    <3>1. critical'[p] = critical[p]
      BY <1>1, <1>4, <2>1 DEF ReceiveUserInfo, ClientReceivesUserInfo
    <3>2. QED  BY <1>2, <3>1 DEF AnswerWaits
  <2>2. CASE q = p
    <3>1. d = c
      BY <1>4, <2>2
         DEF ReceiveUserInfo, Services, Carries, AnswerWaits, SysInv, ConnectionsHaveOneOwner
    <3>2. QED  BY <1>4, <3>1, ReceivingIsKnowing DEF Concluded
  <2>3. QED  BY <2>1, <2>2
<1>5. ASSUME NEW q \in Peer, HandleDisconnect(q)
      PROVE  AnswerWaits(c, p)' \/ Concluded(c, p)'
  <2>1. q # p
    BY <1>5 DEF HandleDisconnect
  <2>2. critical'[p] = critical[p]
    BY <1>1, <1>5, <2>1 DEF HandleDisconnect
  <2>3. QED  BY <1>2, <2>2 DEF AnswerWaits
<1>6. ASSUME NEW q \in Peer, RegisterPlayer(q) PROVE critical'[p] # <<>>
  <2>1. PICK i \in Slots, m \in BOOLEAN : Registration(q, i, m)
    BY <1>6, SystemSteps, RegisterEffect
  <2>2. CASE q = p
    <3>1. critical'[p] = <<UserInfoMsg("RES_USER_INFO", i, m)>>
      BY <2>1, <2>2 DEF Registration
    <3>2. \A e : <<e>> # <<>>
      OBVIOUS
    <3>3. QED  BY <3>1, <3>2
  <2>3. CASE q # p
    <3>1. /\ critical[p] \in Seq(UserInfo) /\ critical[p] # <<>>
          /\ \/ critical'[p] = critical[p]
             \/ critical'[p] = Append(critical[p], UserInfoMsg("SLAVE_CONNECTED", i, m))
      BY <1>1, <2>1, <2>3 DEF Registration, AnswerWaits
    <3>2. UserInfoMsg("SLAVE_CONNECTED", i, m) \in UserInfo
      BY MessageType
    <3>3. Append(critical[p], UserInfoMsg("SLAVE_CONNECTED", i, m)) # <<>>
      BY <3>1, <3>2
    <3>4. QED  BY <3>1, <3>3
  <2>4. QED  BY <2>2, <2>3
<1>7. ASSUME NEW q \in Peer, ServerOrLink(q)
      PROVE  UNCHANGED critical \/ HandleDisconnect(q) \/ RegisterPlayer(q)
  BY <1>7 DEF ServerOrLink, ServerStep, HandleRequest, IgnoreRequest, BroadcastState,
              RelayInput, LinkOfSomebodyEnds, TimesOut, LinkEnds
<1>8. ASSUME NEW d \in Client, NetThread(d)
      PROVE  UNCHANGED critical \/ \E q \in Peer : ReceiveUserInfo(d, q)
  BY <1>8 DEF NetThread, EndDial, Dial, Connect, RequestUserInfo, RequestArrives,
              ReceiveStream, ClientReceivesStream, vars
<1>9. ASSUME NEW d \in Client, Ticking(d) \/ Restart(d) PROVE UNCHANGED critical
  BY <1>9 DEF Ticking, BeginTick, ReadId, SendLost, SendState, SendInput, StateArrives,
              InputArrives, Restart, vars
<1>10. CASE UNCHANGED sysVars
  BY <1>3, <1>10 DEF sysVars, vars
<1>11. QED
  BY <1>2, <1>3, <1>4, <1>5, <1>6, <1>7, <1>8, <1>9, <1>10 DEF SysNext

\* A client that is making a connection leaves the one it has.
LEMMA DialingLeaves ==
  ASSUME SysInv, [SysNext]_sysVars, NEW c \in Client, NEW p \in Peer,
         dialing[c] # 0, Carries(p, CLIENT_PEER[c]), peerState[p] = "CONNECTED"
  PROVE  /\ dialing'[c] # 0 \/ Concluded(c, p)'
         /\ EndDial(c) => Concluded(c, p)'
<1>1. connectID'[p] = connectID[p]
  BY SystemSteps, LinksGoOn DEF LinkGoesOn
<1>2. EndDial(c) => ~Carries(p, CLIENT_PEER[c])'
  BY <1>1 DEF EndDial, Carries, SysInv, SysTypeOK, ConnectionsHaveOneOwner
<1>3. Restart(c) => ~Carries(p, CLIENT_PEER[c])'
  BY DEF Restart, Carries, SysInv, SysTypeOK
<1>4. QED  BY <1>2, <1>3, OwnSteps DEF Concluded

\* An answer that waits reaches its client, or the client is off to another
\* connection.
LEMMA AnswerIsTaken ==
  ASSUME NEW c \in Client, NEW p \in Peer
  PROVE  ServedSysSpec => (AnswerWaits(c, p) ~> Concluded(c, p))
<1> DEFINE Dials == dialing[c] # 0
           Waits == AnswerWaits(c, p)
           Done == Concluded(c, p)
           There == AnswerIsThere(c)
<1>1. Waits /\ ~Done => peerState[p] = "CONNECTED"
  BY DEF Concluded
<1>2. SysInv /\ Waits /\ ~Done /\ [SysNext]_sysVars => Waits' \/ Done'
  BY <1>1, AnswerStays
<1>3. SysInv /\ Waits /\ Dials /\ ~Done /\ [SysNext]_sysVars => Dials' \/ Done'
  BY <1>1, DialingLeaves DEF AnswerWaits
<1>4. SysInv /\ Waits /\ Dials /\ ~Done /\ [SysNext]_sysVars /\ EndDial(c) => Done'
  BY <1>1, DialingLeaves DEF AnswerWaits
<1>5. SysInv /\ [SysNext]_sysVars /\ TakesUserInfo(c) => Done'
  BY ReceivingIsKnowing DEF Concluded, TakesUserInfo
<1>6. Waits /\ ~Dials => There
  BY DEF AnswerWaits, AnswerIsThere, Services
<1>7. ClientIsServed(c) => /\ []<>~Dials \/ []<><<EndDial(c)>>_sysVars
                           /\ []<>~There \/ []<><<TakesUserInfo(c)>>_sysVars
  <2>1. dialing[c] = 0 <=> ~Dials
    OBVIOUS
  <2>2. QED  BY <2>1, PTL DEF ClientIsServed
<1> HIDE DEF Dials, Waits, Done, There
<1>8. ServedSysSpec => (Waits /\ Dials ~> Done)
  BY <1>2, <1>3, <1>4, <1>7, FairnessOfClient, SystemStates, PTL DEF SysSpec
<1>9. ServedSysSpec => (Waits /\ ~Dials ~> (Waits /\ Dials) \/ Done)
  BY <1>2, <1>5, <1>6, <1>7, FairnessOfClient, SystemStates, PTL DEF SysSpec
<1>10. ServedSysSpec => (Waits ~> Done)
  BY <1>8, <1>9, PTL
<1>11. QED  BY <1>10 DEF Waits, Done

\* Whoever has asked on the connection it has knows, in the end, its id and role
\* on that connection (client.c:301-327, server.c:157-275, client.c:445-497),
\* unless it loses or leaves the connection or the table is full.
THEOREM ClientsGetToKnow == ServedSysSpec => RegistrationCompletes
<1> SUFFICES ASSUME NEW c \in Client, NEW p \in Peer
             PROVE  ServedSysSpec =>
                      (requests[p] > 0 /\ Carries(p, CLIENT_PEER[c]) ~> Concluded(c, p))
  BY DEF RegistrationCompletes
<1>1. SysInv /\ Settled(p) => AnswerWaits(c, p) \/ Concluded(c, p)
  <2>1. SUFFICES ASSUME SysInv, Settled(p), ~Concluded(c, p) PROVE AnswerWaits(c, p)
    OBVIOUS
  <2>2. Carries(p, CLIENT_PEER[c]) /\ Answered(p) /\ ~Knows(c)
    BY <2>1 DEF Settled, Concluded
  <2>3. received[p] = {}
    BY <2>1, <2>2 DEF SysInv, ReceivedIsKnown
  <2>4. critical[p] # <<>>
    BY <2>2, <2>3 DEF Answered, ToldTo
  <2>5. QED  BY <2>2, <2>4 DEF AnswerWaits
<1>2. RequestsAreAnswered => (requests[p] > 0 ~> Settled(p))
  BY DEF RequestsAreAnswered
<1>3. ServedSysSpec => (requests[p] > 0 ~> Settled(p))
  BY <1>2, RequestsGetAnswers, PTL
<1>4. ServedSysSpec => []SysInv
  BY FairnessOfClient, SystemStates, PTL
<1>5. QED  BY <1>1, <1>3, <1>4, AnswerIsTaken, PTL
=============================================================================
