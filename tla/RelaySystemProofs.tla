------------------------- MODULE RelaySystemProofs -------------------------
(***************************************************************************)
(* Proofs about RelaySystem, for every number of clients, peers and slots. *)
(***************************************************************************)
EXTENDS RelaySystem, RelayServerProofs

-----------------------------------------------------------------------------
(* The clients use the server as RelayServer says clients do.               *)

\* A step of the system is a step of the server's specification, or none of
\* its variables changes.
LEMMA StepOfTheServer == [SysNext]_sysVars => [Next]_vars
<1> SUFFICES ASSUME [SysNext]_sysVars PROVE [Next]_vars
  OBVIOUS
<1>1. CASE UNCHANGED sysVars
  BY <1>1 DEF sysVars
<1>2. ASSUME NEW p \in Peer, ServerOrLink(p) PROVE Next
  BY <1>2 DEF ServerOrLink, LinkOfSomebodyEnds, TimesOut, Next, ClientStep
<1>3. ASSUME NEW c \in Client, NetThread(c) PROVE [Next]_vars
  <2>1. CASE EndDial(c)
    BY <2>1 DEF EndDial
  <2>2. ASSUME NEW p \in Peer,
               Dial(c, p) \/ RequestUserInfo(c, p) \/ ReceiveUserInfo(c, p) \/ ReceiveStream(c, p)
        PROVE  Next
    BY <2>2 DEF Dial, RequestUserInfo, ReceiveUserInfo, ReceiveStream, Next, ClientStep
  <2>3. QED  BY <1>3, <2>1, <2>2 DEF NetThread
<1>4. ASSUME NEW c \in Client, Ticking(c) PROVE [Next]_vars
  <2>1. CASE BeginTick(c) \/ ReadId(c) \/ SendLost(c)
    BY <2>1 DEF BeginTick, ReadId, SendLost
  <2>2. ASSUME NEW p \in Peer, SendState(c, p) \/ SendInput(c, p) PROVE Next
    BY <2>2 DEF SendState, SendInput, Next, ClientStep
  <2>3. QED  BY <1>4, <2>1, <2>2 DEF Ticking
<1>5. ASSUME NEW c \in Client, Restart(c) PROVE UNCHANGED vars
  BY <1>5 DEF Restart
<1>6. QED  BY <1>1, <1>2, <1>3, <1>4, <1>5 DEF SysNext

\* Whatever is proved of the server with clients that may send anything holds
\* of the server with these clients.
THEOREM SystemUsesTheServer == SysSpec => Spec
<1>1. SysInit => Init
  BY DEF SysInit
<1>2. QED  BY <1>1, StepOfTheServer, PTL DEF SysSpec, Spec

\* So each client has what a link promises for every connection it makes, when
\* it connects again before the server knows that the old link has ended too.
THEOREM SystemImplementsLinks == SysSpec => ImplementsLinks
BY SystemUsesTheServer, ServerImplementsLinks, PTL

-----------------------------------------------------------------------------
(* What a step of the server's specification leaves alone.                  *)

\* A connection keeps its number and what was received on it until it is gone,
\* and a new one has a number that was never used.
NumbersMoveOn ==
  /\ connects \in Nat /\ connects' \in Nat /\ connects <= connects'
  /\ \A p \in Peer : connectID'[p] # 0 =>
       \/ connectID'[p] = connectID[p] /\ received[p] \subseteq received'[p]
       \/ connectID'[p] = connects + 1 /\ connects' = connects + 1

\* A slot stays with its player as long as the player's link is there, or has
\* ended without the server knowing.
SlotsStay ==
  \A p \in Peer : \A i \in Slots : SlotOf(p, i) /\ peerState'[p] # "DISCONNECTED" =>
    SlotOf(p, i)' /\ ACTIVE_PLAYERS'[i].is_master = ACTIVE_PLAYERS[i].is_master

LEMMA NumbersMoveOnInSteps ==
  ASSUME ServerInv, [Next]_vars
  PROVE  NumbersMoveOn
<1>1. /\ connectID \in [Peer -> 0 .. MaxConnects] /\ connects \in 0 .. MaxConnects
      /\ connects \in Nat /\ MaxConnects \in Nat
      /\ received \in [Peer -> SUBSET UserInfo]
  BY ServerAssumption DEF ServerInv, TypeOK
<1>2. CASE UNCHANGED <<connectID, connects, received>>
  BY <1>1, <1>2 DEF NumbersMoveOn
<1>3. ASSUME NEW p \in Peer, HandleDisconnect(p) PROVE NumbersMoveOn
  BY <1>1, <1>3 DEF HandleDisconnect, NumbersMoveOn
<1>4. ASSUME NEW p \in Peer, Connect(p) PROVE NumbersMoveOn
  BY <1>1, <1>4 DEF Connect, NumbersMoveOn
<1>5. ASSUME NEW p \in Peer, ClientReceivesUserInfo(p) PROVE NumbersMoveOn
  BY <1>1, <1>5 DEF ClientReceivesUserInfo, NumbersMoveOn, links
<1>6. ASSUME NEW p \in Peer,
             \/ RegisterPlayer(p) \/ IgnoreRequest(p) \/ BroadcastState(p) \/ RelayInput(p)
             \/ LinkEnds(p) \/ RequestArrives(p) \/ StateArrives(p) \/ InputArrives(p)
             \/ ClientReceivesStream(p)
      PROVE  UNCHANGED <<connectID, connects, received>>
  BY <1>6 DEF RegisterPlayer, IgnoreRequest, BroadcastState, RelayInput, LinkEnds,
              RequestArrives, StateArrives, InputArrives, ClientReceivesStream, links
<1>7. CASE UNCHANGED vars
  BY <1>2, <1>7 DEF vars, links
<1>8. QED
  BY <1>2, <1>3, <1>4, <1>5, <1>6, <1>7
     DEF Next, ServerStep, ClientStep, HandleRequest

LEMMA SlotsStayInSteps ==
  ASSUME ServerInv, [Next]_vars
  PROVE  SlotsStay
<1>1. CASE UNCHANGED ACTIVE_PLAYERS
  BY <1>1 DEF SlotsStay, SlotOf
<1>2. ASSUME NEW p \in Peer, HandleDisconnect(p) PROVE SlotsStay
  <2>1. peerState'[p] = "DISCONNECTED" /\ ACTIVE_PLAYERS' = RemovePlayer(ACTIVE_PLAYERS, p)
    BY <1>2 DEF HandleDisconnect, ServerInv, TypeOK
  <2>2. \A q \in Peer \ {p} : \A i \in Slots : SlotOf(q, i) => ~SlotOf(p, i)
    BY DEF SlotOf
  <2>3. \A q \in Peer \ {p} : \A i \in Slots :
          SlotOf(q, i) => ACTIVE_PLAYERS'[i] = ACTIVE_PLAYERS[i]
    BY <2>1, <2>2, RemoveFreesOneSlot
  <2>4. QED  BY <2>1, <2>3 DEF SlotsStay, SlotOf
<1>3. ASSUME NEW p \in Peer, RegisterPlayer(p) PROVE SlotsStay
  <2>1. PICK i \in Slots, m \in BOOLEAN : Registration(p, i, m)
    BY <1>3, RegisterEffect
  <2>2. \A q \in Peer : \A j \in Slots : SlotOf(q, j) => j # i
    BY <2>1 DEF Registration, SlotOf
  <2>3. \A q \in Peer : \A j \in Slots :
          SlotOf(q, j) => ACTIVE_PLAYERS'[j] = ACTIVE_PLAYERS[j]
    BY <2>1, <2>2 DEF Registration
  <2>4. QED  BY <2>3 DEF SlotsStay, SlotOf
<1>4. ASSUME NEW p \in Peer,
             \/ IgnoreRequest(p) \/ BroadcastState(p) \/ RelayInput(p) \/ ClientStep(p)
      PROVE  UNCHANGED ACTIVE_PLAYERS
  BY <1>4 DEF IgnoreRequest, BroadcastState, RelayInput, ClientStep, Connect, LinkEnds,
              RequestArrives, StateArrives, InputArrives, ClientReceivesUserInfo,
              ClientReceivesStream
<1>5. CASE UNCHANGED vars
  BY <1>1, <1>5 DEF vars
<1>6. QED  BY <1>1, <1>2, <1>3, <1>4, <1>5 DEF Next, ServerStep, HandleRequest

\* A packet that waits at the server was there before, or a client sent it.
OnlyOld(new, old) == \A n \in DOMAIN new : \E k \in DOMAIN old : new[n] = old[k]

LEMMA TailIsOld ==
  ASSUME NEW S, NEW s \in Seq(S), s # <<>>
  PROVE  OnlyOld(Tail(s), s)
<1>1. /\ DOMAIN s = 1 .. Len(s) /\ Len(s) \in Nat \ {0}
      /\ DOMAIN Tail(s) = 1 .. Len(s) - 1
      /\ \A n \in 1 .. Len(s) - 1 : Tail(s)[n] = s[n + 1]
  OBVIOUS
<1>2. \A n \in DOMAIN Tail(s) : n + 1 \in DOMAIN s /\ Tail(s)[n] = s[n + 1]
  BY <1>1
<1>3. QED  BY <1>2 DEF OnlyOld

NothingArrives == /\ \A q \in Peer : OnlyOld(statesIn'[q], statesIn[q])
                  /\ \A q \in Peer : OnlyOld(inputsIn'[q], inputsIn[q])

LEMMA ServerTakesPackets ==
  ASSUME ServerInv, NEW p \in Peer,
         ServerStep(p) \/ Connect(p) \/ LinkEnds(p) \/ RequestArrives(p)
           \/ ClientReceivesUserInfo(p) \/ ClientReceivesStream(p)
  PROVE  NothingArrives
<1>1. statesIn \in [Peer -> Seq(GameState)] /\ inputsIn \in [Peer -> Seq(PlayerInput)]
  BY DEF ServerInv, TypeOK
<1>2. CASE UNCHANGED <<statesIn, inputsIn>>
  BY <1>2 DEF NothingArrives, OnlyOld
<1>3. CASE BroadcastState(p)
  <2>1. \A q \in Peer : statesIn'[q] = IF q = p THEN Tail(statesIn[p]) ELSE statesIn[q]
    BY <1>1, <1>3 DEF BroadcastState
  <2>2. OnlyOld(Tail(statesIn[p]), statesIn[p])
    BY <1>1, <1>3, TailIsOld DEF BroadcastState
  <2>3. UNCHANGED inputsIn
    BY <1>3 DEF BroadcastState
  <2>4. QED  BY <2>1, <2>2, <2>3 DEF NothingArrives, OnlyOld
<1>4. CASE RelayInput(p)
  <2>1. \A q \in Peer : inputsIn'[q] = IF q = p THEN Tail(inputsIn[p]) ELSE inputsIn[q]
    BY <1>1, <1>4 DEF RelayInput
  <2>2. OnlyOld(Tail(inputsIn[p]), inputsIn[p])
    BY <1>1, <1>4, TailIsOld DEF RelayInput
  <2>3. UNCHANGED statesIn
    BY <1>4 DEF RelayInput
  <2>4. QED  BY <2>1, <2>2, <2>3 DEF NothingArrives, OnlyOld
<1>5. CASE LinkEnds(p)
  <2>1. \A q \in Peer : /\ statesIn'[q] = IF q = p THEN <<>> ELSE statesIn[q]
                        /\ inputsIn'[q] = IF q = p THEN <<>> ELSE inputsIn[q]
    BY <1>1, <1>5 DEF LinkEnds
  <2>2. DOMAIN <<>> = {}
    OBVIOUS
  <2>3. QED  BY <2>1, <2>2 DEF NothingArrives, OnlyOld
<1>6. ASSUME \/ RegisterPlayer(p) \/ IgnoreRequest(p) \/ HandleDisconnect(p) \/ Connect(p)
             \/ RequestArrives(p) \/ ClientReceivesUserInfo(p) \/ ClientReceivesStream(p)
      PROVE  UNCHANGED <<statesIn, inputsIn>>
  BY <1>6 DEF RegisterPlayer, IgnoreRequest, HandleDisconnect, Connect, RequestArrives,
              ClientReceivesUserInfo, ClientReceivesStream, arrivals
<1>7. QED  BY <1>2, <1>3, <1>4, <1>5, <1>6 DEF ServerStep, HandleRequest

\* What waits at the server of a link that has ended is gone with it.
LEMMA DeadLinksStayEmpty ==
  ASSUME ServerInv, DeadLinksAreEmpty, [Next]_vars
  PROVE  DeadLinksAreEmpty'
<1>1. /\ peerState \in [Peer -> {"DISCONNECTED", "CONNECTED", "ZOMBIE"}]
      /\ statesIn \in [Peer -> Seq(GameState)] /\ inputsIn \in [Peer -> Seq(PlayerInput)]
  BY DEF ServerInv, TypeOK
<1>2. CASE UNCHANGED <<peerState, statesIn, inputsIn>>
  BY <1>2 DEF DeadLinksAreEmpty
<1>3. ASSUME NEW p \in Peer, BroadcastState(p) \/ RelayInput(p) \/ StateArrives(p) \/ InputArrives(p)
      PROVE  DeadLinksAreEmpty'
  <2>1. /\ UNCHANGED peerState /\ peerState[p] = "CONNECTED"
        /\ \A q \in Peer \ {p} : statesIn'[q] = statesIn[q] /\ inputsIn'[q] = inputsIn[q]
    BY <1>1, <1>3 DEF BroadcastState, RelayInput, StateArrives, InputArrives, links
  <2>2. QED  BY <2>1 DEF DeadLinksAreEmpty
<1>4. ASSUME NEW p \in Peer, LinkEnds(p) PROVE DeadLinksAreEmpty'
  BY <1>1, <1>4 DEF LinkEnds, DeadLinksAreEmpty
<1>5. ASSUME NEW p \in Peer, Connect(p) \/ HandleDisconnect(p) PROVE DeadLinksAreEmpty'
  <2>1. /\ UNCHANGED <<statesIn, inputsIn>> /\ peerState[p] # "CONNECTED"
        /\ \A q \in Peer \ {p} : peerState'[q] = peerState[q]
    BY <1>1, <1>5 DEF Connect, HandleDisconnect, arrivals
  <2>2. QED  BY <2>1 DEF DeadLinksAreEmpty
<1>6. ASSUME NEW p \in Peer,
             \/ RegisterPlayer(p) \/ IgnoreRequest(p) \/ RequestArrives(p)
             \/ ClientReceivesUserInfo(p) \/ ClientReceivesStream(p)
      PROVE  UNCHANGED <<peerState, statesIn, inputsIn>>
  BY <1>6 DEF RegisterPlayer, IgnoreRequest, RequestArrives, ClientReceivesUserInfo,
              ClientReceivesStream, links, arrivals
<1>7. CASE UNCHANGED vars
  BY <1>2, <1>7 DEF vars, links, arrivals
<1>8. QED
  BY <1>2, <1>3, <1>4, <1>5, <1>6, <1>7 DEF Next, ServerStep, ClientStep, HandleRequest

-----------------------------------------------------------------------------
(* What follows from the invariant in a state.                              *)

\* What a client believes is what the table says: it has received it, and what
\* a connection has received stays true.
LEMMA BeliefsMatch ==
  ASSUME ServerInv, BeliefsWereReceived
  PROVE  BeliefsMatchTheTable
<1> SUFFICES ASSUME NEW c \in Client, NEW info \in Beliefs(c), NEW p \in Peer,
                    Carries(p, info.given_on)
             PROVE  SlotOf(p, info.id) /\ ACTIVE_PLAYERS[info.id].is_master = info.is_master
  BY DEF BeliefsMatchTheTable
<1> DEFINE m == UserInfoMsg("RES_USER_INFO", info.id, info.is_master)
<1>1. m \in ToldTo(p)
  BY DEF BeliefsWereReceived, ToldTo
<1>2. m.type = "RES_USER_INFO" /\ m.id = info.id /\ m.is_master = info.is_master
  BY DEF UserInfoMsg
<1>3. QED  BY <1>1, <1>2 DEF ServerInv, UserInfoMatchesTable

\* Two clients that are Master on the connections they have are one.
LEMMA OneOfTheMasters ==
  ASSUME ServerInv, SysTypeOK, ConnectionsHaveOneOwner, BeliefsWereReceived
  PROVE  OneCurrentMaster
<1> SUFFICES ASSUME NEW c \in Client, NEW d \in Client, ActsAsMaster(c), ActsAsMaster(d)
             PROVE  c = d
  BY DEF OneCurrentMaster
<1>1. ASSUME NEW e \in Client, ActsAsMaster(e)
      PROVE  \E p \in Peer : Carries(p, CLIENT_PEER[e]) /\ SlotOf(p, 0)
  <2>1. PICK p \in Peer : Carries(p, CLIENT_PEER[e])
    BY <1>1 DEF ActsAsMaster
  <2> DEFINE info == MY_USER_INFO[e]
  <2>2. info \in Beliefs(e) /\ info.is_master /\ info.given_on = CLIENT_PEER[e] /\ info.id \in Slots
    BY <1>1 DEF ActsAsMaster, Beliefs, IsCurrent, SysTypeOK, Info
  <2>3. SlotOf(p, info.id) /\ ACTIVE_PLAYERS[info.id].is_master = info.is_master
    BY <2>1, <2>2, BeliefsMatch DEF BeliefsMatchTheTable
  <2>4. info.id = 0
    BY <2>2, <2>3 DEF ServerInv, OneMasterAtSlotZero, SlotOf
  <2>5. QED  BY <2>1, <2>3, <2>4
<1>2. PICK p \in Peer : Carries(p, CLIENT_PEER[c]) /\ SlotOf(p, 0)
  BY <1>1
<1>3. PICK q \in Peer : Carries(q, CLIENT_PEER[d]) /\ SlotOf(q, 0)
  BY <1>1
<1>4. p = q
  BY <1>2, <1>3 DEF SlotOf
<1>5. QED  BY <1>2, <1>3, <1>4 DEF Carries, ConnectionsHaveOneOwner
-----------------------------------------------------------------------------
(* Every step of the system keeps the invariant: one lemma for each part.   *)

\* The server's step in a step of the system, and what follows from it.
LEMMA ServerPart ==
  ASSUME SysInv, [SysNext]_sysVars
  PROVE  ServerInv' /\ NumbersMoveOn /\ SlotsStay /\ DeadLinksAreEmpty'
BY StepOfTheServer, NextKeepsInv, NumbersMoveOnInSteps, SlotsStayInSteps, DeadLinksStayEmpty
   DEF SysInv

LEMMA MessageReceived ==
  ASSUME SysInv, NEW c \in Client, NEW p \in Peer, ReceiveUserInfo(c, p)
  PROVE  /\ Head(critical[p]) \in UserInfo
         /\ CLIENT_PEER[c] \in 1 .. MaxConnects /\ connectID[p] = CLIENT_PEER[c]
         /\ received' = [received EXCEPT ![p] = @ \union {Head(critical[p])}]
         /\ UNCHANGED <<connectID, connects>>
<1>1. critical[p] \in Seq(UserInfo) /\ critical[p] # <<>>
  BY DEF ReceiveUserInfo, ClientReceivesUserInfo, SysInv, ServerInv, TypeOK
<1>2. Head(critical[p]) \in UserInfo
  BY <1>1
<1>3. CLIENT_PEER[c] \in 0 .. MaxConnects /\ CLIENT_PEER[c] # 0 /\ MaxConnects \in Nat
  BY ServerAssumption DEF ReceiveUserInfo, Services, Carries, SysInv, SysTypeOK
<1>4. QED
  BY <1>2, <1>3 DEF ReceiveUserInfo, Services, Carries, ClientReceivesUserInfo, links

LEMMA SysTypeKept ==
  ASSUME SysInv, [SysNext]_sysVars
  PROVE  SysTypeOK'
<1> USE DEF SysTypeOK, SysInv
<1>0. MaxConnects \in Nat /\ NoTick \in Tick
  BY ServerAssumption DEF NoTick, Tick
<1>1. CASE UNCHANGED clientVars
  BY <1>1 DEF clientVars
<1>2. ASSUME NEW p \in Peer, ServerOrLink(p) PROVE UNCHANGED clientVars
  BY <1>2 DEF ServerOrLink, LinkOfSomebodyEnds, TimesOut
<1>3. ASSUME NEW c \in Client, NEW p \in Peer, Dial(c, p) PROVE SysTypeOK'
  <2>1. connectID'[p] \in 0 .. MaxConnects
    BY <1>3, ServerPart DEF Dial, Connect, ServerInv, TypeOK
  <2>2. QED  BY <1>3, <2>1 DEF Dial
<1>4. ASSUME NEW c \in Client, EndDial(c) PROVE SysTypeOK'
  BY <1>0, <1>4 DEF EndDial
<1>5. ASSUME NEW c \in Client, NEW p \in Peer, RequestUserInfo(c, p) \/ ReceiveStream(c, p)
      PROVE  UNCHANGED clientVars
  BY <1>5 DEF RequestUserInfo, ReceiveStream
<1>6. ASSUME NEW c \in Client, NEW p \in Peer, ReceiveUserInfo(c, p) PROVE SysTypeOK'
  <2> DEFINE m == Head(critical[p])
             info == [id |-> m.id, is_master |-> m.is_master, given_on |-> CLIENT_PEER[c]]
  <2>1. info \in Info
    BY <1>6, MessageReceived DEF Info, UserInfo
  <2>2. \/ UNCHANGED MY_USER_INFO
        \/ MY_USER_INFO' = [MY_USER_INFO EXCEPT ![c] = info]
    BY <1>6 DEF ReceiveUserInfo, TakeInfo
  <2>3. QED  BY <1>6, <2>1, <2>2 DEF ReceiveUserInfo
<1>7. ASSUME NEW c \in Client, BeginTick(c) \/ ReadId(c) PROVE SysTypeOK'
  <2>1. CASE BeginTick(c)
    <3>1. [at |-> IF MY_USER_INFO[c].is_master THEN "send_state" ELSE "read_id",
           role |-> MY_USER_INFO[c], named |-> NULL] \in Tick
      BY DEF Tick
    <3>2. QED  BY <2>1, <3>1 DEF BeginTick
  <2>2. CASE ReadId(c)
    <3>1. [at |-> "send_input", role |-> tick[c].role, named |-> MY_USER_INFO[c]] \in Tick
      BY DEF Tick
    <3>2. QED  BY <2>2, <3>1 DEF ReadId
  <2>3. QED  BY <1>7, <2>1, <2>2
<1>8. ASSUME NEW c \in Client, NEW p \in Peer, SendState(c, p) \/ SendInput(c, p)
      PROVE  SysTypeOK'
  BY <1>0, <1>8 DEF SendState, SendInput
<1>9. ASSUME NEW c \in Client, SendLost(c) PROVE SysTypeOK'
  BY <1>0, <1>9 DEF SendLost
<1>10. ASSUME NEW c \in Client, Restart(c) PROVE SysTypeOK'
  BY <1>0, <1>10 DEF Restart
<1>11. QED
  BY <1>1, <1>2, <1>3, <1>4, <1>5, <1>6, <1>7, <1>8, <1>9, <1>10
     DEF SysNext, sysVars, NetThread, Ticking

LEMMA OwnersKept ==
  ASSUME SysInv, [SysNext]_sysVars
  PROVE  ConnectionsHaveOneOwner'
<1>0. /\ CLIENT_PEER \in [Client -> 0 .. MaxConnects] /\ dialing \in [Client -> 0 .. MaxConnects]
      /\ MaxConnects \in Nat /\ connects \in Nat /\ connects' \in Nat /\ connects <= connects'
  BY ServerAssumption, ServerPart DEF SysInv, SysTypeOK, NumbersMoveOn
<1> USE DEF ConnectionsHaveOneOwner
<1>1. CASE UNCHANGED <<CLIENT_PEER, dialing>>
  BY <1>0, <1>1 DEF SysInv
<1>2. ASSUME NEW c \in Client, NEW p \in Peer, Dial(c, p) PROVE ConnectionsHaveOneOwner'
  <2>1. /\ UNCHANGED CLIENT_PEER /\ connects' = connects + 1
        /\ \A d \in Client : dialing'[d] = IF d = c THEN connects + 1 ELSE dialing[d]
    BY <1>0, <1>2 DEF Dial, Connect, SysInv, ServerInv, TypeOK
  <2>2. QED  BY <1>0, <2>1 DEF SysInv
<1>3. ASSUME NEW c \in Client, EndDial(c) PROVE ConnectionsHaveOneOwner'
  <2>1. /\ UNCHANGED connects /\ dialing[c] # 0
        /\ \A d \in Client : dialing'[d] = IF d = c THEN 0 ELSE dialing[d]
        /\ \A d \in Client : CLIENT_PEER'[d] = IF d = c THEN dialing[c] ELSE CLIENT_PEER[d]
    BY <1>0, <1>3 DEF EndDial, vars, links
  <2>2. QED  BY <1>0, <2>1 DEF SysInv
<1>4. ASSUME NEW c \in Client, Restart(c) PROVE ConnectionsHaveOneOwner'
  <2>1. /\ UNCHANGED connects
        /\ \A d \in Client : dialing'[d] = IF d = c THEN 0 ELSE dialing[d]
        /\ \A d \in Client : CLIENT_PEER'[d] = IF d = c THEN 0 ELSE CLIENT_PEER[d]
    BY <1>0, <1>4 DEF Restart, vars, links
  <2>2. QED  BY <1>0, <2>1 DEF SysInv
<1>5. ASSUME NEW p \in Peer, ServerOrLink(p) PROVE UNCHANGED <<CLIENT_PEER, dialing>>
  BY <1>5 DEF ServerOrLink, LinkOfSomebodyEnds, TimesOut, clientVars
<1>6. ASSUME NEW c \in Client, NEW p \in Peer,
             \/ RequestUserInfo(c, p) \/ ReceiveUserInfo(c, p) \/ ReceiveStream(c, p)
             \/ SendState(c, p) \/ SendInput(c, p)
      PROVE  UNCHANGED <<CLIENT_PEER, dialing>>
  BY <1>6 DEF RequestUserInfo, ReceiveUserInfo, ReceiveStream, SendState, SendInput, clientVars
<1>7. ASSUME NEW c \in Client, BeginTick(c) \/ ReadId(c) \/ SendLost(c)
      PROVE  UNCHANGED <<CLIENT_PEER, dialing>>
  BY <1>7 DEF BeginTick, ReadId, SendLost
<1>8. CASE UNCHANGED sysVars
  BY <1>1, <1>8 DEF sysVars, clientVars
<1>9. QED
  BY <1>1, <1>2, <1>3, <1>4, <1>5, <1>6, <1>7, <1>8 DEF SysNext, NetThread, Ticking

\* What a client believes in a state where it believed it before, or received
\* it just now.
Received(info) ==
  /\ info.given_on <= connects
  /\ \A p \in Peer : Carries(p, info.given_on) =>
       UserInfoMsg("RES_USER_INFO", info.id, info.is_master) \in received[p]

LEMMA OldBeliefsKept ==
  ASSUME SysInv, [SysNext]_sysVars, NEW c \in Client, NEW info \in Beliefs(c)
  PROVE  Received(info)'
<1>1. info \in Info
  BY DEF SysInv, SysTypeOK, Beliefs, Tick
<1>2. NumbersMoveOn /\ info.given_on \in Nat /\ info.given_on # 0
  BY <1>1, ServerPart, ServerAssumption DEF Info
<1>3. Received(info)
  BY DEF SysInv, BeliefsWereReceived, Received
<1>4. info.given_on <= connects'
  BY <1>2, <1>3 DEF NumbersMoveOn, Received
<1>5. ASSUME NEW p \in Peer, connectID'[p] = info.given_on
      PROVE  UserInfoMsg("RES_USER_INFO", info.id, info.is_master) \in received'[p]
  <2>1. connectID'[p] # connects + 1
    BY <1>2, <1>3, <1>5 DEF NumbersMoveOn, Received
  <2>2. connectID'[p] = connectID[p] /\ received[p] \subseteq received'[p]
    BY <1>2, <1>5, <2>1 DEF NumbersMoveOn
  <2>3. QED  BY <1>2, <1>3, <1>5, <2>2 DEF Received, Carries
<1>6. QED  BY <1>4, <1>5 DEF Received, Carries, UserInfoMsg

LEMMA NewBeliefReceived ==
  ASSUME SysInv, NEW c \in Client, NEW p \in Peer, ReceiveUserInfo(c, p),
         IsAnswer(Head(critical[p])), NEW info,
         info = [id |-> Head(critical[p]).id, is_master |-> Head(critical[p]).is_master,
                 given_on |-> CLIENT_PEER[c]]
  PROVE  Received(info)'
<1> DEFINE m == Head(critical[p])
<1>1. /\ m \in UserInfo /\ connectID[p] = CLIENT_PEER[c] /\ CLIENT_PEER[c] # 0
      /\ received' = [received EXCEPT ![p] = @ \union {m}]
      /\ UNCHANGED <<connectID, connects>>
  BY MessageReceived, ServerAssumption
<1>2. m = UserInfoMsg("RES_USER_INFO", info.id, info.is_master)
  BY <1>1 DEF IsAnswer, UserInfoMsg, UserInfo
<1>3. m \in received'[p]
  BY <1>1 DEF SysInv, ServerInv, TypeOK
<1>4. \A q \in Peer : connectID'[q] = info.given_on => q = p
  BY <1>1 DEF SysInv, ServerInv, ConnectionsAreNumbered
<1>5. info.given_on <= connects'
  BY <1>1 DEF SysInv, ServerInv, ConnectionsAreNumbered
<1>6. QED  BY <1>2, <1>3, <1>4, <1>5 DEF Received, Carries, UserInfoMsg

LEMMA BeliefsReceivedKept ==
  ASSUME SysInv, [SysNext]_sysVars
  PROVE  BeliefsWereReceived'
<1>0. /\ MY_USER_INFO \in [Client -> Info \union {NULL}] /\ tick \in [Client -> Tick]
  BY DEF SysInv, SysTypeOK
<1>1. ASSUME \A c \in Client : Beliefs(c)' \subseteq Beliefs(c)
      PROVE  BeliefsWereReceived'
  BY <1>1, OldBeliefsKept DEF BeliefsWereReceived, Received
<1>2. CASE UNCHANGED <<MY_USER_INFO, tick>>
  BY <1>1, <1>2 DEF Beliefs
<1>3. ASSUME NEW p \in Peer, ServerOrLink(p) PROVE UNCHANGED <<MY_USER_INFO, tick>>
  BY <1>3 DEF ServerOrLink, LinkOfSomebodyEnds, TimesOut, clientVars
<1>4. ASSUME NEW c \in Client, NEW p \in Peer,
             Dial(c, p) \/ RequestUserInfo(c, p) \/ ReceiveStream(c, p)
      PROVE  UNCHANGED <<MY_USER_INFO, tick>>
  BY <1>4 DEF Dial, RequestUserInfo, ReceiveStream, clientVars
<1>5. ASSUME NEW c \in Client, NEW p \in Peer, ReceiveUserInfo(c, p)
      PROVE  BeliefsWereReceived'
  <2> DEFINE m == Head(critical[p])
  <2>0. PICK info : info = [id |-> m.id, is_master |-> m.is_master, given_on |-> CLIENT_PEER[c]]
    OBVIOUS
  <2>1. CASE ~IsAnswer(m)
    BY <1>2, <1>5, <2>1 DEF ReceiveUserInfo
  <2>2. CASE IsAnswer(m)
    <3>1. UNCHANGED tick /\ MY_USER_INFO' = [MY_USER_INFO EXCEPT ![c] = info]
      BY <1>5, <2>0, <2>2 DEF ReceiveUserInfo, TakeInfo
    <3>2. \A d \in Client : Beliefs(d)' \subseteq Beliefs(d) \union {info}
      BY <1>0, <3>1 DEF Beliefs
    <3>3. Received(info)'
      BY <1>5, <2>0, <2>2, NewBeliefReceived
    <3>4. \A d \in Client : \A e \in Beliefs(d)' : Received(e)'
      <4>1. SUFFICES ASSUME NEW d \in Client, NEW e \in Beliefs(d)' PROVE Received(e)'
        OBVIOUS
      <4>2. CASE e = info
        BY <3>3, <4>2 DEF Received, Carries, UserInfoMsg
      <4>3. CASE e \in Beliefs(d)
        BY <4>3, OldBeliefsKept
      <4>4. QED  BY <3>2, <4>2, <4>3
    <3>5. QED  BY <3>4 DEF BeliefsWereReceived, Received
  <2>3. QED  BY <2>1, <2>2
<1>6. ASSUME NEW c \in Client, BeginTick(c) \/ ReadId(c) PROVE BeliefsWereReceived'
  <2>1. \A d \in Client : Beliefs(d)' \subseteq Beliefs(d)
    BY <1>0, <1>6 DEF BeginTick, ReadId, Beliefs
  <2>2. QED  BY <1>1, <2>1
<1>7. ASSUME NEW c \in Client, NEW p \in Peer,
             SendState(c, p) \/ SendInput(c, p)
      PROVE  BeliefsWereReceived'
  <2>1. \A d \in Client : Beliefs(d)' \subseteq Beliefs(d)
    BY <1>0, <1>7 DEF SendState, SendInput, Beliefs, NoTick
  <2>2. QED  BY <1>1, <2>1
<1>8. CASE UNCHANGED sysVars
  BY <1>2, <1>8 DEF sysVars, clientVars
<1>9. ASSUME NEW c \in Client, SendLost(c) \/ Restart(c) PROVE BeliefsWereReceived'
  <2>1. \A d \in Client : Beliefs(d)' \subseteq Beliefs(d)
    BY <1>0, <1>9 DEF SendLost, Restart, Beliefs, NoTick
  <2>2. QED  BY <1>1, <2>1
<1>10. ASSUME NEW c \in Client, EndDial(c) PROVE UNCHANGED <<MY_USER_INFO, tick>>
  BY <1>10 DEF EndDial
<1>11. QED
  BY <1>2, <1>3, <1>4, <1>5, <1>6, <1>7, <1>8, <1>9, <1>10
     DEF SysNext, NetThread, Ticking

LEMMA TickDataKept ==
  ASSUME SysInv, [SysNext]_sysVars
  PROVE  TicksHaveTheirData'
<1>0. /\ MY_USER_INFO \in [Client -> Info \union {NULL}] /\ tick \in [Client -> Tick]
      /\ TicksHaveTheirData
  BY DEF SysInv, SysTypeOK
<1>1. CASE UNCHANGED <<MY_USER_INFO, tick>>
  BY <1>0, <1>1 DEF TicksHaveTheirData
<1>2. ASSUME NEW p \in Peer, ServerOrLink(p) PROVE UNCHANGED <<MY_USER_INFO, tick>>
  BY <1>2 DEF ServerOrLink, LinkOfSomebodyEnds, TimesOut, clientVars
<1>3. ASSUME NEW c \in Client, NEW p \in Peer,
             Dial(c, p) \/ RequestUserInfo(c, p) \/ ReceiveStream(c, p)
      PROVE  UNCHANGED <<MY_USER_INFO, tick>>
  BY <1>3 DEF Dial, RequestUserInfo, ReceiveStream, clientVars
<1>4. ASSUME NEW c \in Client, EndDial(c) PROVE UNCHANGED <<MY_USER_INFO, tick>>
  BY <1>4 DEF EndDial
<1>5. ASSUME NEW c \in Client, NEW p \in Peer, ReceiveUserInfo(c, p)
      PROVE  TicksHaveTheirData'
  <2> DEFINE m == Head(critical[p])
             info == [id |-> m.id, is_master |-> m.is_master, given_on |-> CLIENT_PEER[c]]
  <2>1. info \in [id : Slots, is_master : BOOLEAN, given_on : Nat]
    BY <1>5, MessageReceived, ServerAssumption DEF UserInfo
  <2>2. info # NULL
    BY <2>1, SystemAssumption
  <2>3. /\ UNCHANGED tick
        /\ MY_USER_INFO' = MY_USER_INFO \/ MY_USER_INFO' = [MY_USER_INFO EXCEPT ![c] = info]
    BY <1>5 DEF ReceiveUserInfo, TakeInfo
  <2>4. \A d \in Client : MY_USER_INFO[d] # NULL => MY_USER_INFO'[d] # NULL
    BY <1>0, <2>2, <2>3
  <2>5. QED  BY <1>0, <2>3, <2>4 DEF TicksHaveTheirData
<1>6. ASSUME NEW c \in Client, BeginTick(c) PROVE TicksHaveTheirData'
  <2>1. /\ UNCHANGED MY_USER_INFO /\ MY_USER_INFO[c] # NULL
        /\ \A d \in Client \ {c} : tick'[d] = tick[d]
        /\ tick'[c].at = IF MY_USER_INFO[c].is_master THEN "send_state" ELSE "read_id"
        /\ tick'[c].role = MY_USER_INFO[c]
    BY <1>0, <1>6 DEF BeginTick
  <2>2. QED  BY <1>0, <2>1 DEF TicksHaveTheirData
<1>7. ASSUME NEW c \in Client, ReadId(c) PROVE TicksHaveTheirData'
  <2>1. /\ UNCHANGED MY_USER_INFO /\ tick[c].at = "read_id"
        /\ \A d \in Client \ {c} : tick'[d] = tick[d]
        /\ tick'[c].at = "send_input" /\ tick'[c].role = tick[c].role
        /\ tick'[c].named = MY_USER_INFO[c]
    BY <1>0, <1>7 DEF ReadId
  <2>2. QED  BY <1>0, <2>1 DEF TicksHaveTheirData
<1>8. ASSUME NEW c \in Client, tick'[c].at = "none",
             \A d \in Client \ {c} : tick'[d] = tick[d] /\ MY_USER_INFO'[d] = MY_USER_INFO[d]
      PROVE  TicksHaveTheirData'
  BY <1>0, <1>8 DEF TicksHaveTheirData
<1>9. ASSUME NEW c \in Client, NEW p \in Peer, SendState(c, p) \/ SendInput(c, p)
      PROVE  TicksHaveTheirData'
  BY <1>0, <1>8, <1>9 DEF SendState, SendInput, NoTick
<1>10. ASSUME NEW c \in Client, SendLost(c) \/ Restart(c) PROVE TicksHaveTheirData'
  BY <1>0, <1>8, <1>10 DEF SendLost, Restart, NoTick
<1>11. CASE UNCHANGED sysVars
  BY <1>1, <1>11 DEF sysVars, clientVars
<1>12. QED
  BY <1>1, <1>2, <1>3, <1>4, <1>5, <1>6, <1>7, <1>9, <1>10, <1>11
     DEF SysNext, NetThread, Ticking

\* A packet that was there before is as true as it was: its sender's link is
\* there, so that the sender has the slot it had.
LEMMA OldPacketsStayTrue ==
  ASSUME SysInv, [SysNext]_sysVars, NothingArrives
  PROVE  CurrentPacketsAreTrue'
<1>0. /\ peerState' \in [Peer -> {"DISCONNECTED", "CONNECTED", "ZOMBIE"}]
      /\ DeadLinksAreEmpty' /\ SlotsStay /\ CurrentPacketsAreTrue
      /\ inputsIn \in [Peer -> Seq(PlayerInput)]
  BY ServerPart DEF SysInv, ServerInv, TypeOK
<1>1. DOMAIN <<>> = {}
  OBVIOUS
<1>2. ASSUME NEW p \in Peer, NEW n \in DOMAIN statesIn'[p], statesIn'[p][n].is_current
      PROVE  IsMaster(p)'
  <2>1. PICK k \in DOMAIN statesIn[p] : statesIn'[p][n] = statesIn[p][k]
    BY DEF NothingArrives, OnlyOld
  <2>2. PICK i \in Slots : SlotOf(p, i) /\ ACTIVE_PLAYERS[i].is_master
    BY <1>0, <1>2, <2>1 DEF CurrentPacketsAreTrue, IsMaster
  <2>3. peerState'[p] = "CONNECTED"
    BY <1>0, <1>1, <1>2 DEF DeadLinksAreEmpty
  <2>4. QED  BY <1>0, <2>2, <2>3 DEF SlotsStay, IsMaster
<1>3. ASSUME NEW p \in Peer, NEW n \in DOMAIN inputsIn'[p], inputsIn'[p][n].id_is_current
      PROVE  InputIsTrue(p, inputsIn[p][n])'
  <2>1. PICK k \in DOMAIN inputsIn[p] : inputsIn'[p][n] = inputsIn[p][k]
    BY DEF NothingArrives, OnlyOld
  <2>2. PICK i : i = inputsIn[p][k].id
    OBVIOUS
  <2>3. i \in Slots
    <3>1. inputsIn[p] \in Seq(PlayerInput)
      BY <1>0
    <3>2. inputsIn[p][k] \in PlayerInput
      BY <3>1
    <3>3. QED  BY <2>2, <3>2, SystemAssumption
  <2>4. /\ SlotOf(p, i)
        /\ ACTIVE_PLAYERS[i].is_master => i = 0 /\ ~inputsIn[p][k].role_is_current
    BY <1>0, <1>3, <2>1, <2>2 DEF CurrentPacketsAreTrue, InputIsTrue
  <2>5. peerState'[p] = "CONNECTED"
    BY <1>0, <1>1, <1>3 DEF DeadLinksAreEmpty
  <2>6. SlotOf(p, i)' /\ ACTIVE_PLAYERS'[i].is_master = ACTIVE_PLAYERS[i].is_master
    BY <1>0, <2>3, <2>4, <2>5 DEF SlotsStay
  <2>7. QED  BY <2>1, <2>2, <2>4, <2>6 DEF InputIsTrue, SlotOf
<1>4. ASSUME NEW p \in Peer, NEW n \in DOMAIN inputsIn'[p]
      PROVE  InputIsTrue(p, inputsIn[p][n])'
  BY <1>3 DEF InputIsTrue
<1>5. QED  BY <1>2, <1>4 DEF CurrentPacketsAreTrue

\* A state sent now on the connection its role was given on is the Master's.
LEMMA StateSentIsTrue ==
  ASSUME SysInv, NEW c \in Client, NEW p \in Peer, SendState(c, p),
         StateSent(c).is_current
  PROVE  IsMaster(p)
<1> DEFINE role == tick[c].role
<1>1. role \in Beliefs(c) /\ role.is_master /\ role.given_on = CLIENT_PEER[c] /\ role \in Info
  BY DEF SendState, StateSent, IsCurrent, SysInv, SysTypeOK, Tick, TicksHaveTheirData, Beliefs
<1>2. SlotOf(p, role.id) /\ ACTIVE_PLAYERS[role.id].is_master
  BY <1>1, BeliefsMatch DEF SysInv, BeliefsMatchTheTable, SendState
<1>3. QED  BY <1>1, <1>2 DEF IsMaster, Info

\* An input sent now on the connection its id was given on names the slot of its
\* sender, and player 0 if that is the Master's.
LEMMA InputSentIsTrue ==
  ASSUME SysInv, NEW c \in Client, NEW p \in Peer, SendInput(c, p)
  PROVE  InputIsTrue(p, InputSent(c))
<1> DEFINE role == tick[c].role
           named == tick[c].named
<1>1. /\ role \in Beliefs(c) /\ ~role.is_master /\ role \in Info
      /\ named \in Beliefs(c) /\ named \in Info
  BY DEF SendInput, SysInv, SysTypeOK, Tick, TicksHaveTheirData, Beliefs
<1>2. SUFFICES ASSUME named.given_on = CLIENT_PEER[c]
               PROVE  /\ SlotOf(p, named.id)
                      /\ ACTIVE_PLAYERS[named.id].is_master =>
                           named.id = 0 /\ role.given_on # CLIENT_PEER[c]
  BY DEF InputIsTrue, InputSent, IsCurrent
<1>3. SlotOf(p, named.id)
  BY <1>1, <1>2, BeliefsMatch DEF SysInv, BeliefsMatchTheTable, SendInput
<1>4. ASSUME ACTIVE_PLAYERS[named.id].is_master PROVE named.id = 0
  BY <1>1, <1>3, <1>4 DEF SysInv, ServerInv, OneMasterAtSlotZero, SlotOf, Info
<1>5. ASSUME role.given_on = CLIENT_PEER[c] PROVE ~ACTIVE_PLAYERS[named.id].is_master
  <2>1. SlotOf(p, role.id) /\ ACTIVE_PLAYERS[role.id].is_master = role.is_master
    BY <1>1, <1>5, BeliefsMatch DEF SysInv, BeliefsMatchTheTable, SendInput
  <2>2. role.id = named.id
    BY <1>1, <1>3, <2>1 DEF SysInv, ServerInv, SlotsHoldDistinctLivePeers, Info
  <2>3. QED  BY <1>1, <2>1, <2>2
<1>6. QED  BY <1>3, <1>4, <1>5

LEMMA PacketTruthKept ==
  ASSUME SysInv, [SysNext]_sysVars
  PROVE  CurrentPacketsAreTrue'
<1>0. /\ statesIn \in [Peer -> Seq(GameState)] /\ inputsIn \in [Peer -> Seq(PlayerInput)]
      /\ ServerInv /\ CurrentPacketsAreTrue
  BY DEF SysInv, ServerInv, TypeOK
<1>1. CASE NothingArrives
  BY <1>1, OldPacketsStayTrue
<1>2. CASE UNCHANGED vars
  BY <1>1, <1>2 DEF vars, arrivals, NothingArrives, OnlyOld
<1>3. ASSUME NEW p \in Peer, ServerOrLink(p) PROVE NothingArrives
  BY <1>0, <1>3, ServerTakesPackets DEF ServerOrLink, LinkOfSomebodyEnds, TimesOut
<1>4. ASSUME NEW c \in Client, NEW p \in Peer,
             Dial(c, p) \/ RequestUserInfo(c, p) \/ ReceiveUserInfo(c, p) \/ ReceiveStream(c, p)
      PROVE  NothingArrives
  BY <1>0, <1>4, ServerTakesPackets DEF Dial, RequestUserInfo, ReceiveUserInfo, ReceiveStream
<1>5. ASSUME NEW c \in Client, EndDial(c) \/ Ticking(c) \/ Restart(c),
             \A p \in Peer : ~SendState(c, p) /\ ~SendInput(c, p)
      PROVE  UNCHANGED vars
  BY <1>5 DEF EndDial, Ticking, BeginTick, ReadId, SendLost, Restart
<1>6. ASSUME NEW c \in Client, NEW p \in Peer, SendState(c, p) PROVE CurrentPacketsAreTrue'
  <2>1. UNCHANGED <<ACTIVE_PLAYERS, inputsIn>>
    BY <1>6 DEF SendState, StateArrives
  <2>2. \A q \in Peer \ {p} : statesIn'[q] = statesIn[q]
    BY <1>0, <1>6 DEF SendState, StateArrives
  <2>3. statesIn'[p] = Append(statesIn[p], StateSent(c)) /\ StateSent(c) \in GameState
    <3>1. StateSent(c) \in GameState
      BY SystemAssumption DEF StateSent, IsCurrent
    <3>2. QED  BY <1>6, <3>1 DEF SendState
  <2>4. ASSUME NEW n \in DOMAIN statesIn'[p], statesIn'[p][n].is_current PROVE IsMaster(p)
    <3>1. \/ n \in DOMAIN statesIn[p] /\ statesIn'[p][n] = statesIn[p][n]
          \/ statesIn'[p][n] = StateSent(c)
      BY <1>0, <2>3
    <3>2. CASE n \in DOMAIN statesIn[p] /\ statesIn'[p][n] = statesIn[p][n]
      BY <1>0, <2>4, <3>2 DEF CurrentPacketsAreTrue
    <3>3. CASE statesIn'[p][n] = StateSent(c)
      BY <1>6, <2>4, <3>3, StateSentIsTrue
    <3>4. QED  BY <3>1, <3>2, <3>3
  <2>5. ASSUME NEW q \in Peer, NEW n \in DOMAIN statesIn'[q], statesIn'[q][n].is_current
        PROVE  IsMaster(q)'
    <3>1. IsMaster(q)
      BY <1>0, <2>2, <2>4, <2>5 DEF CurrentPacketsAreTrue
    <3>2. QED  BY <2>1, <3>1 DEF IsMaster, SlotOf
  <2>6. QED  BY <1>0, <2>1, <2>5 DEF CurrentPacketsAreTrue, InputIsTrue, SlotOf
<1>7. ASSUME NEW c \in Client, NEW p \in Peer, SendInput(c, p) PROVE CurrentPacketsAreTrue'
  <2>1. UNCHANGED <<ACTIVE_PLAYERS, statesIn>>
    BY <1>7 DEF SendInput, InputArrives
  <2>2. \A q \in Peer \ {p} : inputsIn'[q] = inputsIn[q]
    BY <1>0, <1>7 DEF SendInput, InputArrives
  <2>3. inputsIn'[p] = Append(inputsIn[p], InputSent(c)) /\ InputSent(c) \in PlayerInput
    <3>1. tick[c].named \in Info
      BY <1>7 DEF SendInput, SysInv, SysTypeOK, Tick, TicksHaveTheirData
    <3>2. InputSent(c) \in PlayerInput
      BY <3>1, SystemAssumption DEF InputSent, IsCurrent, Info
    <3>3. QED  BY <1>7, <3>2 DEF SendInput
  <2>4. ASSUME NEW n \in DOMAIN inputsIn'[p] PROVE InputIsTrue(p, inputsIn'[p][n])
    <3>1. \/ n \in DOMAIN inputsIn[p] /\ inputsIn'[p][n] = inputsIn[p][n]
          \/ inputsIn'[p][n] = InputSent(c)
      BY <1>0, <2>3
    <3>2. CASE n \in DOMAIN inputsIn[p] /\ inputsIn'[p][n] = inputsIn[p][n]
      BY <1>0, <2>4, <3>2 DEF CurrentPacketsAreTrue
    <3>3. CASE inputsIn'[p][n] = InputSent(c)
      BY <1>7, <2>3, <2>4, <3>3, InputSentIsTrue
    <3>4. QED  BY <3>1, <3>2, <3>3
  <2>5. ASSUME NEW q \in Peer, NEW n \in DOMAIN inputsIn'[q]
        PROVE  InputIsTrue(q, inputsIn[q][n])'
    <3>1. InputIsTrue(q, inputsIn'[q][n])
      BY <1>0, <2>2, <2>4, <2>5 DEF CurrentPacketsAreTrue
    <3>2. QED  BY <2>1, <3>1 DEF InputIsTrue, SlotOf
  <2>6. ASSUME NEW q \in Peer, NEW n \in DOMAIN statesIn'[q], statesIn'[q][n].is_current
        PROVE  IsMaster(q)'
    BY <1>0, <2>1, <2>6 DEF CurrentPacketsAreTrue, IsMaster, SlotOf
  <2>7. QED  BY <2>5, <2>6 DEF CurrentPacketsAreTrue
<1>8. CASE UNCHANGED sysVars
  BY <1>2, <1>8 DEF sysVars
<1>9. QED
  BY <1>1, <1>2, <1>3, <1>4, <1>5, <1>6, <1>7, <1>8 DEF SysNext, NetThread

-----------------------------------------------------------------------------
(* The invariant and what it says.                                          *)

\* What a client has received it knows: the first thing received on a connection
\* is the answer, and nothing is received on a connection that is being made.
ReceivesNothing ==
  \A q \in Peer : \A n \in Nat :
    Carries(q, n)' => Carries(q, n) /\ received'[q] = received[q]

LEMMA KnownWhenNothingReceived ==
  ASSUME SysInv, ReceivesNothing, UNCHANGED <<CLIENT_PEER, dialing, MY_USER_INFO>>
  PROVE  ReceivedIsKnown'
<1>1. \A c \in Client : CLIENT_PEER[c] \in Nat /\ dialing[c] \in Nat
  BY ServerAssumption DEF SysInv, SysTypeOK
<1>2. QED  BY <1>1 DEF SysInv, ReceivedIsKnown, ReceivesNothing, Knows, IsCurrent

LEMMA ServerReceivesNothing ==
  ASSUME SysInv, NEW p \in Peer, ServerOrLink(p)
  PROVE  ReceivesNothing /\ UNCHANGED clientVars
<1>1. /\ connectID \in [Peer -> 0 .. MaxConnects] /\ received \in [Peer -> SUBSET UserInfo]
  BY DEF SysInv, ServerInv, TypeOK
<1>2. CASE HandleDisconnect(p) /\ UNCHANGED clientVars
  BY <1>1, <1>2 DEF HandleDisconnect, ReceivesNothing, Carries
<1>3. CASE /\ UNCHANGED clientVars
           /\ HandleRequest(p) \/ BroadcastState(p) \/ RelayInput(p) \/ LinkEnds(p)
  <2>1. UNCHANGED <<connectID, received>>
    BY <1>3 DEF HandleRequest, RegisterPlayer, IgnoreRequest, BroadcastState, RelayInput,
                LinkEnds, links
  <2>2. QED  BY <1>3, <2>1 DEF ReceivesNothing, Carries
<1>4. QED
  BY <1>2, <1>3 DEF ServerOrLink, ServerStep, LinkOfSomebodyEnds, TimesOut

LEMMA ReceivingIsKnowing ==
  ASSUME SysInv, NEW c \in Client, NEW p \in Peer, ReceiveUserInfo(c, p)
  PROVE  Knows(c)' /\ ReceivedIsKnown'
<1> DEFINE m == Head(critical[p])
           info == [id |-> m.id, is_master |-> m.is_master, given_on |-> CLIENT_PEER[c]]
<1>1. /\ m \in UserInfo /\ connectID[p] = CLIENT_PEER[c] /\ CLIENT_PEER[c] # 0
      /\ received' = [received EXCEPT ![p] = @ \union {m}]
      /\ UNCHANGED <<connectID, connects>>
  BY MessageReceived, ServerAssumption
<1>2. /\ received \in [Peer -> SUBSET UserInfo] /\ MY_USER_INFO \in [Client -> Info \union {NULL}]
      /\ critical[p] \in Seq(UserInfo) /\ critical[p] # <<>>
      /\ UNCHANGED <<CLIENT_PEER, dialing>> /\ dialing[c] = 0
      /\ MY_USER_INFO' = IF IsAnswer(m) THEN [MY_USER_INFO EXCEPT ![c] = info] ELSE MY_USER_INFO
  BY <1>1 DEF SysInv, SysTypeOK, ServerInv, TypeOK, ReceiveUserInfo, ClientReceivesUserInfo,
              Services, TakeInfo
<1>3. info \in Info
  <2>1. CLIENT_PEER[c] \in 1 .. MaxConnects
    BY <1>1, ServerAssumption DEF SysInv, SysTypeOK
  <2>2. QED  BY <1>1, <2>1 DEF UserInfo, Info
<1>4. info # NULL
  <2>1. info \in [id : Slots, is_master : BOOLEAN, given_on : Nat]
    BY <1>3 DEF Info
  <2>2. QED  BY <2>1, SystemAssumption
<1>5. Knows(c)'
  <2>1. CASE IsAnswer(m)
    BY <1>2, <1>4, <2>1 DEF Knows, IsCurrent
  <2>2. CASE ~IsAnswer(m)
    <3>1. 1 \in DOMAIN critical[p] /\ critical[p][1] = m
      BY <1>2
    <3>2. received[p] # {}
      BY <2>2, <3>1 DEF SysInv, ServerInv, AnswerComesFirst, IsAnswer
    <3>3. Knows(c)
      BY <1>1, <3>2 DEF SysInv, ReceivedIsKnown, Carries
    <3>4. QED  BY <1>2, <2>2, <3>3 DEF Knows, IsCurrent
  <2>3. QED  BY <2>1, <2>2
<1>6. ASSUME NEW d \in Client, d # c, Knows(d) PROVE Knows(d)'
  BY <1>2, <1>6 DEF Knows, IsCurrent
<1>7. ASSUME NEW d \in Client, NEW q \in Peer PROVE ReceivedIsKnown!(d)!(q)'
  <2>1. CASE q = p
    <3>1. connectID'[p] # dialing'[d] /\ (d # c => connectID'[p] # CLIENT_PEER'[d])
      BY <1>1, <1>2 DEF SysInv, ConnectionsHaveOneOwner
    <3>2. QED  BY <1>5, <2>1, <3>1 DEF Carries
  <2>2. CASE q # p
    <3>1. received'[q] = received[q] /\ connectID'[q] = connectID[q]
      BY <1>1, <1>2, <2>2
    <3>2. QED
      BY <1>2, <1>5, <1>6, <3>1 DEF SysInv, ReceivedIsKnown, Carries
  <2>3. QED  BY <2>1, <2>2
<1>8. QED  BY <1>5, <1>7 DEF ReceivedIsKnown

LEMMA KnowledgeKept ==
  ASSUME SysInv, [SysNext]_sysVars
  PROVE  ReceivedIsKnown'
<1>0. /\ CLIENT_PEER \in [Client -> 0 .. MaxConnects] /\ dialing \in [Client -> 0 .. MaxConnects]
      /\ connectID \in [Peer -> 0 .. MaxConnects] /\ received \in [Peer -> SUBSET UserInfo]
      /\ connects \in Nat /\ MaxConnects \in Nat /\ MY_USER_INFO \in [Client -> Info \union {NULL}]
  BY ServerAssumption DEF SysInv, SysTypeOK, ServerInv, TypeOK
<1>1. CASE UNCHANGED <<connectID, received, CLIENT_PEER, dialing, MY_USER_INFO>>
  BY <1>1, KnownWhenNothingReceived DEF ReceivesNothing, Carries
<1>2. ASSUME NEW p \in Peer, ServerOrLink(p) PROVE ReceivedIsKnown'
  BY <1>2, ServerReceivesNothing, KnownWhenNothingReceived DEF clientVars
<1>3. ASSUME NEW c \in Client, NEW p \in Peer, Dial(c, p) PROVE ReceivedIsKnown'
  <2>1. /\ connectID'[p] = connects + 1
        /\ \A q \in Peer \ {p} : connectID'[q] = connectID[q]
        /\ \A d \in Client : dialing'[d] = IF d = c THEN connects + 1 ELSE dialing[d]
        /\ UNCHANGED <<received, CLIENT_PEER, MY_USER_INFO>>
    BY <1>0, <1>3 DEF Dial, Connect
  <2>2. received[p] = {}
    <3>1. peerState[p] = "DISCONNECTED"
      BY <1>3 DEF Dial, Connect
    <3>2. \A i \in Slots : ~SlotOf(p, i)
      BY <3>1 DEF SysInv, ServerInv, SlotsHoldDistinctLivePeers, SlotOf
    <3>3. QED  BY <3>2 DEF SysInv, ServerInv, RegisteredAreAnswered, ToldTo
  <2>3. \A q \in Peer : connectID[q] <= connects
    BY DEF SysInv, ServerInv, ConnectionsAreNumbered
  <2>4. \A d \in Client : CLIENT_PEER[d] <= connects
    BY DEF SysInv, ConnectionsHaveOneOwner
  <2>5. ASSUME NEW d \in Client, NEW q \in Peer PROVE ReceivedIsKnown!(d)!(q)'
    <3>1. CASE q = p
      BY <1>0, <2>1, <2>2, <3>1 DEF Carries, Knows, IsCurrent
    <3>2. CASE q # p
      <4>1. ~(connectID[q] = connects + 1)
        BY <1>0, <2>3
      <4>2. CASE d = c
        BY <1>0, <2>1, <3>2, <4>1, <4>2 DEF Carries, Knows, IsCurrent, SysInv, ReceivedIsKnown
      <4>3. CASE d # c
        BY <1>0, <2>1, <3>2, <4>3 DEF Carries, Knows, IsCurrent, SysInv, ReceivedIsKnown
      <4>4. QED  BY <4>2, <4>3
    <3>3. QED  BY <3>1, <3>2
  <2>6. QED  BY <2>5 DEF ReceivedIsKnown
<1>4. ASSUME NEW c \in Client, EndDial(c) PROVE ReceivedIsKnown'
  <2>1. /\ UNCHANGED <<connectID, received, MY_USER_INFO>>
        /\ \A d \in Client : dialing'[d] = IF d = c THEN 0 ELSE dialing[d]
        /\ \A d \in Client : CLIENT_PEER'[d] = IF d = c THEN dialing[c] ELSE CLIENT_PEER[d]
    BY <1>0, <1>4 DEF EndDial, vars, links
  <2>2. QED  BY <1>0, <2>1 DEF SysInv, ReceivedIsKnown, Carries, Knows, IsCurrent
<1>5. ASSUME NEW c \in Client, NEW p \in Peer, ReceiveUserInfo(c, p) PROVE ReceivedIsKnown'
  BY <1>5, ReceivingIsKnowing
<1>6. ASSUME NEW c \in Client, NEW p \in Peer,
             RequestUserInfo(c, p) \/ ReceiveStream(c, p) \/ SendState(c, p) \/ SendInput(c, p)
      PROVE  UNCHANGED <<connectID, received, CLIENT_PEER, dialing, MY_USER_INFO>>
  BY <1>6 DEF RequestUserInfo, ReceiveStream, SendState, SendInput, RequestArrives,
              StateArrives, InputArrives, ClientReceivesStream, links, clientVars
<1>7. ASSUME NEW c \in Client, BeginTick(c) \/ ReadId(c) \/ SendLost(c)
      PROVE  UNCHANGED <<connectID, received, CLIENT_PEER, dialing, MY_USER_INFO>>
  BY <1>7 DEF BeginTick, ReadId, SendLost, vars, links
<1>8. ASSUME NEW c \in Client, Restart(c) PROVE ReceivedIsKnown'
  <2>1. /\ UNCHANGED <<connectID, received>>
        /\ \A d \in Client : dialing'[d] = IF d = c THEN 0 ELSE dialing[d]
        /\ \A d \in Client : CLIENT_PEER'[d] = IF d = c THEN 0 ELSE CLIENT_PEER[d]
        /\ \A d \in Client \ {c} : MY_USER_INFO'[d] = MY_USER_INFO[d]
    BY <1>0, <1>8 DEF Restart, vars, links
  <2>2. QED  BY <1>0, <2>1 DEF SysInv, ReceivedIsKnown, Carries, Knows, IsCurrent
<1>9. CASE UNCHANGED sysVars
  BY <1>1, <1>9 DEF sysVars, clientVars, vars, links
<1>10. QED
  BY <1>1, <1>2, <1>3, <1>4, <1>5, <1>6, <1>7, <1>8, <1>9 DEF SysNext, NetThread, Ticking

LEMMA SysInitEstablishesInv == SysInit => SysInv
<1> SUFFICES ASSUME SysInit PROVE SysInv
  OBVIOUS
<1>1. ServerInv
  BY InitEstablishesInv DEF SysInit
<1>2. SysTypeOK
  BY ServerAssumption DEF SysInit, SysTypeOK, NoTick, Tick
<1>3. ConnectionsHaveOneOwner
  BY DEF SysInit, Init, ConnectionsHaveOneOwner
<1>4. \A c \in Client : Beliefs(c) = {}
  BY DEF SysInit, NoTick, Beliefs
<1>5. BeliefsWereReceived
  BY <1>4 DEF BeliefsWereReceived
<1>6. TicksHaveTheirData
  BY DEF SysInit, NoTick, TicksHaveTheirData
<1>7. DeadLinksAreEmpty /\ CurrentPacketsAreTrue
  <2>1. DOMAIN <<>> = {}
    OBVIOUS
  <2>2. QED  BY <2>1 DEF SysInit, Init, DeadLinksAreEmpty, CurrentPacketsAreTrue
<1>8. ReceivedIsKnown
  BY DEF SysInit, Init, ReceivedIsKnown, Carries
<1>9. QED  BY <1>1, <1>2, <1>3, <1>5, <1>6, <1>7, <1>8 DEF SysInv

LEMMA SysNextKeepsInv == SysInv /\ [SysNext]_sysVars => SysInv'
<1> SUFFICES ASSUME SysInv, [SysNext]_sysVars PROVE SysInv'
  OBVIOUS
<1>1. ServerInv' /\ DeadLinksAreEmpty'
  BY ServerPart
<1>2. QED
  BY <1>1, SysTypeKept, OwnersKept, BeliefsReceivedKept, TickDataKept, PacketTruthKept,
     KnowledgeKept DEF SysInv

\* The invariant of the clients and the server together is inductive.
THEOREM SystemInvariance == SysSpec => []SysInv
BY SysInitEstablishesInv, SysNextKeepsInv, PTL DEF SysSpec

\* What a client was told on a connection (client.c:476-489) is what the table
\* says for as long as the server has that connection.
THEOREM BeliefsAreTrue == SysSpec => []BeliefsMatchTheTable
<1>1. SysInv => BeliefsMatchTheTable
  BY BeliefsMatch DEF SysInv
<1>2. QED  BY <1>1, SystemInvariance, PTL

\* No two clients are Master on the connections they have.
THEOREM OneMasterIsCurrent == SysSpec => []OneCurrentMaster
<1>1. SysInv => OneCurrentMaster
  BY OneOfTheMasters DEF SysInv
<1>2. QED  BY <1>1, SystemInvariance, PTL

\* A packet made from what was told on the connection it came by is true when
\* the server handles it (server.c:320-371).
THEOREM PacketsAreTrue == SysSpec => []CurrentPacketsAreTrue
<1>1. SysInv => CurrentPacketsAreTrue
  BY DEF SysInv
<1>2. QED  BY <1>1, SystemInvariance, PTL
=============================================================================
