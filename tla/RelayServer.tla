---------------------------- MODULE RelayServer ----------------------------
(***************************************************************************)
(* The relay server (src/server.c): its table of players, the handlers of  *)
(* its event loop, and the ENet host it runs on.  The clients appear as    *)
(* their packets: any connected client may send any of the three messages  *)
(* a client can send, at any time, and may vanish at any time.             *)
(*                                                                         *)
(* The server has one thread, and ENet changes the state of a peer only    *)
(* inside enet_host_service(), so a handler is one step.  Each channel     *)
(* carries one kind of message in each direction:                          *)
(*   IFB_NET_CHANNEL_CRITICAL              REQ_USER_INFO up; RES_USER_INFO  *)
(*     (reliable, ordered)                 and SLAVE_CONNECTED down        *)
(*   IFB_NET_CHANNEL_STREAM (lossy)        GAME_STATE_UPD up and down      *)
(*   IFB_NET_CHANNEL_STREAM_PUPPET_INPUTS  PLAYER_INPUT up and down        *)
(***************************************************************************)
EXTENDS Naturals, FiniteSets, Sequences

CONSTANTS Peer,                \* the ENetPeer structs of SERVER_HOST
          NULL,                \* the null ENetPeer pointer
          ACTIVE_PLAYERS_SIZE, \* slots of the player table
          GameState,           \* payloads of GAME_STATE_UPD
          PlayerInput,         \* payloads of PLAYER_INPUT
          MaxConnects,         \* bound: connections in a behaviour
          MaxRequests,         \* bound: requests of a peer waiting at the server
          StreamCapacity       \* bound: packets waiting on a lossy channel

ASSUME ServerAssumption ==
  /\ NULL \notin Peer
  /\ ACTIVE_PLAYERS_SIZE \in Nat \ {0}
  /\ MaxConnects \in Nat
  /\ MaxRequests \in Nat
  /\ StreamCapacity \in Nat

VARIABLES
  ACTIVE_PLAYERS, \* the player table, a record for each slot
  peerState,      \* ENet's state of each peer; a ZOMBIE's link has ended and
                  \* its DISCONNECT event has not been returned yet
  connectID,      \* the connection a peer struct carries, 0 when it carries none
  connects,       \* connections made so far
  requests,       \* REQ_USER_INFO packets waiting at the server, for each peer
  statesIn,       \* GAME_STATE_UPD payloads waiting at the server
  inputsIn,       \* PLAYER_INPUT payloads waiting at the server
  critical,       \* user info packets on the way to the client of each peer
  received,       \* user info packets that client has received
  statesOut,      \* GAME_STATE_UPD payloads on the way to that client
  inputsOut       \* PLAYER_INPUT payloads on the way to that client

arrivals == <<requests, statesIn, inputsIn>>
streams == <<statesOut, inputsOut>>
links == <<peerState, connectID, connects>>
vars == <<ACTIVE_PLAYERS, links, arrivals, critical, received, streams>>

Slots == 0 .. ACTIVE_PLAYERS_SIZE - 1

\* strct_active_player; its field index is 0 in every record ever registered.
Player == [peer : Peer \union {NULL}, is_exists : BOOLEAN,
           is_connected : BOOLEAN, is_master : BOOLEAN]

EmptySlot == [peer |-> NULL, is_exists |-> FALSE,
              is_connected |-> FALSE, is_master |-> FALSE]

UserInfo == [type : {"RES_USER_INFO", "SLAVE_CONNECTED"},
             id : Slots, is_master : BOOLEAN]

-----------------------------------------------------------------------------
(* The player table: the scans of server.c, over a table t.                 *)

First(S) == CHOOSE i \in S : \A j \in S : i <= j

ExistsAndConnected(t, i) == t[i].is_exists /\ t[i].is_connected

Occupied(t) == {i \in Slots : ExistsAndConnected(t, i)}

\* Mutant: no check for a repeated request.
NeverActive(t, p) == FALSE

IsPlayerActive(t, p) == \E i \in Occupied(t) : t[i].peer = p

\* Mutant: whoever is first in the table is taken for the Master.
IgnoringTheRole(t) == Occupied(t)

MasterSlots(t) == {i \in Occupied(t) : t[i].is_master}

MasterPeer(t) == t[First(MasterSlots(t))].peer

FreeSlots(t) == Slots \ Occupied(t)

\* Mutant: a client that registers while nobody is Master takes over.
TakesOverWhenMasterless(t) == MasterSlots(t) = {}

\* Mutant: the count is taken for one that includes the newcomer.
CountingTheNewcomer(t) == Cardinality(Occupied(t)) <= 1

BecomesMaster(t) == Cardinality(Occupied(t)) = 0

\* Mutant: a newcomer goes behind the others, as if nobody ever left.
BehindTheOthers(t) == Cardinality(Occupied(t))

FreeSlot(t) == First(FreeSlots(t))

SlotsOf(t, p) == {i \in Slots : t[i].is_exists /\ t[i].peer = p}

\* Mutant: the scan skips the Master, so that its slot is never freed.
RemoveOnlySlaves(t, p) ==
  LET found == {i \in SlotsOf(t, p) : ~t[i].is_master}
  IN  IF found = {} THEN t
      ELSE [t EXCEPT ![First(found)].peer = NULL,
                     ![First(found)].is_exists = FALSE]

RemovePlayer(t, p) ==
  IF SlotsOf(t, p) = {} THEN t
  ELSE [t EXCEPT ![First(SlotsOf(t, p))].peer = NULL,
                 ![First(SlotsOf(t, p))].is_exists = FALSE]

-----------------------------------------------------------------------------
(* Sending.  ENet accepts a packet exactly when the peer is connected; the   *)
(* channel number and the packet size are always within its limits here.    *)

TrySend(chan, p, m) ==
  IF peerState[p] = "CONNECTED" THEN [chan EXCEPT ![p] = Append(@, m)] ELSE chan

\* A packet on a lossy channel is queued or lost; a full queue loses it.
TrySendLossy(chan, p, m) ==
  {chan} \union (IF Len(chan[p]) < StreamCapacity THEN {TrySend(chan, p, m)} ELSE {})

\* Mutant: ids count from one.
OneBasedId(kind, i, m) == [type |-> kind, id |-> i + 1, is_master |-> m]

UserInfoMsg(kind, i, m) == [type |-> kind, id |-> i, is_master |-> m]

Answer(chan, p, i, m) == TrySend(chan, p, UserInfoMsg("RES_USER_INFO", i, m))

\* Mutant: the newcomer is told about itself, not the Master.
AnnounceToNewcomer(chan, t, i, m) ==
  IF m \/ MasterSlots(t) = {} THEN chan
  ELSE TrySend(chan, t[i].peer, UserInfoMsg("SLAVE_CONNECTED", i, m))

\* A new Slave is announced to the Master of the table t it is already in.
Announce(chan, t, i, m) ==
  IF m \/ MasterSlots(t) = {} THEN chan
  ELSE TrySend(chan, MasterPeer(t), UserInfoMsg("SLAVE_CONNECTED", i, m))

-----------------------------------------------------------------------------
(* The event handlers.                                                      *)

CanTakeRequest(p) == peerState[p] = "CONNECTED" /\ requests[p] > 0

TakeRequest(p) == requests' = [requests EXCEPT ![p] = @ - 1]

RegisterPlayer(p) ==
  /\ CanTakeRequest(p)
  /\ ~IsPlayerActive(ACTIVE_PLAYERS, p)
  /\ FreeSlots(ACTIVE_PLAYERS) # {}
  /\ TakeRequest(p)
  /\ LET i == FreeSlot(ACTIVE_PLAYERS)
         m == BecomesMaster(ACTIVE_PLAYERS)
         player == [peer |-> p, is_exists |-> TRUE,
                    is_connected |-> TRUE, is_master |-> m]
     IN  /\ ACTIVE_PLAYERS' = [ACTIVE_PLAYERS EXCEPT ![i] = player]
         /\ critical' = Announce(Answer(critical, p, i, m), ACTIVE_PLAYERS', i, m)
  /\ UNCHANGED <<links, statesIn, inputsIn, received, streams>>

\* A repeated request, and one that finds the table full, get no answer.
IgnoreRequest(p) ==
  /\ CanTakeRequest(p)
  /\ IsPlayerActive(ACTIVE_PLAYERS, p) \/ FreeSlots(ACTIVE_PLAYERS) = {}
  /\ TakeRequest(p)
  /\ UNCHANGED <<ACTIVE_PLAYERS, links, statesIn, inputsIn, critical, received, streams>>

HandleRequest(p) == RegisterPlayer(p) \/ IgnoreRequest(p)

\* The sender need not be the Master, nor be registered.
BroadcastState(p) ==
  /\ peerState[p] = "CONNECTED" /\ statesIn[p] # <<>>
  /\ statesIn' = [statesIn EXCEPT ![p] = Tail(@)]
  /\ \E reached \in SUBSET {q \in Peer : /\ peerState[q] = "CONNECTED"
                                         /\ Len(statesOut[q]) < StreamCapacity} :
       statesOut' = [q \in Peer |-> IF q \in reached
                                    THEN Append(statesOut[q], Head(statesIn[p]))
                                    ELSE statesOut[q]]
  /\ UNCHANGED <<ACTIVE_PLAYERS, links, requests, inputsIn, critical, received, inputsOut>>

RelayInput(p) ==
  /\ peerState[p] = "CONNECTED" /\ inputsIn[p] # <<>>
  /\ inputsIn' = [inputsIn EXCEPT ![p] = Tail(@)]
  /\ IF MasterSlots(ACTIVE_PLAYERS) = {} THEN UNCHANGED inputsOut
     ELSE inputsOut' \in TrySendLossy(inputsOut, MasterPeer(ACTIVE_PLAYERS),
                                      Head(inputsIn[p]))
  /\ UNCHANGED <<ACTIVE_PLAYERS, links, requests, statesIn, critical, received, statesOut>>

\* ENet resets the peer struct, for another connection to use, as it returns
\* the DISCONNECT event; what was still queued for the client is gone.
HandleDisconnect(p) ==
  /\ peerState[p] = "ZOMBIE"
  /\ ACTIVE_PLAYERS' = RemovePlayer(ACTIVE_PLAYERS, p)
  /\ peerState' = [peerState EXCEPT ![p] = "DISCONNECTED"]
  /\ connectID' = [connectID EXCEPT ![p] = 0]
  /\ critical' = [critical EXCEPT ![p] = <<>>]
  /\ received' = [received EXCEPT ![p] = {}]
  /\ statesOut' = [statesOut EXCEPT ![p] = <<>>]
  /\ inputsOut' = [inputsOut EXCEPT ![p] = <<>>]
  /\ UNCHANGED <<connects, arrivals>>

-----------------------------------------------------------------------------
(* ENet and the clients.                                                    *)

\* The CONNECT event is only logged.
Connect(p) ==
  /\ peerState[p] = "DISCONNECTED"
  /\ connects < MaxConnects
  /\ connects' = connects + 1
  /\ connectID' = [connectID EXCEPT ![p] = connects + 1]
  /\ peerState' = [peerState EXCEPT ![p] = "CONNECTED"]
  /\ UNCHANGED <<ACTIVE_PLAYERS, arrivals, critical, received, streams>>

\* The client disconnects, or ENet gives up on it.  Its arrived packets are
\* dropped at once, the server hears of it with the DISCONNECT event.
LinkEnds(p) ==
  /\ peerState[p] = "CONNECTED"
  /\ peerState' = [peerState EXCEPT ![p] = "ZOMBIE"]
  /\ requests' = [requests EXCEPT ![p] = 0]
  /\ statesIn' = [statesIn EXCEPT ![p] = <<>>]
  /\ inputsIn' = [inputsIn EXCEPT ![p] = <<>>]
  /\ UNCHANGED <<ACTIVE_PLAYERS, connectID, connects, critical, received, streams>>

RequestArrives(p) ==
  /\ peerState[p] = "CONNECTED" /\ requests[p] < MaxRequests
  /\ requests' = [requests EXCEPT ![p] = @ + 1]
  /\ UNCHANGED <<ACTIVE_PLAYERS, links, statesIn, inputsIn, critical, received, streams>>

StateArrives(p) ==
  /\ peerState[p] = "CONNECTED" /\ Len(statesIn[p]) < StreamCapacity
  /\ \E g \in GameState : statesIn' = [statesIn EXCEPT ![p] = Append(@, g)]
  /\ UNCHANGED <<ACTIVE_PLAYERS, links, requests, inputsIn, critical, received, streams>>

InputArrives(p) ==
  /\ peerState[p] = "CONNECTED" /\ Len(inputsIn[p]) < StreamCapacity
  /\ \E v \in PlayerInput : inputsIn' = [inputsIn EXCEPT ![p] = Append(@, v)]
  /\ UNCHANGED <<ACTIVE_PLAYERS, links, requests, statesIn, critical, received, streams>>

ClientReceivesUserInfo(p) ==
  /\ critical[p] # <<>>
  /\ critical' = [critical EXCEPT ![p] = Tail(@)]
  /\ received' = [received EXCEPT ![p] = @ \union {Head(critical[p])}]
  /\ UNCHANGED <<ACTIVE_PLAYERS, links, arrivals, streams>>

ClientReceivesStream(p) ==
  /\ \/ /\ statesOut[p] # <<>>
        /\ statesOut' = [statesOut EXCEPT ![p] = Tail(@)]
        /\ UNCHANGED inputsOut
     \/ /\ inputsOut[p] # <<>>
        /\ inputsOut' = [inputsOut EXCEPT ![p] = Tail(@)]
        /\ UNCHANGED statesOut
  /\ UNCHANGED <<ACTIVE_PLAYERS, links, arrivals, critical, received>>

-----------------------------------------------------------------------------
Init ==
  /\ ACTIVE_PLAYERS = [i \in Slots |-> EmptySlot]
  /\ peerState = [p \in Peer |-> "DISCONNECTED"]
  /\ connectID = [p \in Peer |-> 0]
  /\ connects = 0
  /\ requests = [p \in Peer |-> 0]
  /\ statesIn = [p \in Peer |-> <<>>]
  /\ inputsIn = [p \in Peer |-> <<>>]
  /\ critical = [p \in Peer |-> <<>>]
  /\ received = [p \in Peer |-> {}]
  /\ statesOut = [p \in Peer |-> <<>>]
  /\ inputsOut = [p \in Peer |-> <<>>]

ServerStep(p) == HandleRequest(p) \/ BroadcastState(p) \/ RelayInput(p) \/ HandleDisconnect(p)

ClientStep(p) == \/ Connect(p) \/ LinkEnds(p)
                 \/ RequestArrives(p) \/ StateArrives(p) \/ InputArrives(p)
                 \/ ClientReceivesUserInfo(p) \/ ClientReceivesStream(p)

Next == \E p \in Peer : ServerStep(p) \/ ClientStep(p)

Spec == Init /\ [][Next]_vars

\* The event loop never stops, and ENet's dispatch queue takes peers in turn:
\* a packet or an event that waits is handled.  Nothing is assumed of clients.
FairSpec == Spec /\ \A p \in Peer : /\ WF_vars(HandleRequest(p))
                                    /\ WF_vars(HandleDisconnect(p))

-----------------------------------------------------------------------------
(* Properties.                                                              *)

\* The type of every variable.
TypeOK ==
  /\ ACTIVE_PLAYERS \in [Slots -> Player]
  /\ peerState \in [Peer -> {"DISCONNECTED", "CONNECTED", "ZOMBIE"}]
  /\ connectID \in [Peer -> 0 .. MaxConnects]
  /\ connects \in 0 .. MaxConnects
  /\ requests \in [Peer -> 0 .. MaxRequests]
  /\ statesIn \in [Peer -> Seq(GameState)]
  /\ inputsIn \in [Peer -> Seq(PlayerInput)]
  /\ critical \in [Peer -> Seq(UserInfo)]
  /\ received \in [Peer -> SUBSET UserInfo]
  /\ statesOut \in [Peer -> Seq(GameState)]
  /\ inputsOut \in [Peer -> Seq(PlayerInput)]

SlotOf(p, i) == ACTIVE_PLAYERS[i].is_exists /\ ACTIVE_PLAYERS[i].peer = p

IsMaster(p) == \E i \in Slots : SlotOf(p, i) /\ ACTIVE_PLAYERS[i].is_master

ToldTo(p) == received[p] \union {critical[p][n] : n \in DOMAIN critical[p]}

\* There is at most one Master, and it holds slot 0: whatever sequence of
\* arrivals and departures led here, no Slave was given the role and no
\* newcomer got it while others were still registered.
OneMasterAtSlotZero ==
  \A i \in Slots : ACTIVE_PLAYERS[i].is_exists /\ ACTIVE_PLAYERS[i].is_master => i = 0

\* A peer holds at most one slot, and a slot never holds a peer struct that
\* ENet has reset: when another connection reuses the struct it does not
\* inherit the slot of the player who had it before.
SlotsHoldDistinctLivePeers ==
  /\ \A i \in Slots : ACTIVE_PLAYERS[i].is_exists =>
       /\ ACTIVE_PLAYERS[i].peer \in Peer
       /\ peerState[ACTIVE_PLAYERS[i].peer] # "DISCONNECTED"
  /\ \A i, j \in Slots : \A p \in Peer : SlotOf(p, i) /\ SlotOf(p, j) => i = j

\* What a client was told on its connection is what the table says now: the
\* id and role of a RES_USER_INFO are those of its slot for as long as the
\* connection lasts, and SLAVE_CONNECTED is only ever sent to the Master.
UserInfoMatchesTable ==
  \A p \in Peer : \A m \in ToldTo(p) :
    IF m.type = "RES_USER_INFO"
    THEN SlotOf(p, m.id) /\ m.is_master = ACTIVE_PLAYERS[m.id].is_master
    ELSE IsMaster(p) /\ ~m.is_master /\ m.id # 0

\* A client gets one RES_USER_INFO for a connection, before anything else on
\* that channel: a client prepares its world on learning that it is Master,
\* and a SLAVE_CONNECTED that came earlier would be thrown away.
AnswerComesFirst ==
  \A p \in Peer : \A n \in DOMAIN critical[p] :
    critical[p][n].type = "RES_USER_INFO" <=> n = 1 /\ received[p] = {}

\* A Master with a working link has been told of every Slave that is in the
\* table, those that arrived into a slot another Slave had left included.
MasterKnowsEverySlave ==
  \A p \in Peer : IsMaster(p) /\ peerState[p] = "CONNECTED" =>
    \A i \in Slots : ACTIVE_PLAYERS[i].is_exists /\ ~ACTIVE_PLAYERS[i].is_master =>
      \E m \in ToldTo(p) : m.type = "SLAVE_CONNECTED" /\ m.id = i

\* Player inputs are queued for nobody but the present Master.
InputsReachOnlyTheMaster ==
  \A p \in Peer : inputsOut[p] # <<>> => IsMaster(p)

\* What the safety properties above rest on: a connection has a number of its
\* own, a client that holds no slot has been sent nothing but game states, and
\* one that holds a slot has its RES_USER_INFO, or will find it waiting.
ConnectionsAreNumbered ==
  /\ \A p \in Peer : /\ connectID[p] = 0 <=> peerState[p] = "DISCONNECTED"
                     /\ connectID[p] <= connects
  /\ \A p, q \in Peer : connectID[p] = connectID[q] /\ connectID[p] # 0 => p = q

RegisteredAreAnswered ==
  /\ \A i \in Slots : ACTIVE_PLAYERS[i].is_exists => ACTIVE_PLAYERS[i].is_connected
  /\ \A p \in Peer : (\E i \in Slots : SlotOf(p, i)) <=> ToldTo(p) # {}

\* The inductive invariant: true at first, and kept by every step.
ServerInv ==
  /\ TypeOK
  /\ OneMasterAtSlotZero
  /\ SlotsHoldDistinctLivePeers
  /\ UserInfoMatchesTable
  /\ AnswerComesFirst
  /\ MasterKnowsEverySlave
  /\ InputsReachOnlyTheMaster
  /\ ConnectionsAreNumbered
  /\ RegisteredAreAnswered

\* The server implements the abstract session, a connection being a player.
ConnectionOf(i) == connectID[ACTIVE_PLAYERS[i].peer]

SessionMembers == {ConnectionOf(i) : i \in Occupied(ACTIVE_PLAYERS)}

SessionMaster == IF MasterSlots(ACTIVE_PLAYERS) = {} THEN 0
                 ELSE ConnectionOf(First(MasterSlots(ACTIVE_PLAYERS)))

Session == INSTANCE MasterSession WITH
  Player <- 1 .. MaxConnects,
  NoMaster <- 0,
  Capacity <- ACTIVE_PLAYERS_SIZE,
  members <- SessionMembers,
  master <- SessionMaster

ImplementsSession == Session!Spec

\* A client's link, in the terms of the table and of what its peer struct holds.
RoleGiven(p) == {role \in BOOLEAN : \E i \in Slots : SlotOf(p, i) /\ ACTIVE_PLAYERS[i].is_master = role}

RoleHeard(p) == {m.is_master : m \in {n \in received[p] : n.type = "RES_USER_INFO"}}

SlavesHeardOf(p) == {m.id : m \in {n \in received[p] : n.type = "SLAVE_CONNECTED"}}

Link(p) == INSTANCE ServerLink WITH
  SlaveId <- Slots \ {0},
  open <- peerState[p] # "DISCONNECTED",
  asked <- requests[p],
  given <- RoleGiven(p),
  told <- RoleHeard(p),
  news <- SlavesHeardOf(p),
  inputs <- Len(inputsOut[p])

LinkStep(p) == [Link(p)!Next]_(Link(p)!linkVars)

\* To each client the server keeps what a link promises, whatever other clients
\* do: a role for a request and only one, what the client hears is that role,
\* nothing is heard before it, news and inputs reach a Master only, and the
\* next connection on the same peer struct finds nothing of this one.
ImplementsLinks == (\A p \in Peer : Link(p)!Init) /\ [][\A p \in Peer : LinkStep(p)]_vars

Answered(p) == \E m \in ToldTo(p) : m.type = "RES_USER_INFO"

\* A request is answered unless, at some time from then on, the link ends or the
\* table is full.
Settled(p) == Answered(p) \/ peerState[p] # "CONNECTED" \/ FreeSlots(ACTIVE_PLAYERS) = {}

RequestsAreAnswered == \A p \in Peer : requests[p] > 0 ~> Settled(p)

HoldsNoSlot(p) == \A i \in Slots : ~SlotOf(p, i)

\* A player whose link has ended leaves the table.
GhostsAreRemoved == \A p \in Peer : peerState[p] = "ZOMBIE" ~> HoldsNoSlot(p)
=============================================================================
