---------------------------- MODULE RelaySystem ----------------------------
(***************************************************************************)
(* The clients of src/client.c together with the server of RelayServer.    *)
(*                                                                         *)
(* A connection is known by its number.  A client holds at most one at a   *)
(* time: a connect makes another and leaves the one before to time out at  *)
(* the server.  What it was told, MY_USER_INFO, outlives the connection it *)
(* was told on, and its ticks act on it.  Of a client's threads this       *)
(* module keeps what happens on the way between MY_USER_INFO and a packet: *)
(* a tick reads the role, reads the id if it is a Slave's, and sends on    *)
(* whatever connection CLIENT_PEER is by then.                             *)
(*                                                                         *)
(* A packet of a client is abstracted to whether the role, and the id, it  *)
(* was made from were given on the connection it is sent on, and an input  *)
(* to that id.                                                             *)
(***************************************************************************)
EXTENDS RelayServer

CONSTANT Client

ASSUME SystemAssumption ==
  /\ GameState = [is_current : BOOLEAN]
  /\ PlayerInput = [id : Slots, id_is_current : BOOLEAN, role_is_current : BOOLEAN]
  /\ NULL \notin [id : Slots, is_master : BOOLEAN, given_on : Nat]

VARIABLES
  CLIENT_PEER,  \* the connection of each client, 0 for none
  dialing,      \* the one its net thread is making, 0 when it makes none
  MY_USER_INFO, \* what the client was told last, and on which connection
  tick          \* a tick of the client in progress: what it has read so far

clientVars == <<CLIENT_PEER, dialing, MY_USER_INFO, tick>>
sysVars == <<vars, clientVars>>

Info == [id : Slots, is_master : BOOLEAN, given_on : 1 .. MaxConnects]

\* Where a tick is, the user info it took its role from and the one it took its
\* id from.
Tick == [at : {"none", "read_id", "send_state", "send_input"},
         role : Info \union {NULL}, named : Info \union {NULL}]
NoTick == [at |-> "none", role |-> NULL, named |-> NULL]

\* p carries the connection n at the server.
Carries(p, n) == n # 0 /\ connectID[p] = n

\* The net thread is not inside a connect, so it services CLIENT_HOST.
Services(c, p) == dialing[c] = 0 /\ Carries(p, CLIENT_PEER[c])

-----------------------------------------------------------------------------
(* The net thread.                                                          *)

\* handle_cmd_connect_to_host, up to the moment the server has the connection.
Dial(c, p) ==
  /\ dialing[c] = 0
  /\ Connect(p)
  /\ dialing' = [dialing EXCEPT ![c] = connectID'[p]]
  /\ UNCHANGED <<CLIENT_PEER, MY_USER_INFO, tick>>

\* The rest of it.  The server has a connection only after the client's CONNECT
\* event, so CLIENT_PEER becomes the new one; the one before is never serviced
\* again, and nobody tells the server.  A connect that fails changes nothing.
EndDial(c) ==
  /\ dialing[c] # 0
  /\ dialing' = [dialing EXCEPT ![c] = 0]
  /\ CLIENT_PEER' = [CLIENT_PEER EXCEPT ![c] = dialing[c]]
  /\ UNCHANGED <<vars, MY_USER_INFO, tick>>

RequestUserInfo(c, p) ==
  /\ Services(c, p)
  /\ RequestArrives(p)
  /\ UNCHANGED clientVars

\* Mutant: every user info is taken for the client's own.
AnyUserInfo(m) == TRUE

IsAnswer(m) == m.type = "RES_USER_INFO"

\* Mutant: a client that knows its id does not look at another answer.
TakeInfoOnce(c, info) == IF MY_USER_INFO[c] = NULL THEN info ELSE MY_USER_INFO[c]

TakeInfo(c, info) == info

\* A RES_USER_INFO replaces MY_USER_INFO.  What a SLAVE_CONNECTED does to the
\* Master's world is the matter of MasterWorld.
ReceiveUserInfo(c, p) ==
  /\ Services(c, p)
  /\ ClientReceivesUserInfo(p)
  /\ LET m == Head(critical[p])
         info == [id |-> m.id, is_master |-> m.is_master, given_on |-> CLIENT_PEER[c]]
     IN  MY_USER_INFO' = IF IsAnswer(m) THEN [MY_USER_INFO EXCEPT ![c] = TakeInfo(c, info)]
                         ELSE MY_USER_INFO
  /\ UNCHANGED <<CLIENT_PEER, dialing, tick>>

\* A client shows the states it gets and puts the inputs into its world; a
\* connect swallows the event that comes after the one that connected it.
ReceiveStream(c, p) ==
  /\ Services(c, p) \/ Carries(p, dialing[c])
  /\ ClientReceivesStream(p)
  /\ UNCHANGED clientVars

-----------------------------------------------------------------------------
(* A tick, by main or by the tick thread.                                   *)

BeginTick(c) ==
  /\ tick[c].at = "none" /\ MY_USER_INFO[c] # NULL
  /\ tick' = [tick EXCEPT ![c] =
       [at |-> IF MY_USER_INFO[c].is_master THEN "send_state" ELSE "read_id",
        role |-> MY_USER_INFO[c], named |-> NULL]]
  /\ UNCHANGED <<vars, CLIENT_PEER, dialing, MY_USER_INFO>>

\* A Slave's tick reads its id in a critical section of its own.
ReadId(c) ==
  /\ tick[c].at = "read_id"
  /\ tick' = [tick EXCEPT ![c] =
       [at |-> "send_input", role |-> tick[c].role, named |-> MY_USER_INFO[c]]]
  /\ UNCHANGED <<vars, CLIENT_PEER, dialing, MY_USER_INFO>>

\* What a tick in progress sends.
IsCurrent(c, info) == info.given_on = CLIENT_PEER[c]

StateSent(c) == [is_current |-> IsCurrent(c, tick[c].role)]

InputSent(c) == [id |-> tick[c].named.id,
                 id_is_current |-> IsCurrent(c, tick[c].named),
                 role_is_current |-> IsCurrent(c, tick[c].role)]

SendState(c, p) ==
  /\ tick[c].at = "send_state"
  /\ Carries(p, CLIENT_PEER[c])
  /\ StateArrives(p) /\ statesIn'[p] = Append(statesIn[p], StateSent(c))
  /\ tick' = [tick EXCEPT ![c] = NoTick]
  /\ UNCHANGED <<CLIENT_PEER, dialing, MY_USER_INFO>>

SendInput(c, p) ==
  /\ tick[c].at = "send_input"
  /\ Carries(p, CLIENT_PEER[c])
  /\ InputArrives(p) /\ inputsIn'[p] = Append(inputsIn[p], InputSent(c))
  /\ tick' = [tick EXCEPT ![c] = NoTick]
  /\ UNCHANGED <<CLIENT_PEER, dialing, MY_USER_INFO>>

\* The packet is lost, or the peer is not connected and it is not sent.
SendLost(c) ==
  /\ tick[c].at \in {"send_state", "send_input"}
  /\ tick' = [tick EXCEPT ![c] = NoTick]
  /\ UNCHANGED <<vars, CLIENT_PEER, dialing, MY_USER_INFO>>

-----------------------------------------------------------------------------
(* The process and the links.                                               *)

\* The program ends, by "exit" or not, and is started again.  An exit ends its
\* link at once if it can (LinkEnds); otherwise the server must find out.
Restart(c) ==
  /\ CLIENT_PEER[c] # 0 \/ dialing[c] # 0
  /\ CLIENT_PEER' = [CLIENT_PEER EXCEPT ![c] = 0]
  /\ dialing' = [dialing EXCEPT ![c] = 0]
  /\ MY_USER_INFO' = [MY_USER_INFO EXCEPT ![c] = NULL]
  /\ tick' = [tick EXCEPT ![c] = NoTick]
  /\ UNCHANGED vars

\* No client has the connection that p carries.
Abandoned(p) == \A c \in Client : ~Carries(p, CLIENT_PEER[c]) /\ ~Carries(p, dialing[c])

\* A link can end at any time; one that nobody has does, in the end, because
\* ENet's pings are not answered.
LinkOfSomebodyEnds(p) == ~Abandoned(p) /\ LinkEnds(p) /\ UNCHANGED clientVars
TimesOut(p) == Abandoned(p) /\ LinkEnds(p) /\ UNCHANGED clientVars

-----------------------------------------------------------------------------
SysInit ==
  /\ Init
  /\ CLIENT_PEER = [c \in Client |-> 0]
  /\ dialing = [c \in Client |-> 0]
  /\ MY_USER_INFO = [c \in Client |-> NULL]
  /\ tick = [c \in Client |-> NoTick]

ServerOrLink(p) == (ServerStep(p) /\ UNCHANGED clientVars) \/ LinkOfSomebodyEnds(p) \/ TimesOut(p)

NetThread(c) == \/ EndDial(c)
                \/ \E p \in Peer : \/ Dial(c, p) \/ RequestUserInfo(c, p)
                                   \/ ReceiveUserInfo(c, p) \/ ReceiveStream(c, p)

Ticking(c) == \/ BeginTick(c) \/ ReadId(c) \/ SendLost(c)
              \/ \E p \in Peer : SendState(c, p) \/ SendInput(c, p)

SysNext == \/ \E p \in Peer : ServerOrLink(p)
           \/ \E c \in Client : NetThread(c) \/ Ticking(c) \/ Restart(c)

SysSpec == SysInit /\ [][SysNext]_sysVars

\* The server's event loop as in FairSpec; a net thread, which takes what has
\* arrived and returns from a connect; and ENet's timeouts.
ServerIsFair(p) == /\ WF_sysVars(HandleRequest(p) /\ UNCHANGED clientVars)
                   /\ WF_sysVars(HandleDisconnect(p) /\ UNCHANGED clientVars)
                   /\ WF_sysVars(TimesOut(p))

TakesUserInfo(c) == \E p \in Peer : ReceiveUserInfo(c, p)

ClientIsFair(c) == WF_sysVars(EndDial(c)) /\ WF_sysVars(TakesUserInfo(c))

FairSysSpec ==
  SysSpec /\ (\A p \in Peer : ServerIsFair(p)) /\ (\A c \in Client : ClientIsFair(c))

\* The same fairness with what a step waits for written out in place of its
\* ENABLED: a request or a DISCONNECT event that is there, a connection that
\* nobody has, a connect under way, an answer that has arrived.  A step that is
\* waited for from some time on without a break is taken.
PeerIsServed(p) ==
  /\ []<>~CanTakeRequest(p) \/ []<><<HandleRequest(p) /\ UNCHANGED clientVars>>_sysVars
  /\ []<>(peerState[p] # "ZOMBIE") \/ []<><<HandleDisconnect(p) /\ UNCHANGED clientVars>>_sysVars
  /\ []<>~(peerState[p] = "CONNECTED" /\ Abandoned(p)) \/ []<><<TimesOut(p)>>_sysVars

AnswerIsThere(c) == \E p \in Peer : Services(c, p) /\ critical[p] # <<>>

ClientIsServed(c) ==
  /\ []<>(dialing[c] = 0) \/ []<><<EndDial(c)>>_sysVars
  /\ []<>~AnswerIsThere(c) \/ []<><<TakesUserInfo(c)>>_sysVars

ServedSysSpec ==
  SysSpec /\ (\A p \in Peer : PeerIsServed(p)) /\ (\A c \in Client : ClientIsServed(c))

-----------------------------------------------------------------------------
(* Properties.                                                              *)

SysTypeOK ==
  /\ CLIENT_PEER \in [Client -> 0 .. MaxConnects]
  /\ dialing \in [Client -> 0 .. MaxConnects]
  /\ MY_USER_INFO \in [Client -> Info \union {NULL}]
  /\ tick \in [Client -> Tick]

\* Every user info a client acts on, or will act on in the tick it is in.
Beliefs(c) == {MY_USER_INFO[c], tick[c].role, tick[c].named} \ {NULL}

\* The id and role a client believes to have are the table's, for as long as
\* the server keeps the connection they were given on, left by the client or
\* not: through reconnects, restarts and ticks cut in two by a new answer.
BeliefsMatchTheTable ==
  \A c \in Client : \A info \in Beliefs(c) : \A p \in Peer :
    Carries(p, info.given_on) =>
      SlotOf(p, info.id) /\ ACTIVE_PLAYERS[info.id].is_master = info.is_master

\* Two clients that both believe to be Master are not both told so on the
\* connections they have: one of them is a Master of the past.
ActsAsMaster(c) ==
  /\ MY_USER_INFO[c] # NULL /\ MY_USER_INFO[c].is_master /\ IsCurrent(c, MY_USER_INFO[c])
  /\ \E p \in Peer : Carries(p, CLIENT_PEER[c])

OneCurrentMaster == \A c, d \in Client : ActsAsMaster(c) /\ ActsAsMaster(d) => c = d

\* An input with the id its sender was given on this connection names the
\* sender's slot.  A Master's is there only when its tick had taken the role from
\* an answer of before (client.c:514-526, 191), and then it names player 0, whom the
\* world of a Master takes for nobody (client.c:80-109).
InputIsTrue(p, input) ==
  input.id_is_current =>
    /\ SlotOf(p, input.id)
    /\ ACTIVE_PLAYERS[input.id].is_master => input.id = 0 /\ ~input.role_is_current

\* A packet made from what was told on the connection it came by is true when
\* the server handles it: a state is the Master's, and an input the sender's own,
\* also when a new answer came between the two sections of its tick.
CurrentPacketsAreTrue ==
  \A p \in Peer :
    /\ \A n \in DOMAIN statesIn[p] : statesIn[p][n].is_current => IsMaster(p)
    /\ \A n \in DOMAIN inputsIn[p] : InputIsTrue(p, inputsIn[p][n])

\* What they rest on: a connection number belongs to one client, and what a
\* client believes it has received on the connection it was given on.
ConnectionsHaveOneOwner ==
  /\ \A c \in Client : CLIENT_PEER[c] <= connects /\ dialing[c] <= connects
  /\ \A c, d \in Client : CLIENT_PEER[c] # 0 =>
       /\ CLIENT_PEER[c] # dialing[d]
       /\ c # d => CLIENT_PEER[c] # CLIENT_PEER[d]
  /\ \A c, d \in Client : dialing[c] # 0 /\ c # d => dialing[c] # dialing[d]

BeliefsWereReceived ==
  \A c \in Client : \A info \in Beliefs(c) :
    /\ info.given_on <= connects
    /\ \A p \in Peer : Carries(p, info.given_on) =>
         UserInfoMsg("RES_USER_INFO", info.id, info.is_master) \in received[p]

TicksHaveTheirData ==
  \A c \in Client :
    /\ tick[c].at # "none" => MY_USER_INFO[c] # NULL /\ tick[c].role # NULL
    /\ tick[c].at = "send_state" => tick[c].role.is_master
    /\ tick[c].at = "send_input" => tick[c].named # NULL /\ ~tick[c].role.is_master
    /\ tick[c].at = "read_id" => ~tick[c].role.is_master

DeadLinksAreEmpty ==
  \A p \in Peer : peerState[p] # "CONNECTED" => statesIn[p] = <<>> /\ inputsIn[p] = <<>>

\* What has been received on a client's connection is what it knows; on the
\* connection it is making it has received nothing.
Knows(c) == MY_USER_INFO[c] # NULL /\ IsCurrent(c, MY_USER_INFO[c])

ReceivedIsKnown ==
  \A c \in Client : \A p \in Peer :
    /\ received[p] # {} /\ Carries(p, CLIENT_PEER[c]) => Knows(c)
    /\ Carries(p, dialing[c]) => received[p] = {}

\* The inductive invariant, on top of the server's.
SysInv == /\ ServerInv /\ SysTypeOK /\ ConnectionsHaveOneOwner /\ BeliefsWereReceived
          /\ TicksHaveTheirData /\ DeadLinksAreEmpty /\ CurrentPacketsAreTrue
          /\ ReceivedIsKnown

\* A slot whose player left the connection without a word is freed.
AbandonedSlotsAreFreed ==
  \A i \in Slots : \A p \in Peer :
    SlotOf(p, i) /\ Abandoned(p) ~> ~SlotOf(p, i)

\* A request that has reached the server on the connection the client has, its
\* first or a later one, makes the client know who it is on that connection,
\* unless it loses or leaves the connection or the table is full.
Concluded(c, p) ==
  \/ Knows(c)
  \/ ~Carries(p, CLIENT_PEER[c]) \/ peerState[p] # "CONNECTED"
  \/ FreeSlots(ACTIVE_PLAYERS) = {}

RegistrationCompletes ==
  \A c \in Client : \A p \in Peer :
    requests[p] > 0 /\ Carries(p, CLIENT_PEER[c]) ~> Concluded(c, p)

\* The Master broadcasts the updated state, and "other clients (Slaves) send
\* only their input commands" (README.md:22-27): while one client is the
\* table's Master, no state of another is there to be broadcast to everybody.
OneAuthority ==
  \A c, d \in Client : \A p, q \in Peer :
    /\ Carries(p, CLIENT_PEER[c]) /\ statesIn[p] # <<>>
    /\ Carries(q, CLIENT_PEER[d]) /\ IsMaster(q)
    => c = d
=============================================================================
