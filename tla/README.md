# Event-driven master-client relay: specifications, model checking and proofs

TLA+ specifications of the relay server, the client, the world a Master keeps, the message codec and the
command queue of this repository, and of clients and server together; TLC configurations that check them on
small instances, and TLAPS proofs about them for every instance.
Source references are to the repository's files (`src/client.c`, `src/server.c`, `src/thread_safe/…`).

To check a module: `tlc -config MCRelayServer_table.cfg MCRelayServer.tla`; to prove one:
`tlapm RelayServerProofs.tla`. `PROJECT.json` lists the runs, the source lines behind each definition,
the hazards, the findings, the theorems, and for every checked property a mutation of the model that
breaks it.

## 1. The system

A *relay server* without game logic connects clients. One client is the *Master*: it owns the world, adds
the inputs of the other clients (*Slaves*) to it and broadcasts it. The server only keeps a table of players
and forwards packets.

```
   user ──> main ──push──> LOCAL_COMMANDS_SF_QUEUE ──pop──> net thread ══ENet══> server event loop
              │  try_execute_tick                            │   ^                  │ ACTIVE_PLAYERS
              v                                              v   └── ENet ──────────┘
        CURRENT_GAME_STATE, LAST_PLAYER_INPUTS, MY_USER_INFO (three mutexes)
              ^
        tick thread (try_execute_tick every frame) ── enet_peer_send on the same host
```

| Component | State | Operations | Interacts with |
|---|---|---|---|
| Relay server, `server.c` | `ACTIVE_PLAYERS[10]`: peer pointer, index, `is_exists`, `is_connected`, `is_master`; ENet's peers | one event loop: CONNECT (logged), REQ_USER_INFO, GAME_STATE_UPD, PLAYER_INPUT, DISCONNECT | clients, by packets on three channels |
| Client threads, `client.c` | `MY_USER_INFO`, `CURRENT_GAME_STATE`, `LAST_PLAYER_INPUTS` and their mutexes; `CLIENT_HOST`, `CLIENT_PEER`, `IS_DISCONNECTED`, `IS_APP_RUNNING` | commands of the user; a tick; handlers of RES_USER_INFO, SLAVE_CONNECTED, PLAYER_INPUT, GAME_STATE_UPD; connect, request, disconnect | each other by shared memory and the queue; the server by packets |
| Command queue, `thread_safe/safe_queue.c` | linked list, mutex, condition variable | push, pop (waits), try_pop | main pushes, the net thread takes |
| Send and relay layer, `protocol_msg.c`, `safe_wrappers/ifb_enet_safe.h` | none | build a packet, test the peer, send or broadcast | server and client |
| Codec, `protocol_msg.c` | none | pack and unpack each message as a MessagePack map | send layer and handlers |
| Master's world, `client.c:500-640` | positions `pos_1 .. pos_4`, tick, last inputs | a tick adds inputs to positions | client threads |
| ENet (not in the repository) | peer structs, channels, queues | connect, service, send, disconnect | server and client |

### What is hard in each, and what makes it correct

*Relay server.* It is sequential, but a long history matters: players come and go, slots and ENet's peer
structs are reused, a link ends before the server hears of it, a client repeats its request. Correct means:
at most one Master, in slot 0 (the clients' worlds tie the Master to `pos_1`); no slot inherited by the
next connection on the same peer struct; every client told the id and role the table holds, and told once,
before anything else; every Slave known to a Master that is still there; inputs for the Master only; a
request answered and a ghost removed in the end.

*Client threads.* Three threads share pointers that are tested in one critical section and used in another,
and enter ENet without a lock. Connects block the net thread for seconds, exit runs on a timer. Correct means:
mutexes are released on every path; a pointer used without a test is set; the world of a new Master exists
before news of a Slave; nothing uses a destroyed host; nothing added to the world is lost; commands are taken;
exit ends the program.

*Command queue.* Correct means: a FIFO queue whatever the interleaving, memory neither leaked nor used after
`free`, no wake-up lost.

*Clients and server together.* What a client was told lives on in `MY_USER_INFO` when the connection it was told on
is gone; a connect leaves the old connection at the server until it times out; a tick reads the role, then the id,
then sends on whatever connection there is by then. Correct means: what was told on a connection is true as long as
the server has it; one client is Master on the connection it has; a packet made from what was told on its own
connection is true when it is handled; a client that connects again learns who it is now, and its old slot is freed.

*Master's world.* Two threads tick it, a third adds Slaves to it and keeps the last input of each; inputs come over a
channel that loses some. Correct means: a player moves only by its own user's inputs; an input of the Master's user is
not counted twice; a Slave that stopped stops, though the packet that says so may be lost; sums stay 32 bits wide.

*Codec.* Integers lose their C type in MessagePack, ids are type-checked and coordinates are not, keys are built by a
loop on one side and spelt out on the other, a state is packed and unpacked twice. Correct means: what was packed is
what is unpacked, whatever its signs, and no kind of message is read from another kind's map.

## 2. Modules

| Module | Models | Kind |
|---|---|---|
| `MasterSession` | what the server promises about authority: a session with members and a Master | abstract specification |
| `ServerLink` | what the server promises one client on one connection | abstract specification |
| `RelayServer` | `server.c` with ENet's peers and channels | detailed specification |
| `MCRelayServer` | `RelayServer` with symmetric peers | for TLC |
| `RelayServerProofs` | ten theorems about `RelayServer`, two of them refinements | proofs |
| `RelaySystem` | EXTENDS `RelayServer`: the clients' connections, what they were told, and what their ticks send | composition |
| `MCRelaySystem` | `RelaySystem` with symmetric clients and peers | for TLC |
| `RelaySystemProofs` | six theorems about `RelaySystem` | proofs |
| `RelaySystemLiveness` | four theorems about what clients and server get done in the end | proofs |
| `ClientThreads` | the threads of `client.c`, the pointers and the connection | detailed specification |
| `MCClientThreads` | `ClientThreads` with two Slave ids, one of them with a place in the world | for TLC |
| `ClientThreadsProofs` | eight theorems about `ClientThreads` | proofs |
| `ClientThreadsLiveness` | two theorems about `ClientThreads`: exit ends the program, a command that waits is taken | proofs |
| `Codec` | packing and unpacking of `protocol_msg.c`, as operators | pure functions |
| `CodecProofs` | four theorems about `Codec` | proofs |
| `MasterWorld` | EXTENDS `Codec`: positions, inputs and ticks of a Master, and its Slaves | detailed specification |
| `MCMasterWorld` | `MasterWorld` with the inputs a user types | for TLC |
| `MasterWorldProofs` | six theorems about `MasterWorld` | proofs |
| `FifoQueue` | a queue whose operations are instants | abstract specification |
| `SafeQueue` | `safe_queue.c`, an access to the list at a time | detailed specification |
| `MCSafeQueue` | `SafeQueue` for its run | for TLC |
| `SafeQueueProofs` | seven theorems about `SafeQueue`, one of them the refinement, one that sleepers are served | proofs |

A definition that starts with "Mutant:" in its comment is no part of a specification: it is what the definition
after it would be with a plausible bug, and is kept to show that the properties notice.

### RelayServer and the code

| Code | Model |
|---|---|
| `ACTIVE_PLAYERS` (`server.c:14-22`) | `ACTIVE_PLAYERS`, a function on `Slots` |
| the scans `is_player_active`, `try_get_master_client`, `try_register_player`, `try_remove_player`, … (`server.c:25-138`) | operators over a table: `IsPlayerActive`, `MasterPeer`, `FreeSlot`, `BecomesMaster`, `RemovePlayer` |
| `handle_player_register` with its answer and announcement (`server.c:203-262`) | `RegisterPlayer`, `IgnoreRequest` (a repeated request, and one that finds the table full, get no answer) |
| GAME_STATE_UPD broadcast | `BroadcastState`: each connected client gets it or loses it |
| PLAYER_INPUT relay | `RelayInput` |
| DISCONNECT | `HandleDisconnect` |
| ENet | `Connect`, `LinkEnds`, the arrivals, the deliveries |

A handler is one step, because the server has one thread and ENet changes a peer's state only inside
`enet_host_service`. A peer is `CONNECTED`, then a `ZOMBIE` from the moment its link ends (sends to it fail, its
unread packets are dropped) until its DISCONNECT event is returned, then `DISCONNECTED` and free for another
connection. The critical channel is reliable and ordered; the two stream channels may lose any packet. Clients
are as wild as the protocol lets them be: any connected client may send any of the three messages at any time.
`connectID` numbers connections, so that a connection can be told from the peer struct it uses.

The refinement to `MasterSession` maps a connection number to a player: `members` are the connections in the
table and `master` the connection in the Master's slot. It states what no single invariant does: the role is given
only in an empty session and nobody inherits it.

There is a second refinement, to `ServerLink`, once for each peer struct: `Link(p)` hides the table, the other clients
and the channels, and leaves what the client at the other end can rely on. `ClientThreads` has that in place of a
server.

### ClientThreads and the code

Each thread has a `pc`. A mutex lock, the critical section under it up to the unlock, and entering and leaving an
ENet call are separate steps; everything between two of them touches only the thread's own data. The places of
`try_execute_tick` (`client.c:505-625`) are shared by main and the tick thread:

| Places | Code |
|---|---|
| `frame`, `check_info` | loop of `tick_loop_thread` |
| `read_info` | the role is read (`MTX_MY_USER_INFO`) |
| `copy_world`, `add_inputs`, `put_world`, `read_world` | the Master's tick: copy the world and add its own input, add the others' inputs, store the world, read it to send it |
| `read_id` | the Slave's tick reads its id |
| `send`, `sending` | `try_enet_peer_send`: the test of the peer, and the time inside `enet_peer_send` |
| `loop`, `service`, `pop` | `net_bg_thread` |
| `set_info`, `init_world`, `init_inputs` | RES_USER_INFO and `attempt_init_current_game_state_by_master` |
| `add_slave`, `set_input` | SLAVE_CONNECTED and PLAYER_INPUT |
| `connecting`, `request`, `requesting`, `disconnect`, `disconnecting`, `destroyed` | the queued commands |
| `prompt`, `conreg`, `sleep`, `join`, `exited` | main |

Data is abstracted to what the properties tell apart. The world is the set of Slaves it says exist and the number
of the user's own inputs in `pos_1`; `LAST_PLAYER_INPUTS` is null or allocated. The queue is the FIFO queue that
`SafeQueue` implements; only `try_pop` is used by the client. A null dereference sets `crashed`, after which nothing
happens. A second connect replaces `CLIENT_PEER` without ending the first connection, as the code does. The server
is reduced to `link`, whose steps have the guards of `ServerLink`, which the server is proved to implement:

| `ServerLink` | `ClientThreads` | Guard |
|---|---|---|
| `Open` | `ConnectToHost` | `link` begins as `NoLink`: nothing of an earlier connection is left |
| `Ask` | `Requested` | the connection is up |
| `Give` | `ServerRegisters` | a request was made and no role was given yet |
| `Tell` | `ReceiveUserInfo` | a role was given, and not told |
| `TellOfSlave` | `ReceiveSlaveConnected` | the role told is the Master's: the news comes on the same channel, after it |
| `TakeInput` | `ReceivePlayerInput` | the role given is the Master's, told or not: inputs have a channel of their own |
| `Break`, `Close` | `LinkLost` | |

`Refuse` has no counterpart: a request that is not answered stays one that may be. That the client's steps are these
is read off the table; that the server's are is `ServerImplementsLinks`.

### RelaySystem and the code

| Code | Model |
|---|---|
| `handle_cmd_connect_to_host` (`client.c:238-312`) | `Dial` when the server has the connection, `EndDial` when `CLIENT_PEER` is set; a connect that fails changes nothing |
| `handle_cmd_req_user_info` | `RequestUserInfo` |
| RES_USER_INFO handler (`client.c:341-366`) | `ReceiveUserInfo`: `MY_USER_INFO` is replaced |
| GAME_STATE_UPD and PLAYER_INPUT handlers | `ReceiveStream` |
| `try_execute_tick`, `handle_cmd_slave_tick` (`client.c:184-216, 511-625`) | `BeginTick` reads the role, `ReadId` the id, `SendState` and `SendInput` send, `SendLost` is a loss or a peer that is not connected |
| the process | `Restart` |
| ENet's timeouts | `LinkOfSomebodyEnds`, `TimesOut` |

The server is `RelayServer` unchanged: each action of the composition that has an effect at the server takes the
server's own action, and `SystemUsesTheServer` proves that the composition implements `RelayServer!Spec`, so that all
theorems about the server hold in it. A connection is its number. What a client was told carries the number of the
connection it was told on (`given_on`), a history value; a packet is abstracted to whether what it was made from was
told on the connection it is sent on, and to the id it names. A client has one ticking thread here: two of them, and
their sections, are in `ClientThreads` and `MasterWorld`; what a second one would add is another packet from the same
`MY_USER_INFO`. A client has connected to at most one server.

### MasterWorld, Codec and the code

| Code | Model |
|---|---|
| first half of a tick: copy, tick number, own input (`client.c:529-543`) | `Begin`, with `Copy` and `MovedBy`; called by `UserTick` (main) and `FrameTick` (tick thread) |
| the others' inputs (`client.c:545-560`) | `AddInputs`, with `WithOthers` |
| the store (`client.c:562-565`) | `Put` |
| the send and the counters `local_ticks`, `total_frames` | `SendUserTick` (not counted if the send failed), `SendFrame` (counted always) |
| `handle_on_slave_connected` (`client.c:139-163`) | `TakeSlaveConnected` |
| `update_games_state_by_slave_input` (`client.c:80-109`) | `TakeInput`, with `Stored` |
| registration and departure of a Slave at the server | `Join`, `Leave` |
| the Master's next registration as Master (`client.c:111-137`) | `MasterAgain`: world and last inputs are kept |
| what a Slave sends | `SlaveMove`, `SlaveFrame` |
| the packers and unpackers of `protocol_msg.c` | `PackUserInfo`, `PackPlayerInput`, `PackPlayerPos`, `PackGameState`, and the same with `Unpack` |

Three numberings meet here as they do in the code: ids (the Master is 0), the array of last inputs (the first Slave is
0 there; the model indexes it by id, as `id - 1` does), and positions from `pos_1`. A packet is a record with the type
byte and a MessagePack map; a map is a sequence of pairs. The model keeps what the code tests: a pair is passed over when
its key is unknown or an id, tick or flag has another type; a coordinate's type is not tested, and an object that is
no integer yields `JUNK`; 64 bits are cut to 32; a later pair overrides an earlier one; a missing field refuses
the whole. The position keys are compared by their first letters only, which makes no difference among the keys that
occur. `HALF` stands for 2^31, so that overflow and wrapping are reached with small numbers. Signed overflow is
undefined in C; the Makefile's build, without optimisation, wraps.

One client is Master for the whole behaviour (who is Master when is the matter of `RelaySystem`). The SLAVE_CONNECTED
channel is reliable and in order, that of the inputs holds one packet of each Slave and loses any. What a Slave's user
types is counted in the history variable `typed`.

### SafeQueue and the code

`push` is `Malloc`, `Lock`, `Link`, `SetTail`, `Signal`, `Unlock`; `pop` is `Call`, `Lock`, `Wait` as often as the
list is empty, `TakeHead`, `FreeTemp`, `Unlock`; `try_pop` answers `Empty` instead of waiting. Nodes are addresses,
reused once freed, so that a stale pointer would meet another value. Waits may end with no signal. The client uses
one producer and one `try_pop` consumer; the module checks the library for several of each, because that is what it
offers. Destruction of the queue and failure of `malloc` are left out.

The list is a value computed from the heap, not a variable: `Nodes` is the path along `next` from `head` to NULL, and
`Contents` the values on it, which is what the refinement mapping gives to `FifoQueue`.

## 3. Runs

| Run | Instance | Shows |
|---|---|---|
| `table` | 3 peers, 2 slots, 3 connections, one state, one input, stream queues of 1, symmetric | the table's invariants and `ServerInv`, through every order of connects, requests, packets, departures and reuse of slots and peer structs, with a table that is full at times; the refinement to `MasterSession` |
| `system` | 2 clients, 2 peers, 2 slots, 3 connections, symmetric | what clients were told is true as long as the server has the connection, one Master among those connected, packets true when handled, also those of a tick that an answer cut in two, `SysInv`; the refinement to `ServerLink` for each peer |
| `system_live` | 1 client, 3 peers, 2 slots, 3 connections, `FairSysSpec` | a client that connects again and again: requests are answered unless the link ends or the table is full, it learns who it is now, slots it abandoned are freed, ghosts leave the table |
| `world` | 2-bit integers, 1 Slave id, 2 registrations, 2 ticks of each thread, 1 typed input each, `FairWorldSpec` | players move by their own inputs only, no input of the Master's counts twice, packets arrive as sent, widths are kept, a Slave's player stops |
| `client` | Slave ids 1 and 2, room for 1, 2 commands, then exit, `FairSpec` | mutex discipline, pointers, world before news, live host, no way to die but the three known (`EveryDeathIsKnown`), `ClientInv`; no deadlock, and a thread is held up by a mutex only (`ThreadsCanGoOn`); commands are taken and exit terminates |
| `queue` | 2 pushers, 2 poppers, 1 try-popper, 2 values, 3 nodes, `FairSpec` | list, memory, wake-ups, `QueueInv`, refinement to `FifoQueue`, the head is taken |
| `split_brain` | as `system` | *violated:* see 3.2 |
| `enet_race`, `exit_wait`, `exit_without_peer`, `null_inputs`, `lost_update` | as `client` | *violated:* see 3.2 |

The type invariants of `table`, `client`, `queue` and `system` are conjuncts of `ServerInv`, `ClientInv`, `QueueInv` and
`SysInv`.

### 3.1 Bounds

- `MaxConnects`, connections in a behaviour, is three. It lets a Master leave while a Slave stays and a newcomer
  arrive, find the table full, or take the freed slot on the peer struct that the Master had; and it lets
  a client connect again twice, or a second client become Master after the first one's connection has ended.
- `MaxRequests`, requests of one client waiting at the server, is 1. A repeated request still happens: a client may
  ask again once the first was handled.
- `StreamCapacity`, packets waiting on a lossy channel, 0 or 1. With 0 (`system_live`) the streams are off: stream
  packets never touch the table or `MY_USER_INFO`, which that run is about.
- `GameState` and `PlayerInput` hold one payload in `table`: nothing the server does depends on what a payload says. It
  does unpack a state and pack it again (`server.c:340`), which is `Shown` in `MasterWorld`. In `system` a payload
  says what the properties compare.
- `HALF` is 2 in `world`: numbers from -2 to 1, so that two moves in one direction wrap around. `MaxMoves` is 1 for each
  position: one input of a Slave is applied in every tick, and four ticks take it over the edge. `MaxTicks` is 2 for
  each of the two threads: each can be in its second tick while the other is in its first. `MaxJoins` is 2: the
  Slave's id is taken by another after it left. A Slave's moves and the Master's are "x-1": negative numbers are those
  whose MessagePack type differs. More Slaves, inputs and ticks are covered by the proofs.
- `MaxCommands`, commands typed before exit: 2 (connect, register and a tick need "conreg" and "tick").
  That is also enough for `lost_update`: a connect-and-register, and a tick with an input during one of the tick
  thread; a Slave that arrives during a tick needs the first alone.
- `Node`, addresses of the heap: three nodes allow a list of two with a third being freed or linked, and reuse at
  once.
- `ACTIVE_PLAYERS_SIZE` is 2, not 10: a Master and a Slave, and the table is full; the theorems hold for any number.

Peers and clients are symmetric in the safety runs. Nothing orders them: the server scans *slots*, and connection
numbers are values of a variable. Runs with liveness properties use no symmetry.

`CHECK_DEADLOCK FALSE` is set for the server, the system and the world: a behaviour in which all allowed connections
have been made and ended stops, because of `MaxConnects`, and a relay server with no clients is indeed quiet; the world
stops when its bounds are used up. The client's and the
queue's runs do check deadlock; the client's next-state relation lets only a program that is over stay as it is.

### 3.2 Findings: what the documentation and the comments say, and the code does not do

Each of these runs checks one statement, and TLC finds a behaviour of the code that breaks it.

- `split_brain`: the Master "broadcasts the updated state", other clients "send only their input commands"
  (README.md:22-27). The server broadcasts any GAME_STATE_UPD, and a client that connects again without registering
  still has its `MY_USER_INFO`: a former Master's states go out beside those of the present one. `CurrentPacketsAreTrue`
  says where the limit is: a state made from what was told on the present connection is the Master's. It holds for
  inputs too, even when an answer comes between the section that reads the role and the one that reads the id: the
  worst such a tick sends is an input of player 0 by a new Master, which the Master's world takes for nobody.
- `enet_race`: "Race conditions when working with ENet are eliminated" (README.md:96). The tick thread and main call
  `enet_peer_send` with no lock while the net thread is in `enet_host_service` on the same host.
- `exit_wait`: main "waits until the disconnect command is processed" (client.c:824). It sleeps one second; a connect
  before it in the queue waits up to three for an event after the one that connected it, and the net thread ends with the disconnect still queued.
- `exit_without_peer`: `exit` is offered from the first prompt (client.c:736); without a connection its handler gives
  ENet null pointers.
- `null_inputs`: a tick "gathers the others' inputs" (client.c:545); between the section that creates the world and
  the one that allocates the inputs it reads through NULL.
- `lost_update`: a tick copies the world and stores it in two critical sections; in between another tick may add the
  user's input, or the net thread a Slave, and the store erases it (client.c:528, 537, 563).

README.md:21 says that the first *connected* client becomes the Master; the role goes to the first whose *request* is
handled while nobody is registered. The server's order of events is the code's reading of that sentence and no run is
spent on it.

### 3.3 Fairness

- *Server.* `FairSpec` has weak fairness of the handling of a waiting request and of a waiting DISCONNECT event, for
  each peer. The loop never blocks outside `enet_host_service`, which returns events from a queue in turn; nothing is
  assumed of the clients, which may disappear or stay silent.
- *System.* `FairSysSpec` has the same of the server. A net thread that has a user info waiting takes it, and comes
  back from a connect: both end by themselves, the connect after its timeout. A connection that no client
  services times out at the server: ENet drops a peer that does not answer its pings. Nothing makes a client connect,
  request, tick, or stay.
- *World.* `FairWorldSpec` has weak fairness of `InputIsTaken`: the Master's net thread takes what has arrived.
  And of `SlaveFrame`: a Slave's tick thread sends an input of zero every frame, about thirty a second, and of those not all
  are lost. `MoverStops` asks for no more, and excludes a Slave that has left.
- *Client.* Weak fairness of each thread's steps: the scheduler runs every thread. Strong fairness of taking a mutex:
  the other threads keep giving it back, and each sleeps a frame between two uses, so none is overtaken for ever.
  Nothing is assumed of the user: typing is not fair, only a tick once begun and what follows "exit" are.
  No fairness of the server either, so `CommandsAreExecuted` and `ExitTerminates` hold with a silent server.
  A process that has died owes nothing.
- *Queue.* A call once begun goes on; the lock is strongly fair for the same reason. Nobody has to call, and no wait
  has to end without a signal, so `HeadIsTaken` rests on `Signal` alone.

## 4. Proofs

### RelayServerProofs

Assumption: `ServerAssumption` (the null pointer is no peer; the table has at least one slot; the bounds are
naturals). Nothing is assumed about how many peers there are, or whether they are finitely many.

`ServerInvariance` proves `Spec => []ServerInv`, and every safety property of the runs follows. The invariants are
not inductive one by one:

- that a slot's player was told the truth (`UserInfoMatchesTable`) needs that a peer has one slot
  (`SlotsHoldDistinctLivePeers`), or freeing one slot could leave the other with another role;
- that a Master knows every Slave needs that a Slave is announced to the *one* Master, so `OneMasterAtSlotZero`;
- that an answer comes first needs that a client without a slot has been sent nothing (`RegisteredAreAnswered`), or a
  registration could put its answer behind something;
- that the scan for the Master, which asks for `is_connected` as well, finds the one that exists needs the other half
  of `RegisteredAreAnswered`;
- the refinement needs that two live peers never share a connection number (`ConnectionsAreNumbered`).

The proof has one lemma for each action, over lemmas about the scans: `LeastExists` (from the well-foundedness of `<`)
gives `FirstIsLeast`, which makes `First` of a nonempty set of slots a member of it. `ServerImplementsSession` proves that
the initial state maps to an empty session and that every step maps to `Join`, `Leave` or a stutter. The cardinality
facts (a free slot means fewer members than `Capacity`) come from the surjection of occupied slots onto members.

`ServerImplementsLinks` proves the same for each `Link(p)`: a handler for one client is a step of that client's link and
a stutter of every other, the input relayed to the Master excepted, which is a step of the Master's. It needs `LinkInv`:
a request does not outlive its link, so that the next connection on the peer struct has asked for nothing, and who has
received anything has received its answer, which the order of the channel alone (`AnswerComesFirst`) does not say once
the answer is out of it.

### ClientThreadsProofs

Assumption: `ClientAssumption` (Slave ids are positive; the world has room for some of them; null pointers and thread
names differ from the values they are compared with).

`ClientInvariance` proves `Spec => []ClientInv`. The pointer properties are consequences of facts that span several
critical sections: a tick past its copy still finds a world because nobody takes a world away (`TickHasItsData`); a
packet for a Master finds its data because the net thread, which handles it, is the thread that prepared them
(`MasterIsPrepared`), also when a PLAYER_INPUT overtakes the answer, since the handler then looks at `MY_USER_INFO`; the
host is live because the thread that frees it forgets it before its loop goes on (`FreedHostIsForgotten`).
`PointerSafety` is about three of the four dereferences without a test: the fourth is the finding of `null_inputs`.

`EveryDeathIsKnown` (theorem `DeathsAreKnown`) is about the process as a whole: every step at which the model lets it
die is one of three, the findings `exit_without_peer` and `null_inputs`, and the tick thread's send on a host that "exit"
has destroyed, a consequence of `enet_race`. `DeathsHaveACause` makes that inductive: where there is a world there are
inputs, but for the instant between two sections of the net thread, and no peer is forgotten before "exit".

`DisconnectComesLast` (theorem `NothingFollowsExit`) says what an exit leaves behind, which the run checks as a part of `ClientInv`:
"exit" is the last thing typed, its disconnect the last command of the queue, no host is taken down before, and main, which
only sleeps and joins from then on, never sends on a peer that is gone. The use after free that is left (`Sent`) is the
tick thread's alone. Liveness needs it too: a client with a command in the queue is not one that has disconnected.

The proofs about places (`pc`), data types, mutexes and the strengthening parts are separate lemmas, one case
for each action.

### RelaySystemProofs

Assumptions: `ServerAssumption` and `SystemAssumption` (the shape of the abstract payloads; the null pointer is no
user info). Any number of clients, peers, slots and connections.

`StepOfTheServer` shows that every step is a step of `RelayServer` or leaves its variables alone, so `ServerInv` is
inherited, and with it the links (`SystemImplementsLinks`). On top of it `SysInv` needs:

- `ConnectionsHaveOneOwner`: no two clients share a connection number, or "Master on the connection it has" could
  be true of two clients for one slot;
- `BeliefsWereReceived`: what a client believes is in `received` of that connection. With `UserInfoMatchesTable` of the
  server this gives `BeliefsMatchTheTable`, and it is inductive where the latter is not: numbers are never used twice
  (`NumbersMoveOn`), so a stale belief can never match a new connection;
- `TicksHaveTheirData`: a tick that is about to send an input read the role of a Slave. If it was told that on the same
  connection as its id, both are of one slot (`SlotsHoldDistinctLivePeers`); if not, and the id is a Master's, it is 0
  (`OneMasterAtSlotZero`);
- `DeadLinksAreEmpty`: packets of an ended link are gone. A packet that waits therefore has a live link behind it, and
  `SlotsStay` (a slot stays with its player while the link is there) keeps it true until it is handled;
- `ReceivedIsKnown`: a client that was told something on the connection it has knows it. The liveness of registration
  needs it: an answer that was received is not forgotten.

### CodecProofs and MasterWorldProofs

Assumptions: `CodecAssumption` (`HALF` is positive, `JUNK` is an integer), `WorldAssumption` (ids of Slaves have a
place in the world and fit an id; what a user types is one of the five ticks; `REFUSED` is not a value). The round trips
are proved for every value of the fields and every width; each field is found because one pair has its key and passes
its test. `OtherKindsAreRefused` is about all four structures, the position inside a state included: of the twelve ways to
read one from the map of another, each misses a key it cannot do without.

`WorldInvariance` proves `WorldSpec => []WorldInv`, arranged as `Parts`. `WorldInv` joins what the run checks one by one
to what a proof needs beside it. That a player moves by its own inputs only is
not inductive alone: an input could be on its way that nobody typed, so `InputsWereTyped` says what the channels hold.
A world, a copy of it in a tick and the copies of both threads are all `Within` what was typed; `CopyWithin` and
`WithOthersWithin` say that the two halves of a tick keep that, and `StepOfOne` that a sum which wraps around does not
come out further from zero than one more. `PacketsArriveAsSent` follows from the round trips. `OneInputWaits`, that a
channel holds at most one input, is what makes a taken input leave the channel empty for the next.

### SafeQueueProofs

Assumption: `QueueAssumption` (the kinds of threads are disjoint, NULL is no node and no value, threads and heap are
finite). Any number of pushers, poppers and nodes.

`QueueInvariance` proves `Spec => []QueueInv`, where `QueueInv` is types, control and list:

- `ControlInv`: the mutex has one holder, and which node a thread has in hand follows from where it is;
- `ListInv`: the pointers from `head` run along one path that ends, each allocated node is on the path once or in the
  hands of one thread (`NodesAreOwned`), and `tail` is the end of the path, or where `TailInv` says it is while a push
  or a pop is half done. That `head` never points to freed memory is not inductive without it: the node after the head
  must be another one, and must not be in the hands of a thread that frees it.

Facts about a walk need induction. The library's induction theorems take an operator and cannot be used; `SetInduction`
derives induction for a *set* of naturals from the well-foundedness of `<`, whose theorem takes a set. With it
`ListIsUnique` shows that a heap has one list from a node, so that `LinkAppends` and `TakeHeadPops` can say what a step
does to `Nodes`, and every other step leaves it alone (`SameList`). `NoWakeUpLost` counts the threads awake over that.
`ListImplementsFifo` maps `Link` to `Put`, `TakeHead` to `Take`, `AnswerEmpty` to `FindEmpty`, a consumer's `Unlock` to
`Leave`, and every other step to a stutter.

### What happens in the end

Eight liveness properties are proved for every value of the constants:

| Theorem | Property | Hypothesis |
|---|---|---|
| `GhostsLeaveTheTable`, `RequestsGetAnswers`, `AbandonedSlotsGetFree`, `ClientsGetToKnow` | `GhostsAreRemoved`, `RequestsAreAnswered`, `AbandonedSlotsAreFreed`, `RegistrationCompletes` | `ServedSysSpec` |
| `MoversComeToRest` | `MoverStops` | `ServedWorldSpec`, `TypingEnds` |
| `SleepersAreServed` | `HeadIsTaken` | `ServedSpec` |
| `ExitEndsTheClient` | `ExitTerminates` | `FairSpec`, `[]ThreadsCanGoOn` |
| `CommandsGetTaken` | `CommandsAreTaken` | `FairSpec`, `[]ThreadsCanGoOn` |

Fairness of a step gives the step where it is `ENABLED`, and TLAPS proves nothing about `ENABLED`. The fairness of the
first six theorems is therefore that of 3.3 with the guard of each step written in the place of its `ENABLED`
(`ServedSysSpec` for `FairSysSpec`, and so on): a request that waits, a DISCONNECT event to return, a connection nobody
has, an answer that has come; an input on its way; a thread inside its critical section, or before a free mutex. The
runs check the same properties under `WF` and `SF`; the two forms differ in nothing else, and that a handler has a
case for whatever fulfils its guard can be read off the actions. The guards of a client's thread are spread over many
places of its program, so there the theorems keep `FairSpec` and take for a hypothesis that a thread which is not at a
mutex of another has a step (`ThreadsCanGoOn`). TLC checks that as an invariant of the run that checks the property
(for `CommandsAreTaken`, the stronger `CommandsAreExecuted`).

`TypingEnds` says that the user of each Slave types for the last time once. In the run `MaxMoves` sees to it;
without it `MoverStops` is false, as every input of zero may be lost while every move arrives.

- *Ghosts, requests, abandoned slots, registration.* What is waited for stays true until it is handled (a zombie keeps
  its slot, a request waits, an abandoned connection is not taken up again), and each handler's step ends it. A slot
  that was abandoned goes through two waits, the timeout and the DISCONNECT event. A request is answered because a
  registration puts its answer in the channel of that very connection, which is in order and loses nothing.
- *A Slave's player* stops in two rounds: an input that is on its way is taken, then one of zero is sent, and what is in
  the channel until the user types again can only be zero.
- *Exit.* `Rank` says how many steps a thread is from its end once `IS_APP_RUNNING` is false. Every step but a lock takes
  it down, and at a mutex the other thread, whose section ends with its next step, gives it back
  (`MutexIsGivenBack`); strong fairness of the lock does the rest. TLAPS has no induction over temporal formulas: the
  nine ranks are nine steps of `ThreadEnds`.
- *Commands.* Until then the net thread goes round by its queue: `Distance` says how far it is from `PopCommand`. It may
  have to wait for each of the three mutexes, which main has as well as the tick thread. Main is not fair at its prompt, but
  a tick it has begun goes on, and it holds a mutex only in one (`NetsMutexIsGivenBack`). A pop cannot be put off by
  a disconnect, as none comes before another command (`DisconnectComesLast`).
- *The queue.* Every critical section ends (`SectionEnds`), so the mutex is free again and again (`MutexIsFreed`), so
  whoever wants it gets it (`MutexIsTaken`). By `NoWakeUpIsLost` a sleeper beside a value has a popper that is up, which
  then takes the head, or a push that has yet to signal, which then wakes one (`SomebodyIsAtWork`).

### Only model-checked

- `ThreadsCanGoOn`, the invariant about `ENABLED`; and that `FairSysSpec`, `FairWorldSpec` and the queue's `FairSpec` imply
  their `Served…` forms is not proved either.
- `CommandsAreExecuted`, that the queue runs empty: `CommandsGetTaken` proves that its first command is taken, again and
  again. That as many are taken as there are is induction over their number, of a temporal formula, which TLAPS cannot do.
- The violated properties of 3.2 need no proof: a counterexample is one.

## 5. What is abstracted or left out

- *The Slave's picture of the world*: a Slave prints a state and keeps nothing (`client.c:165-182, 367-377`); tick numbers are
  compared by nobody, though they go back and forth between the two counters.
- *A former Master's world beside the present one's*: `RelaySystem` has several clients without positions, `MasterWorld`
  positions in the one world of a client that is Master, and later Master again. That former Masters broadcast their
  worlds too is the finding `split_brain`.
- *Bytes of messages*, and errors of msgpack-c: the codec works on MessagePack objects. Packets that arrive are those
  that some client or the server sent.
- *ENet* is external: a call is entered and left, its effects are one step. What a race inside it does is undefined; the
  model shows that the race happens, and lets a send on a freed peer succeed, fail or kill the process.
- *Send layer*: the tests of channel number and packet size, which every call passes, and allocation failures.
- *Uninitialised slots*: at start every slot points at a stack variable that is gone (`server.c:276`). The project's
  Makefile builds without optimisation and the memory reads as zero, so the model starts with an empty table.
- *Failing `malloc`*, and buffers the server forgets to free in `handle_game_state_updated_by_master`
  (`server.c:180-201`): memory exhaustion is not modelled.
- *Copying the queue's mutex and condition variable by value* (`client.c:707-710`) is undefined in POSIX and works on
  the platforms the project names; the model has one mutex.
- *End of input*: at EOF main's loop (`client.c:750-818`) spins without typing a command, which in the model is a
  user who types nothing.
- *Sleeps* are left out: every interleaving is possible, which includes those the sleeps allow. `ExitWaitsForTheDisconnect`
  would be broken by a slow thread alone; its comment says why the real delays break it too.
- `old_handle_game_state_updated_by_master` (`server.c:142-178`, marked obsolete) is never called. Wrappers for system calls and the time
  helper have no state.

## 6. Plan

Done, in this order: `MasterSession`, `RelayServer` and its proofs; `FifoQueue`, `SafeQueue` and its proofs; `ClientThreads` and its
proofs; `Codec`, `RelaySystem` and `MasterWorld` and their proofs; the liveness of system, world, client and queue; `ServerLink`. What is
left needs something that is not in this repository or in the tools:

1. `ThreadsCanGoOn`, the step from `FairSpec` to `ServedSpec`, and the last step of `CommandsAreExecuted`, once a TLAPS reasons about `ENABLED`
   and has induction over temporal formulas.
2. Several Masters' worlds in `MasterWorld`, as far as clients would show them: blocked until a text of the repository
   says what a Slave is to do with a state that is not its Master's.
