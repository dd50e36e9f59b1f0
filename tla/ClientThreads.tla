--------------------------- MODULE ClientThreads ---------------------------
(***************************************************************************)
(* The three threads of the client (src/client.c) and what they share:     *)
(*   main  reads the user's commands, may run a tick itself, and ends the  *)
(*         program;                                                        *)
(*   net   (net_bg_thread) services ENet, handles what arrives, and        *)
(*         executes the commands main queued for it;                       *)
(*   tick  (tick_loop_thread) runs a tick with no input, over and over.    *)
(* A mutex, a read or write under it, and a call into ENet are steps of    *)
(* their own; sleeps are left out, any interleaving is possible.  The      *)
(* server appears as the connection it keeps for this client.              *)
(*                                                                         *)
(* The world is abstracted to the Slaves it says exist and the number of   *)
(* the user's own inputs that pos_1 contains; LAST_PLAYER_INPUTS to        *)
(* whether it has been allocated.                                          *)
(***************************************************************************)
EXTENDS Naturals, Sequences

CONSTANTS SlaveId,     \* ids the server gives to Slaves
          Others,      \* those the world has room for, 1 .. OTHERS_COUNT
          NULL,        \* the null pointer
          Nobody,      \* the owner of a mutex no thread holds
          MaxCommands  \* bound: commands the user types before exit

ASSUME ClientAssumption ==
  /\ SlaveId \subseteq Nat \ {0} /\ Others \subseteq SlaveId
  /\ MaxCommands \in Nat
  /\ Nobody \notin {"main", "net", "tick"}
  /\ NULL \notin {"allocated", "up", "down", "freed"}
  /\ NULL \notin [id : Nat, is_master : BOOLEAN]
  /\ NULL \notin [exists : SUBSET Others, mine : Nat]

VARIABLES
  pc,                 \* where each thread is
  owner,              \* the thread that holds each mutex
  IS_APP_RUNNING,
  commands,           \* LOCAL_COMMANDS_SF_QUEUE
  typed,              \* commands the user has typed
  MY_USER_INFO,
  CURRENT_GAME_STATE,
  LAST_PLAYER_INPUTS, \* NULL, or "allocated"
  game_state,         \* each ticking thread's own copy of the world, or NULL
  user_input,         \* the input of main's tick: 1, or 0 for none
  event,              \* the user_info or the sender's id in the packet the net
                      \* thread has in hand
  CLIENT_PEER,        \* NULL, "up", "down" (its link has ended), or "freed";
                      \* CLIENT_HOST is null exactly when it is
  IS_DISCONNECTED,
  link,               \* the server's side of the connection of CLIENT_PEER
  crashed             \* the process has died

pointers == <<MY_USER_INFO, CURRENT_GAME_STATE, LAST_PLAYER_INPUTS>>
locals == <<game_state, user_input>>
net == <<event, CLIENT_PEER, IS_DISCONNECTED, link>>
app == <<IS_APP_RUNNING, commands, typed, crashed>>
vars == <<pc, owner, app, pointers, locals, net>>

Thread == {"main", "net", "tick"}
Ticker == {"main", "tick"}
Mutex == {"MTX_MY_USER_INFO", "MTX_CURRENT_GAME_STATE", "MTX_LAST_PLAYER_INPUTS"}
Command == {"CONNECT", "REQ_USER_INFO", "DISCONNECT_N_FREE"}

\* Where a thread can be: in try_execute_tick, and in code of its own.
InTick == {"read_info", "copy_world", "add_inputs", "put_world", "read_world",
           "read_id", "send", "sending"}
Place(t) ==
  CASE t = "main" -> InTick \union {"prompt", "conreg", "sleep", "join", "exited"}
    [] t = "tick" -> InTick \union {"frame", "check_info", "ended"}
    [] t = "net"  -> {"loop", "service", "set_info", "init_world", "init_inputs",
                      "add_slave", "set_input", "pop", "connecting", "request",
                      "requesting", "disconnect", "disconnecting", "destroyed", "ended"}

Role == {[id |-> 0, is_master |-> TRUE]} \union {[id |-> k, is_master |-> FALSE] : k \in SlaveId}
World == [exists : SUBSET Others, mine : Nat]
NoLink == [requested |-> FALSE, role |-> NULL, answered |-> FALSE]
Master(info) == info # NULL /\ info.is_master

Goto(t, label) == pc' = [pc EXCEPT ![t] = label]

-----------------------------------------------------------------------------
(* Critical sections: the mutex that the section at a label is inside.      *)

InfoSection == {"check_info", "read_info", "read_id", "set_info"}
WorldSection == {"copy_world", "put_world", "read_world", "init_world", "add_slave"}
InputsSection == {"add_inputs", "init_inputs", "set_input"}
Section == InfoSection \union WorldSection \union InputsSection

Guard(label) == IF label \in InfoSection THEN "MTX_MY_USER_INFO"
                ELSE IF label \in WorldSection THEN "MTX_CURRENT_GAME_STATE"
                ELSE "MTX_LAST_PLAYER_INPUTS"

Lock(t) ==
  /\ pc[t] \in Section
  /\ owner[Guard(pc[t])] = Nobody
  /\ owner' = [owner EXCEPT ![Guard(pc[t])] = t]
  /\ UNCHANGED <<pc, app, pointers, locals, net>>

Inside(t, label) == pc[t] = label /\ owner[Guard(label)] = t

Unlock(t) == owner' = [owner EXCEPT ![Guard(pc[t])] = Nobody]

\* A section that uses a pointer without a test: through NULL the process dies.
Dereference(t, pointer, next) ==
  IF pointer = NULL
  THEN crashed' = TRUE /\ UNCHANGED <<pc, owner>>
  ELSE Unlock(t) /\ Goto(t, next) /\ UNCHANGED crashed

-----------------------------------------------------------------------------
(* try_execute_tick, by main or by the tick thread.                         *)

\* Only main's ticks carry an input.
UserInput(t) == IF t = "main" THEN user_input ELSE 0

\* Where a thread goes when its tick is over.
Return(t) == Goto(t, IF t = "main" THEN "prompt" ELSE "frame")

ReadInfo(t) ==
  /\ Inside(t, "read_info")
  /\ Unlock(t)
  /\ IF MY_USER_INFO = NULL THEN Return(t)
     ELSE Goto(t, IF MY_USER_INFO.is_master THEN "copy_world" ELSE "read_id")
  /\ UNCHANGED <<app, pointers, locals, net>>

\* Mutant: the early return leaves the mutex locked.
CopyWorldUnlockingLate(t) ==
  /\ Inside(t, "copy_world")
  /\ IF CURRENT_GAME_STATE = NULL
     THEN Return(t) /\ UNCHANGED <<game_state, owner>>
     ELSE /\ Unlock(t) /\ Goto(t, "add_inputs")
          /\ game_state' = [game_state EXCEPT ![t] =
               [CURRENT_GAME_STATE EXCEPT !.mine = @ + UserInput(t)]]
  /\ UNCHANGED <<app, pointers, user_input, net>>

CopyWorld(t) ==
  /\ Inside(t, "copy_world")
  /\ Unlock(t)
  /\ IF CURRENT_GAME_STATE = NULL
     THEN Return(t) /\ UNCHANGED game_state
     ELSE /\ Goto(t, "add_inputs")
          /\ game_state' = [game_state EXCEPT ![t] =
               [CURRENT_GAME_STATE EXCEPT !.mine = @ + UserInput(t)]]
  /\ UNCHANGED <<app, pointers, user_input, net>>

AddInputs(t) ==
  /\ Inside(t, "add_inputs")
  /\ Dereference(t, LAST_PLAYER_INPUTS, "put_world")
  /\ UNCHANGED <<IS_APP_RUNNING, commands, typed, pointers, locals, net>>

PutWorld(t) ==
  /\ Inside(t, "put_world")
  /\ Dereference(t, CURRENT_GAME_STATE, "read_world")
  /\ CURRENT_GAME_STATE' = IF CURRENT_GAME_STATE = NULL THEN NULL ELSE game_state[t]
  /\ game_state' = [game_state EXCEPT ![t] = NULL]
  /\ UNCHANGED <<IS_APP_RUNNING, commands, typed, MY_USER_INFO, LAST_PLAYER_INPUTS,
                 user_input, net>>

ReadWorld(t) ==
  /\ Inside(t, "read_world")
  /\ Unlock(t)
  /\ IF CURRENT_GAME_STATE = NULL THEN Return(t) ELSE Goto(t, "send")
  /\ UNCHANGED <<app, pointers, locals, net>>

\* handle_cmd_slave_tick
ReadId(t) ==
  /\ Inside(t, "read_id")
  /\ Dereference(t, MY_USER_INFO, "send")
  /\ UNCHANGED <<IS_APP_RUNNING, commands, typed, pointers, locals, net>>

\* GAME_STATE_UPD by a Master, PLAYER_INPUT by a Slave.  try_enet_peer_send
\* refuses a peer that is null or not connected.
Send(t) ==
  /\ pc[t] = "send"
  /\ \/ CLIENT_PEER \in {"up", "freed"} /\ Goto(t, "sending")
     \/ CLIENT_PEER # "up" /\ Return(t)
  /\ UNCHANGED <<owner, app, pointers, locals, net>>

\* enet_peer_send returns; if the peer has been freed meanwhile, it may not.
Sent(t) ==
  /\ pc[t] = "sending"
  /\ \/ Return(t) /\ UNCHANGED crashed
     \/ CLIENT_PEER \in {"freed", NULL} /\ crashed' = TRUE /\ UNCHANGED pc
  /\ UNCHANGED <<owner, IS_APP_RUNNING, commands, typed, pointers, locals, net>>

Tick(t) == \/ ReadInfo(t) \/ CopyWorld(t) \/ AddInputs(t) \/ PutWorld(t)
           \/ ReadWorld(t) \/ ReadId(t) \/ Send(t) \/ Sent(t)

\* tick_loop_thread
Frame ==
  /\ pc["tick"] = "frame"
  /\ Goto("tick", IF IS_APP_RUNNING THEN "check_info" ELSE "ended")
  /\ UNCHANGED <<owner, app, pointers, locals, net>>

CheckInfo ==
  /\ Inside("tick", "check_info")
  /\ Unlock("tick")
  /\ Goto("tick", IF MY_USER_INFO = NULL THEN "frame" ELSE "read_info")
  /\ UNCHANGED <<app, pointers, locals, net>>

-----------------------------------------------------------------------------
(* main                                                                     *)

Push(cmd) == commands' = Append(commands, cmd)

\* The user types a command; "conreg" pushes two.
TypeCommand ==
  /\ pc["main"] = "prompt"
  /\ typed < MaxCommands
  /\ typed' = typed + 1
  /\ \/ Push("CONNECT") /\ Goto("main", "prompt") /\ UNCHANGED user_input
     \/ Push("CONNECT") /\ Goto("main", "conreg") /\ UNCHANGED user_input
     \/ Push("REQ_USER_INFO") /\ Goto("main", "prompt") /\ UNCHANGED user_input
     \/ /\ Goto("main", "read_info")
        /\ user_input' \in {0, 1}
        /\ UNCHANGED commands
  /\ UNCHANGED <<owner, IS_APP_RUNNING, crashed, pointers, game_state, net>>

PushRequest ==
  /\ pc["main"] = "conreg"
  /\ Push("REQ_USER_INFO")
  /\ Goto("main", "prompt")
  /\ UNCHANGED <<owner, IS_APP_RUNNING, typed, crashed, pointers, locals, net>>

TypeExit ==
  /\ pc["main"] = "prompt"
  /\ Push("DISCONNECT_N_FREE")
  /\ Goto("main", "sleep")
  /\ UNCHANGED <<owner, IS_APP_RUNNING, typed, crashed, pointers, locals, net>>

\* The second main sleeps is over, whatever the net thread did in it.
StopThreads ==
  /\ pc["main"] = "sleep"
  /\ IS_APP_RUNNING' = FALSE
  /\ Goto("main", "join")
  /\ UNCHANGED <<owner, commands, typed, crashed, pointers, locals, net>>

\* Both threads are joined, the mutexes destroyed.
Exit ==
  /\ pc["main"] = "join"
  /\ pc["tick"] = "ended" /\ pc["net"] = "ended"
  /\ Goto("main", "exited")
  /\ UNCHANGED <<owner, app, pointers, locals, net>>

-----------------------------------------------------------------------------
(* net_bg_thread                                                            *)

\* Mutant: nothing is done before there is a connection.
NetLoopWaitingForAHost ==
  /\ pc["net"] = "loop"
  /\ Goto("net", IF ~IS_APP_RUNNING THEN "ended"
                 ELSE IF IS_DISCONNECTED \/ CLIENT_PEER = NULL THEN "loop" ELSE "service")
  /\ UNCHANGED <<owner, app, pointers, locals, net>>

\* Mutant: the sleep of a disconnected client comes before the test of
\* IS_APP_RUNNING.
NetLoopSleepingFirst ==
  /\ pc["net"] = "loop"
  /\ Goto("net", IF IS_DISCONNECTED THEN "loop"
                 ELSE IF ~IS_APP_RUNNING THEN "ended"
                 ELSE IF CLIENT_PEER # NULL THEN "service" ELSE "pop")
  /\ UNCHANGED <<owner, app, pointers, locals, net>>

NetLoop ==
  /\ pc["net"] = "loop"
  /\ Goto("net", IF ~IS_APP_RUNNING THEN "ended"
                 ELSE IF IS_DISCONNECTED THEN "loop"
                 ELSE IF CLIENT_PEER # NULL THEN "service" ELSE "pop")
  /\ UNCHANGED <<owner, app, pointers, locals, net>>

\* enet_host_service returns: with no packet, with one that changes nothing (a
\* GAME_STATE_UPD is only printed), or with one of the packets below.
ServiceNothing ==
  /\ pc["net"] = "service"
  /\ Goto("net", "pop")
  /\ UNCHANGED <<owner, app, pointers, locals, net>>

ReceiveUserInfo ==
  /\ pc["net"] = "service"
  /\ CLIENT_PEER = "up" /\ link.role # NULL /\ ~link.answered
  /\ event' = link.role
  /\ link' = [link EXCEPT !.answered = TRUE]
  /\ Goto("net", "set_info")
  /\ UNCHANGED <<owner, app, pointers, locals, CLIENT_PEER, IS_DISCONNECTED>>

\* Sent on the same channel as the RES_USER_INFO, so it comes after it.
ReceiveSlaveConnected ==
  /\ pc["net"] = "service"
  /\ CLIENT_PEER = "up" /\ Master(link.role) /\ link.answered
  /\ \E k \in SlaveId : event' = [id |-> k, is_master |-> FALSE]
  /\ Goto("net", "add_slave")
  /\ UNCHANGED <<owner, app, pointers, locals, CLIENT_PEER, IS_DISCONNECTED, link>>

\* Mutant: the handler trusts the server to have sent the input to the Master.
TrustsTheServer(info) == TRUE

TakesInputs(info) == info # NULL /\ info.is_master

\* On a channel of its own: it can overtake the RES_USER_INFO.
ReceivePlayerInput ==
  /\ pc["net"] = "service"
  /\ CLIENT_PEER = "up" /\ Master(link.role)
  /\ \E k \in SlaveId : event' = [id |-> k, is_master |-> FALSE]
  /\ Goto("net", IF TakesInputs(MY_USER_INFO) THEN "set_input" ELSE "pop")
  /\ UNCHANGED <<owner, app, pointers, locals, CLIENT_PEER, IS_DISCONNECTED, link>>

\* Mutant: a new Master leaves it to its first tick to create the world.
SetInfoOnly ==
  /\ Inside("net", "set_info")
  /\ Unlock("net")
  /\ MY_USER_INFO' = event
  /\ Goto("net", "pop")
  /\ UNCHANGED <<app, CURRENT_GAME_STATE, LAST_PLAYER_INPUTS, locals, net>>

SetInfo ==
  /\ Inside("net", "set_info")
  /\ Unlock("net")
  /\ MY_USER_INFO' = event
  /\ Goto("net", IF event.is_master THEN "init_world" ELSE "pop")
  /\ UNCHANGED <<app, CURRENT_GAME_STATE, LAST_PLAYER_INPUTS, locals, net>>

\* attempt_init_current_game_state_by_master, its two sections
InitWorld ==
  /\ Inside("net", "init_world")
  /\ Unlock("net")
  /\ CURRENT_GAME_STATE' = IF CURRENT_GAME_STATE = NULL THEN [exists |-> {}, mine |-> 0]
                           ELSE CURRENT_GAME_STATE
  /\ Goto("net", "init_inputs")
  /\ UNCHANGED <<app, MY_USER_INFO, LAST_PLAYER_INPUTS, locals, net>>

InitInputs ==
  /\ Inside("net", "init_inputs")
  /\ Unlock("net")
  /\ LAST_PLAYER_INPUTS' = "allocated"
  /\ Goto("net", "pop")
  /\ UNCHANGED <<app, MY_USER_INFO, CURRENT_GAME_STATE, locals, net>>

\* Mutant: a Slave the world has no room for is added all the same.
AddAnySlave ==
  /\ Inside("net", "add_slave")
  /\ Unlock("net")
  /\ CURRENT_GAME_STATE' =
       IF CURRENT_GAME_STATE = NULL THEN NULL
       ELSE [CURRENT_GAME_STATE EXCEPT !.exists = @ \union {event.id}]
  /\ Goto("net", "pop")
  /\ UNCHANGED <<app, MY_USER_INFO, LAST_PLAYER_INPUTS, locals, net>>

AddSlave ==
  /\ Inside("net", "add_slave")
  /\ Unlock("net")
  /\ CURRENT_GAME_STATE' =
       IF CURRENT_GAME_STATE = NULL THEN NULL
       ELSE [CURRENT_GAME_STATE EXCEPT !.exists = @ \union ({event.id} \cap Others)]
  /\ Goto("net", "pop")
  /\ UNCHANGED <<app, MY_USER_INFO, LAST_PLAYER_INPUTS, locals, net>>

SetInput ==
  /\ Inside("net", "set_input")
  /\ IF event.id \in Others THEN Dereference("net", LAST_PLAYER_INPUTS, "pop")
     ELSE Unlock("net") /\ Goto("net", "pop") /\ UNCHANGED crashed
  /\ UNCHANGED <<IS_APP_RUNNING, commands, typed, pointers, locals, net>>

PopNothing ==
  /\ pc["net"] = "pop" /\ commands = <<>>
  /\ event' = NULL
  /\ Goto("net", "loop")
  /\ UNCHANGED <<owner, app, pointers, locals, CLIENT_PEER, IS_DISCONNECTED, link>>

PopCommand ==
  /\ pc["net"] = "pop" /\ commands # <<>>
  /\ event' = NULL
  /\ commands' = Tail(commands)
  /\ \/ Head(commands) = "CONNECT" /\ Goto("net", "connecting")
     \/ Head(commands) = "REQ_USER_INFO" /\ Goto("net", "request")
     \/ Head(commands) = "DISCONNECT_N_FREE" /\ Goto("net", "disconnect")
  /\ UNCHANGED <<owner, IS_APP_RUNNING, typed, crashed, pointers, locals, CLIENT_PEER,
                 IS_DISCONNECTED, link>>

\* Mutant: the first host is destroyed before there is a second.
ConnectDestroyingTheFirst ==
  /\ pc["net"] = "connecting"
  /\ Goto("net", "loop")
  /\ \/ CLIENT_PEER' = NULL /\ UNCHANGED link
     \/ CLIENT_PEER' = "up" /\ link' = NoLink
  /\ UNCHANGED <<owner, app, pointers, locals, event, IS_DISCONNECTED>>

\* A second connection replaces the first without ending it.
ConnectToHost ==
  /\ pc["net"] = "connecting"
  /\ Goto("net", "loop")
  /\ \/ UNCHANGED <<CLIENT_PEER, link>>
     \/ CLIENT_PEER' = "up" /\ link' = NoLink
  /\ UNCHANGED <<owner, app, pointers, locals, event, IS_DISCONNECTED>>

\* Mutant: the thread waits for the connection it is to ask on.
RequestOnceConnected ==
  /\ pc["net"] = "request" /\ CLIENT_PEER = "up"
  /\ Goto("net", "requesting")
  /\ UNCHANGED <<owner, app, pointers, locals, net>>

RequestUserInfo ==
  /\ pc["net"] = "request"
  /\ Goto("net", IF CLIENT_PEER = "up" THEN "requesting" ELSE "loop")
  /\ UNCHANGED <<owner, app, pointers, locals, net>>

Requested ==
  /\ pc["net"] = "requesting"
  /\ Goto("net", "loop")
  /\ link' = IF CLIENT_PEER = "up" THEN [link EXCEPT !.requested = TRUE] ELSE link
  /\ UNCHANGED <<owner, app, pointers, locals, event, CLIENT_PEER, IS_DISCONNECTED>>

\* enet_peer_disconnect has no test of the peer: it dies on NULL.
Disconnect ==
  /\ pc["net"] = "disconnect"
  /\ IF CLIENT_PEER = NULL
     THEN crashed' = TRUE /\ UNCHANGED <<pc, CLIENT_PEER>>
     ELSE Goto("net", "disconnecting") /\ CLIENT_PEER' = "down" /\ UNCHANGED crashed
  /\ UNCHANGED <<owner, IS_APP_RUNNING, commands, typed, pointers, locals, event,
                 IS_DISCONNECTED, link>>

\* Mutant: the thread goes back to its loop with the pointers as they were.
DestroyHostOnly ==
  /\ pc["net"] = "disconnecting"
  /\ CLIENT_PEER' = "freed"
  /\ Goto("net", "loop")
  /\ UNCHANGED <<owner, app, pointers, locals, event, IS_DISCONNECTED, link>>

DestroyHost ==
  /\ pc["net"] = "disconnecting"
  /\ CLIENT_PEER' = "freed"
  /\ Goto("net", "destroyed")
  /\ UNCHANGED <<owner, app, pointers, locals, event, IS_DISCONNECTED, link>>

ForgetHost ==
  /\ pc["net"] = "destroyed"
  /\ CLIENT_PEER' = NULL /\ link' = NoLink
  /\ IS_DISCONNECTED' = TRUE
  /\ Goto("net", "loop")
  /\ UNCHANGED <<owner, app, pointers, locals, event>>

-----------------------------------------------------------------------------
(* The server and the link: Give and Break of ServerLink, as Receive... above *)
(* are its Tell, TellOfSlave and TakeInput.                                 *)

ServerRegisters ==
  /\ CLIENT_PEER = "up" /\ link.requested /\ link.role = NULL
  /\ \E r \in Role : link' = [link EXCEPT !.role = r]
  /\ UNCHANGED <<pc, owner, app, pointers, locals, event, CLIENT_PEER, IS_DISCONNECTED>>

LinkLost ==
  /\ CLIENT_PEER = "up"
  /\ CLIENT_PEER' = "down"
  /\ UNCHANGED <<pc, owner, app, pointers, locals, event, IS_DISCONNECTED, link>>

-----------------------------------------------------------------------------
Init ==
  /\ pc = [t \in Thread |-> CASE t = "main" -> "prompt"
                             [] t = "tick" -> "frame"
                             [] t = "net"  -> "loop"]
  /\ owner = [m \in Mutex |-> Nobody]
  /\ IS_APP_RUNNING = TRUE
  /\ commands = <<>>
  /\ typed = 0
  /\ MY_USER_INFO = NULL
  /\ CURRENT_GAME_STATE = NULL
  /\ LAST_PLAYER_INPUTS = NULL
  /\ game_state = [t \in Ticker |-> NULL]
  /\ user_input = 0
  /\ event = NULL
  /\ CLIENT_PEER = NULL
  /\ IS_DISCONNECTED = FALSE
  /\ link = NoLink
  /\ crashed = FALSE

MainStep == \/ Lock("main") \/ Tick("main") \/ TypeCommand \/ PushRequest
            \/ TypeExit \/ StopThreads \/ Exit

TickStep == Lock("tick") \/ Tick("tick") \/ Frame \/ CheckInfo

NetStep == \/ Lock("net") \/ NetLoop \/ ServiceNothing \/ ReceiveUserInfo
           \/ ReceiveSlaveConnected \/ ReceivePlayerInput \/ SetInfo \/ InitWorld
           \/ InitInputs \/ AddSlave \/ SetInput \/ PopNothing \/ PopCommand
           \/ ConnectToHost \/ RequestUserInfo \/ Requested \/ Disconnect
           \/ DestroyHost \/ ForgetHost

\* The program is over.
Over == crashed \/ pc["main"] = "exited"

Next == \/ ~crashed /\ (MainStep \/ TickStep \/ NetStep \/ ServerRegisters \/ LinkLost)
        \/ Over /\ UNCHANGED vars

Spec == Init /\ [][Next]_vars

\* The two threads that main has started, and waits for.
Runner == {"tick", "net"}
RunnerStep(t) == \/ t = "tick" /\ TickStep
                 \/ t = "net" /\ NetStep

\* Each thread gets to run, and none waits forever for a mutex that the others
\* keep giving back: each of them sleeps a frame between two critical sections.
\* The user need not type anything: of main's steps only a tick once begun and
\* those after "exit" are owed.
RunnerIsFair(t) == WF_vars(~crashed /\ RunnerStep(t)) /\ SF_vars(~crashed /\ Lock(t))

MainIsFair == /\ WF_vars(~crashed /\ (StopThreads \/ Exit))
              /\ WF_vars(~crashed /\ Tick("main")) /\ SF_vars(~crashed /\ Lock("main"))

FairSpec == Spec /\ (\A t \in Runner : RunnerIsFair(t)) /\ MainIsFair

-----------------------------------------------------------------------------
(* Invariants                                                               *)

PlacesOK ==
  /\ pc \in [Thread -> UNION {Place(t) : t \in Thread}]
  /\ \A t \in Thread : pc[t] \in Place(t)

DataOK ==
  /\ owner \in [Mutex -> Thread \union {Nobody}]
  /\ IS_APP_RUNNING \in BOOLEAN
  /\ commands \in Seq(Command)
  /\ typed \in 0 .. MaxCommands
  /\ MY_USER_INFO \in Role \union {NULL}
  /\ CURRENT_GAME_STATE \in World \union {NULL}
  /\ LAST_PLAYER_INPUTS \in {NULL, "allocated"}
  /\ game_state \in [Ticker -> World \union {NULL}]
  /\ user_input \in {0, 1}
  /\ event \in Role \union {NULL}
  /\ CLIENT_PEER \in {NULL, "up", "down", "freed"}
  /\ IS_DISCONNECTED \in BOOLEAN
  /\ link \in [requested : BOOLEAN, role : Role \union {NULL}, answered : BOOLEAN]
  /\ crashed \in BOOLEAN

TypeOK == PlacesOK /\ DataOK

\* A thread holds a mutex only inside its critical section, so never two at
\* once, none while it calls ENet or sleeps, and none when it has ended and the
\* mutexes are destroyed (client.c:831-834).
MutexesAreHeldInTheirSections ==
  \A m \in Mutex : owner[m] # Nobody =>
    pc[owner[m]] \in Section /\ Guard(pc[owner[m]]) = m

\* The three sections that use a pointer without a test, on what an earlier
\* section saw, find it set: a tick's world (client.c:563), a Slave's id
\* (client.c:192), the input of a Slave (client.c:87-98).
PointersOutliveTheirTests ==
  /\ \A t \in Ticker :
       /\ pc[t] = "put_world" => CURRENT_GAME_STATE # NULL
       /\ pc[t] = "read_id" => MY_USER_INFO # NULL
  /\ pc["net"] = "set_input" /\ event.id \in Others => LAST_PLAYER_INPUTS # NULL

\* When a Slave is announced the Master has a world to add it to: the error of
\* client.c:144-149 never happens.
SlaveNewsFindsAWorld == pc["net"] = "add_slave" => CURRENT_GAME_STATE # NULL

\* The net thread never gives ENet the peer or host it has destroyed.
NetThreadUsesALiveHost ==
  pc["net"] \in {"service", "request", "requesting", "disconnect"} => CLIENT_PEER # "freed"

\* What the three last ones rest on: the user_info and the world are never taken
\* away, a new Master gets its world and inputs before the net thread services
\* ENet again, and a destroyed host is forgotten before it does.
InitDone == CURRENT_GAME_STATE # NULL /\ LAST_PLAYER_INPUTS # NULL

TickHasItsData ==
  \A t \in Ticker :
    /\ pc[t] \in {"add_inputs", "put_world"} => CURRENT_GAME_STATE # NULL /\ game_state[t] # NULL
    /\ pc[t] = "read_id" => MY_USER_INFO # NULL

NetHasItsEvent == pc["net"] \in {"set_info", "add_slave", "set_input"} => event # NULL

MasterIsPrepared ==
  /\ Master(MY_USER_INFO) => InitDone \/ pc["net"] \in {"init_world", "init_inputs"}
  /\ Master(link.role) /\ link.answered =>
       \/ InitDone \/ pc["net"] \in {"init_world", "init_inputs"}
       \/ pc["net"] = "set_info" /\ event = link.role
  /\ link.answered => link.role # NULL
  /\ pc["net"] = "init_inputs" => CURRENT_GAME_STATE # NULL
  /\ pc["net"] = "set_input" => InitDone
  /\ pc["net"] = "add_slave" => InitDone

FreedHostIsForgotten == CLIENT_PEER = "freed" => pc["net"] = "destroyed"

\* exit is the last thing typed and its disconnect the last command: nothing is
\* queued behind it, no host is taken down before, and main, which only sleeps and
\* joins from then on, never sends on a peer that is gone.
ExitTyped == pc["main"] \in {"sleep", "join", "exited"}

DisconnectComesLast ==
  /\ IS_APP_RUNNING <=> pc["main"] \notin {"join", "exited"}
  /\ \A t \in Runner : pc[t] = "ended" => ~IS_APP_RUNNING
  /\ \A n \in DOMAIN commands :
       commands[n] = "DISCONNECT_N_FREE" => ExitTyped /\ n = Len(commands)
  /\ pc["net"] \in {"disconnect", "disconnecting", "destroyed"} \/ IS_DISCONNECTED =>
       ExitTyped /\ commands = <<>>
  /\ pc["main"] = "sending" => CLIENT_PEER \in {"up", "down"}

\* The program dies in three ways and no other: of exit before there was a
\* connection (client.c:223); of a Master's tick between the two sections that
\* prepare it (client.c:548, 117, 123); of a send by the tick thread on a host that
\* "exit" destroyed meanwhile (client.c:590, 232).  No overtaking packet, second
\* registration, lost link or reconnect kills it.
EveryDeathIsKnown ==
  crashed =>
    \/ pc["net"] = "disconnect" /\ CLIENT_PEER = NULL
    \/ /\ pc["net"] = "init_inputs" /\ LAST_PLAYER_INPUTS = NULL
       /\ \E t \in Ticker : pc[t] = "add_inputs"
    \/ pc["tick"] = "sending" /\ CLIENT_PEER \in {"freed", NULL} /\ ExitTyped

\* What that rests on: but for the instant between those sections there are inputs
\* where there is a world, and only exit takes a host from under the tick thread.
DeathsHaveACause ==
  /\ CURRENT_GAME_STATE # NULL /\ LAST_PLAYER_INPUTS = NULL => pc["net"] = "init_inputs"
  /\ pc["tick"] = "sending" /\ CLIENT_PEER = NULL => ExitTyped

ClientInv == /\ TypeOK /\ MutexesAreHeldInTheirSections
             /\ TickHasItsData /\ NetHasItsEvent /\ MasterIsPrepared /\ FreedHostIsForgotten
             /\ DisconnectComesLast /\ EveryDeathIsKnown /\ DeathsHaveACause

\* A thread is at a critical section whose mutex it does not hold.
Waits(t) == pc[t] \in Section /\ owner[Guard(pc[t])] # t

CanStep(t) == ENABLED <<~crashed /\ RunnerStep(t)>>_vars
CanLock(t) == ENABLED <<~crashed /\ Lock(t)>>_vars

\* A thread that runs is held up by a mutex another one has and by nothing else:
\* whatever ENet answers, whatever the other threads have done to what it reads
\* and whether there is a connection or not, it has a step.  (The net thread of
\* a client that has disconnected stays in its loop until the program ends; main
\* waits for its user when it is not in a tick.)
ThreadsCanGoOn ==
  ~crashed =>
    /\ \A t \in Runner :
         /\ /\ pc[t] # "ended" /\ ~Waits(t)
            /\ pc[t] = "loop" => ~(IS_APP_RUNNING /\ IS_DISCONNECTED)
            => CanStep(t)
         /\ Waits(t) /\ owner[Guard(pc[t])] = Nobody => CanLock(t)
    /\ pc["main"] \in InTick /\ ~Waits("main") => ENABLED <<~crashed /\ Tick("main")>>_vars
    /\ Waits("main") /\ owner[Guard(pc["main"])] = Nobody => CanLock("main")
    /\ \/ pc["main"] = "sleep"
       \/ pc["main"] = "join" /\ pc["tick"] = "ended" /\ pc["net"] = "ended"
       => ENABLED <<~crashed /\ (StopThreads \/ Exit)>>_vars

-----------------------------------------------------------------------------
(* Liveness                                                                 *)

\* Exit ends the program: neither thread keeps main from joining it.
ExitTerminates == pc["main"] = "sleep" ~> Over

\* The net thread gets to every command while the application runs.
CommandsAreExecuted == commands # <<>> ~> commands = <<>> \/ ~IS_APP_RUNNING \/ crashed

-----------------------------------------------------------------------------
(* What the documentation and the comments say, and the code does not do.   *)

\* A connect works on a new host, which no other thread knows yet.
InENet(t) == pc[t] \in {"sending", "service", "requesting", "disconnecting"}

\* "Race conditions when working with ENet are eliminated" (README.md:96): no
\* two threads are inside ENet with the same host.
OneThreadInENet == \A t, u \in Thread : InENet(t) /\ InENet(u) => t = u

\* After "exit" main waits until the disconnect command is processed
\* (client.c:824), also when it is queued behind a connect.  No scheduling
\* delay is needed to break this: main sleeps one second, and a connect waits up to
\* three for an event after the one that connected it (client.c:285-291).
ExitWaitsForTheDisconnect ==
  ~IS_APP_RUNNING /\ pc["net"] = "connecting" => IS_DISCONNECTED

\* "or type 'exit'" (client.c:736): exit is always a command of the prompt.
ExitFindsAPeer == pc["net"] = "disconnect" => CLIENT_PEER # NULL

\* A Master's tick gathers the others' inputs (client.c:545).
InputsAreAllocated ==
  \A t \in Ticker : pc[t] = "add_inputs" => LAST_PLAYER_INPUTS # NULL

\* The Master processes its own input and the others' (client.c:528), and its
\* world holds the Slaves that connected (client.c:139-163, README.md:23): what
\* has been added to the world is never taken back.
UpdatesAreNeverLost ==
  [][CURRENT_GAME_STATE # NULL =>
       /\ CURRENT_GAME_STATE.mine <= CURRENT_GAME_STATE'.mine
       /\ CURRENT_GAME_STATE.exists \subseteq CURRENT_GAME_STATE'.exists]_CURRENT_GAME_STATE
=============================================================================
