---------------------------- MODULE MasterWorld ----------------------------
(***************************************************************************)
(* The world of a Master (src/client.c) and how inputs and states travel   *)
(* as packets (Codec): the two threads that tick it, the net thread that   *)
(* puts into it what arrives, and the Slaves, whose inputs come over a     *)
(* lossy channel that the server passes through unread.                    *)
(*                                                                         *)
(* Every access of the Master's threads to CURRENT_GAME_STATE, and every   *)
(* one to LAST_PLAYER_INPUTS, is a critical section of its own and a step  *)
(* here.  A Slave's player is at the position after its id: id 1 has       *)
(* pos_2.                                                                  *)
(***************************************************************************)
EXTENDS Codec

CONSTANTS Slave,    \* the ids Slaves are registered with
          Move,     \* the inputs a user can type, "tick" included
          MaxMoves, \* bound: inputs typed for each position, "tick" not counted
          MaxJoins, \* bound: Slaves that join in a behaviour
          MaxTicks  \* bound: ticks of each thread that are counted

OTHERS == 1 .. 3
InputXY == [x : Int32, y : Int32]
Still == [x |-> 0, y |-> 0]

\* "tick", and the four ticks with a move.
TickInputs == {Still, [x |-> 1, y |-> 0], [x |-> -1, y |-> 0], [x |-> 0, y |-> 1], [x |-> 0, y |-> -1]}

ASSUME WorldAssumption ==
  /\ Slave \subseteq OTHERS /\ Slave \subseteq UInt32
  /\ Still \in Move /\ Move \subseteq TickInputs \intersect InputXY
  /\ MaxMoves \in Nat /\ MaxJoins \in Nat /\ MaxTicks \in Nat
  /\ REFUSED \notin PlayerPos /\ REFUSED \notin PlayerInput

VARIABLES
  CURRENT_GAME_STATE, \* of the Master
  LAST_PLAYER_INPUTS, \* of the Master: the last input of each other player
  ticker,       \* a tick of each of the Master's two ticking threads
  local_ticks,  \* ticks main has sent
  total_frames, \* frames of the tick thread, as far as a tick number shows
  playing,      \* the ids of the Slaves that are registered
  joins,        \* registrations of Slaves so far
  announced,    \* SLAVE_CONNECTED packets on the way to the Master
  inputs,       \* PLAYER_INPUT packets on the way to it from each Slave
  typed         \* history: inputs but "tick" typed for each position so far

slaveVars == <<playing, joins, typed>>
worldVars == <<CURRENT_GAME_STATE, LAST_PLAYER_INPUTS, ticker, local_ticks, total_frames,
               slaveVars, announced, inputs>>

Ticker == {"main", "tick_loop_thread"}

NewWorld == [tick |-> 0, pos |-> [i \in Positions |-> [is_exists |-> FALSE, x |-> 0, y |-> 0]]]

\* No tick in progress: what is left in the thread's copy is never read.
Idle == [at |-> "none", state |-> NewWorld]

-----------------------------------------------------------------------------
(* A tick of the Master: try_execute_tick.                                  *)

\* Mutant: the sum does not wrap.
Unbounded(a, b) == a + b

\* Signed overflow wraps in the build of the Makefile, which does not optimise.
Add32(a, b) == ToInt32(a + b)

MovedBy(pos, input) == [pos EXCEPT !.x = Add32(@, input.x), !.y = Add32(@, input.y)]

\* A copy of the world is taken, and the ticking thread's own input added.
Copy(w, ticks, input) ==
  [tick |-> ticks, pos |-> [w.pos EXCEPT ![1] = MovedBy([@ EXCEPT !.is_exists = TRUE], input)]]

Begin(t, ticks, input) ==
  /\ ticker[t].at = "none" /\ ticks < MaxTicks
  /\ ticker' = [ticker EXCEPT ![t] =
       [at |-> "add_inputs", state |-> Copy(CURRENT_GAME_STATE, ticks, input)]]
  /\ UNCHANGED <<CURRENT_GAME_STATE, LAST_PLAYER_INPUTS, local_ticks, total_frames,
                 playing, joins, announced, inputs>>

\* A line of standard input that is a tick.
UserTick ==
  \E move \in Move :
    /\ Begin("main", local_ticks, move)
    /\ \/ move = Still /\ UNCHANGED typed
       \/ /\ move # Still /\ typed[1] < MaxMoves
          /\ typed' = [typed EXCEPT ![1] = @ + 1]

\* Mutant: a frame repeats an input of the user, as a Slave's is repeated.
RepeatingTheUser == IF typed[1] = 0 THEN Still ELSE CHOOSE move \in Move : move # Still

FrameInput == Still

FrameTick == Begin("tick_loop_thread", total_frames, FrameInput) /\ UNCHANGED typed

\* The last input of every other player is added, whether it is there or not.
WithOthers(w) ==
  [w EXCEPT !.pos = [i \in Positions |->
     IF i = 1 THEN @[1] ELSE MovedBy(@[i], LAST_PLAYER_INPUTS[i - 1])]]

AddInputs(t) ==
  /\ ticker[t].at = "add_inputs"
  /\ ticker' = [ticker EXCEPT ![t] = [at |-> "put", state |-> WithOthers(ticker[t].state)]]
  /\ UNCHANGED <<CURRENT_GAME_STATE, LAST_PLAYER_INPUTS, local_ticks, total_frames,
                 slaveVars, announced, inputs>>

Put(t) ==
  /\ ticker[t].at = "put"
  /\ CURRENT_GAME_STATE' = ticker[t].state
  /\ ticker' = [ticker EXCEPT ![t] = [Idle EXCEPT !.at = "send"]]
  /\ UNCHANGED <<LAST_PLAYER_INPUTS, local_ticks, total_frames, slaveVars, announced, inputs>>

\* The state that is current by now is sent, or cannot be: then main does not
\* count the tick.  The tick thread counts its frames, sent or not.
SendUserTick ==
  /\ ticker["main"].at = "send"
  /\ ticker' = [ticker EXCEPT !["main"] = Idle]
  /\ local_ticks' \in {local_ticks, ToUInt32(local_ticks + 1)}
  /\ UNCHANGED <<CURRENT_GAME_STATE, LAST_PLAYER_INPUTS, total_frames, slaveVars,
                 announced, inputs>>

SendFrame ==
  /\ ticker["tick_loop_thread"].at = "send"
  /\ ticker' = [ticker EXCEPT !["tick_loop_thread"] = Idle]
  /\ total_frames' = ToUInt32(total_frames + 1)
  /\ UNCHANGED <<CURRENT_GAME_STATE, LAST_PLAYER_INPUTS, local_ticks, slaveVars,
                 announced, inputs>>

\* What a client shows of the state the Master sends: the server unpacks it and
\* packs it again for everybody.
Shown(state) ==
  LET relayed == UnpackGameState(PackGameState(state))
  IN  IF relayed = REFUSED THEN REFUSED ELSE UnpackGameState(PackGameState(relayed))

-----------------------------------------------------------------------------
(* The Slaves.                                                              *)

SlaveConnected(s) == MsgPacket("SLAVE_CONNECTED", PackUserInfo([id |-> s, is_master |-> FALSE]))

Join(s) ==
  /\ s \notin playing /\ joins < MaxJoins
  /\ playing' = playing \union {s}
  /\ joins' = joins + 1
  /\ announced' = Append(announced, SlaveConnected(s))
  /\ UNCHANGED <<CURRENT_GAME_STATE, LAST_PLAYER_INPUTS, ticker, local_ticks, total_frames,
                 inputs, typed>>

\* The Master is not told.  What the server has passed on is still on its way.
Leave(s) ==
  /\ s \in playing
  /\ playing' = playing \ {s}
  /\ inputs' \in {inputs, [inputs EXCEPT ![s] = <<>>]}
  /\ UNCHANGED <<CURRENT_GAME_STATE, LAST_PLAYER_INPUTS, ticker, local_ticks, total_frames,
                 joins, announced, typed>>

SlaveInput(s, move) ==
  MsgPacket("PLAYER_INPUT", PackPlayerInput([id |-> s, x |-> move.x, y |-> move.y]))

\* An input that gets through; the channel holds one for each Slave.
Sends(s, move) == inputs[s] = <<>> /\ inputs' = [inputs EXCEPT ![s] = <<SlaveInput(s, move)>>]

\* An input the user typed, which may be lost.
SlaveMove(s, move) ==
  /\ s \in playing /\ move # Still /\ typed[s + 1] < MaxMoves
  /\ typed' = [typed EXCEPT ![s + 1] = @ + 1]
  /\ Sends(s, move) \/ UNCHANGED inputs
  /\ UNCHANGED <<CURRENT_GAME_STATE, LAST_PLAYER_INPUTS, ticker, local_ticks, total_frames,
                 playing, joins, announced>>

\* A Slave's tick thread sends an input of zero every frame; this is one that
\* is not lost.
SlaveFrame(s) ==
  /\ s \in playing
  /\ Sends(s, Still)
  /\ UNCHANGED <<CURRENT_GAME_STATE, LAST_PLAYER_INPUTS, ticker, local_ticks, total_frames,
                 slaveVars, announced>>

-----------------------------------------------------------------------------
(* The Master's net thread.                                                 *)

\* handle_on_slave_connected; nothing ever takes a player out of the world.
TakeSlaveConnected ==
  /\ announced # <<>>
  /\ announced' = Tail(announced)
  /\ LET user == UnpackUserInfo(Head(announced).payload)
     IN  CURRENT_GAME_STATE' =
           IF /\ ParsedType(Head(announced)) = "SLAVE_CONNECTED"
              /\ user # REFUSED /\ user.id \in OTHERS
           THEN [CURRENT_GAME_STATE EXCEPT !.pos[user.id + 1].is_exists = TRUE]
           ELSE CURRENT_GAME_STATE
  /\ UNCHANGED <<LAST_PLAYER_INPUTS, ticker, local_ticks, total_frames, slaveVars, inputs>>

\* Mutant: the id is taken for an index from zero.
ByIndex(input) == [i \in OTHERS |-> IF i = input.id + 1 THEN [x |-> input.x, y |-> input.y]
                                    ELSE LAST_PLAYER_INPUTS[i]]

\* Mutant: an input of zero is no news.
OnlyMoves(input) ==
  [i \in OTHERS |-> IF i = input.id /\ (input.x # 0 \/ input.y # 0)
                    THEN [x |-> input.x, y |-> input.y] ELSE LAST_PLAYER_INPUTS[i]]

Stored(input) == [i \in OTHERS |-> IF i = input.id THEN [x |-> input.x, y |-> input.y]
                                   ELSE LAST_PLAYER_INPUTS[i]]

InputIsTaken(s) == inputs[s] # <<>> /\ inputs' = [inputs EXCEPT ![s] = Tail(@)]

\* update_games_state_by_slave_input; an input of nobody is only reported.
TakeInput(s) ==
  /\ InputIsTaken(s)
  /\ LET input == UnpackPlayerInput(Head(inputs[s]).payload)
     IN  LAST_PLAYER_INPUTS' =
           IF ParsedType(Head(inputs[s])) = "PLAYER_INPUT" /\ input # REFUSED
           THEN Stored(input) ELSE LAST_PLAYER_INPUTS
  /\ UNCHANGED <<CURRENT_GAME_STATE, ticker, local_ticks, total_frames, slaveVars, announced>>

\* The Master connects anew, when everybody has left, and is registered as Master
\* again: attempt_init_current_game_state_by_master finds a world and inputs and
\* keeps them.  What was on its way on the old connection is gone.
MasterAgain ==
  /\ playing = {}
  /\ announced' = <<>>
  /\ inputs' = [s \in Slave |-> <<>>]
  /\ UNCHANGED <<CURRENT_GAME_STATE, LAST_PLAYER_INPUTS, ticker, local_ticks, total_frames, slaveVars>>

-----------------------------------------------------------------------------
\* A client that has just become Master for the first time.
WorldInit ==
  /\ CURRENT_GAME_STATE = NewWorld
  /\ LAST_PLAYER_INPUTS = [i \in OTHERS |-> Still]
  /\ ticker = [t \in Ticker |-> Idle]
  /\ local_ticks = 0
  /\ total_frames = 0
  /\ playing = {}
  /\ joins = 0
  /\ announced = <<>>
  /\ inputs = [s \in Slave |-> <<>>]
  /\ typed = [i \in Positions |-> 0]

MasterTick == \/ UserTick \/ FrameTick \/ SendUserTick \/ SendFrame
              \/ \E t \in Ticker : AddInputs(t) \/ Put(t)

SlaveStep(s) == \/ Join(s) \/ Leave(s) \/ SlaveFrame(s)
                \/ \E move \in Move : SlaveMove(s, move)

WorldNext == \/ MasterTick \/ TakeSlaveConnected \/ MasterAgain
             \/ \E s \in Slave : SlaveStep(s) \/ TakeInput(s)

WorldSpec == WorldInit /\ [][WorldNext]_worldVars

\* The Master's net thread takes what has arrived, and of the inputs a Slave
\* sends every frame not all are lost.
SlaveIsFair(s) == WF_worldVars(SlaveFrame(s)) /\ WF_inputs(InputIsTaken(s))

FairWorldSpec == WorldSpec /\ \A s \in Slave : SlaveIsFair(s)

\* The same fairness with what each step waits for written out in place of its
\* ENABLED: a Slave that plays and has no input on its way, and an input that is.
SlaveIsServed(s) ==
  /\ []<>~(s \in playing /\ inputs[s] = <<>>) \/ []<><<SlaveFrame(s)>>_worldVars
  /\ []<>(inputs[s] = <<>>) \/ []<><<InputIsTaken(s)>>_inputs

ServedWorldSpec == WorldSpec /\ \A s \in Slave : SlaveIsServed(s)

-----------------------------------------------------------------------------
(* Properties.                                                              *)

Worlds == {CURRENT_GAME_STATE} \union {ticker[t].state : t \in Ticker}

\* Everything has its type; positions stay 32 bits wide through any number of
\* ticks.
WorldTypeOK ==
  /\ CURRENT_GAME_STATE \in GameState
  /\ LAST_PLAYER_INPUTS \in [OTHERS -> InputXY]
  /\ ticker \in [Ticker -> [at : {"none", "add_inputs", "put", "send"}, state : GameState]]
  /\ local_ticks \in UInt32 /\ total_frames \in UInt32
  /\ playing \subseteq Slave /\ joins \in 0 .. MaxJoins
  /\ announced \in Seq({SlaveConnected(s) : s \in Slave})
  /\ inputs \in [Slave -> Seq({SlaveInput(s, move) : s \in Slave, move \in Move})]
  /\ typed \in [Positions -> 0 .. MaxMoves]

\* A player moves only by what its own user typed: one for whom no input was
\* typed is where it began, in the world, in every tick's copy of it, and after
\* any inputs of the others, through packing, relaying and storing.
EachMovesItself ==
  \A i \in Positions : typed[i] = 0 =>
    /\ \A w \in Worlds : w.pos[i].x = 0 /\ w.pos[i].y = 0
    /\ i # 1 => LAST_PLAYER_INPUTS[i - 1] = Still

\* An input of the Master's user moves its player at most once, whatever other
\* ticks begin before that one ends; a Slave's is applied again in each tick.
Distance(pos) == (IF pos.x < 0 THEN -pos.x ELSE pos.x) + (IF pos.y < 0 THEN -pos.y ELSE pos.y)

MasterMovesOnce == \A w \in Worlds : Distance(w.pos[1]) <= typed[1]

\* A Slave's last move is not applied for ever while it plays: an input of zero
\* replaces it, lost packets or not.
MoverStops ==
  \A s \in Slave : LAST_PLAYER_INPUTS[s] # Still ~> LAST_PLAYER_INPUTS[s] = Still \/ s \notin playing

\* A state that is sent is what every client shows after two packings, and an
\* input on its way is read as the input of the Slave that sent it, negative
\* numbers included.
PacketsSurviveTheTrip ==
  /\ (\E t \in Ticker : ticker[t].at = "send") => Shown(CURRENT_GAME_STATE) = CURRENT_GAME_STATE
  /\ \A s \in Slave : \A n \in DOMAIN inputs[s] :
       LET input == UnpackPlayerInput(inputs[s][n].payload)
       IN  input # REFUSED /\ input.id = s /\ [x |-> input.x, y |-> input.y] \in Move

\* What they rest on: the packets on their way from a Slave are its own, and
\* none but inputs of zero before its user has typed another.
TypedBy(s) == IF typed[s + 1] = 0 THEN {Still} ELSE Move

InputsWereTyped ==
  \A s \in Slave : inputs[s] \in Seq({SlaveInput(s, move) : move \in TypedBy(s)})

\* The channel of a Slave holds one input.
OneInputWaits == \A s \in Slave : Len(inputs[s]) <= 1

\* The inductive invariant.
WorldInv == /\ WorldTypeOK /\ EachMovesItself /\ MasterMovesOnce /\ InputsWereTyped
            /\ OneInputWaits
=============================================================================
