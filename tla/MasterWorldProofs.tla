------------------------- MODULE MasterWorldProofs -------------------------
(***************************************************************************)
(* Proofs about MasterWorld, for integers of any width, any Slaves, any of *)
(* the inputs a user can type and any bounds.                              *)
(***************************************************************************)
EXTENDS MasterWorld, CodecProofs

-----------------------------------------------------------------------------
(* Sums of 32 bits.                                                         *)

LEMMA Word == WORD \in Nat /\ WORD = HALF + HALF /\ HALF \in Nat /\ HALF > 0
BY CodecAssumption DEF WORD

\* Whatever is converted, an int32_t comes out.
LEMMA ToInt32Type ==
  ASSUME NEW v \in Int
  PROVE  ToInt32(v) \in Int32
<1>1. v % WORD \in 0 .. WORD - 1
  BY Word
<1>2. QED  BY <1>1, Word DEF ToInt32, Int32

LEMMA ToUInt32Type ==
  ASSUME NEW v \in Int
  PROVE  ToUInt32(v) \in UInt32
BY Word DEF ToUInt32, UInt32

Abs(v) == IF v < 0 THEN -v ELSE v

\* A step of one takes a number at most one further from zero, in the sum that
\* wraps as well: it wraps to the number as far away on the other side.
LEMMA StepOfOne ==
  ASSUME NEW v \in Int32, NEW d \in {-1, 0, 1}
  PROVE  /\ Add32(v, d) \in Int32
         /\ Abs(Add32(v, d)) <= Abs(v) + Abs(d)
<1>1. v \in Int /\ v >= -HALF /\ v < HALF /\ v + d \in Int
  BY Word DEF Int32
<1>2. Add32(v, d) \in Int32
  BY <1>1, ToInt32Type DEF Add32
<1>3. CASE v + d \in Int32
  BY <1>1, <1>3, Int32Kept, Word DEF Add32, Abs
<1>4. CASE v + d \notin Int32
  <2>1. \/ v = HALF - 1 /\ d = 1
        \/ v = -HALF /\ d = -1
    BY <1>1, <1>4, Word DEF Int32
  <2>2. Abs(v) + Abs(d) >= HALF
    BY <2>1, Word DEF Abs
  <2>3. Abs(Add32(v, d)) <= HALF
    BY <1>2, Word DEF Abs, Int32
  <2>4. Abs(v) \in Int /\ Abs(d) \in Int /\ Abs(Add32(v, d)) \in Int
    BY <1>1, <1>2, Word DEF Abs, Int32
  <2>5. QED  BY <1>2, <2>2, <2>3, <2>4, Word
<1>5. QED  BY <1>3, <1>4, <1>2

-----------------------------------------------------------------------------
(* Moving a player.                                                         *)

LEMMA MoveTypes == Still \in InputXY /\ Still \in Move /\ Move \subseteq InputXY
BY WorldAssumption

LEMMA MovedByType ==
  ASSUME NEW pos \in PlayerPos, NEW input \in InputXY
  PROVE  MovedBy(pos, input) \in PlayerPos
<1>1. /\ pos.x \in Int /\ pos.y \in Int /\ input.x \in Int /\ input.y \in Int
  BY Word DEF PlayerPos, InputXY, Int32
<1>2. Add32(pos.x, input.x) \in Int32 /\ Add32(pos.y, input.y) \in Int32
  BY <1>1, ToInt32Type DEF Add32
<1>3. QED  BY <1>2 DEF MovedBy, PlayerPos

\* An input of zero moves nothing.
LEMMA MovedByStill ==
  ASSUME NEW pos \in PlayerPos
  PROVE  MovedBy(pos, Still).x = pos.x /\ MovedBy(pos, Still).y = pos.y
<1>1. pos.x \in Int32 /\ pos.y \in Int32 /\ pos.x \in Int /\ pos.y \in Int
  BY Word DEF PlayerPos, Int32
<1>2. Add32(pos.x, 0) = pos.x /\ Add32(pos.y, 0) = pos.y
  BY <1>1, Int32Kept DEF Add32
<1>3. QED  BY <1>1, <1>2 DEF MovedBy, Still, PlayerPos

LEMMA DistanceIsNatural ==
  ASSUME NEW pos \in PlayerPos
  PROVE  Distance(pos) \in Nat
BY Word DEF Distance, PlayerPos, Int32

\* An input the user can type moves a player by one.
LEMMA MovedByOne ==
  ASSUME NEW pos \in PlayerPos, NEW move \in Move
  PROVE  Distance(MovedBy(pos, move)) <= Distance(pos) + 1
<1>1. pos.x \in Int32 /\ pos.y \in Int32 /\ pos.x \in Int /\ pos.y \in Int
  BY Word DEF PlayerPos, Int32
<1>2. /\ move.x \in {-1, 0, 1} /\ move.y \in {-1, 0, 1}
      /\ Abs(move.x) + Abs(move.y) <= 1
      /\ Abs(move.x) \in Int /\ Abs(move.y) \in Int
  BY WorldAssumption DEF TickInputs, Still, Abs
<1>3. /\ Abs(Add32(pos.x, move.x)) <= Abs(pos.x) + Abs(move.x)
      /\ Abs(Add32(pos.y, move.y)) <= Abs(pos.y) + Abs(move.y)
      /\ Add32(pos.x, move.x) \in Int32 /\ Add32(pos.y, move.y) \in Int32
  BY <1>1, <1>2, StepOfOne
<1>4. /\ Abs(Add32(pos.x, move.x)) \in Int /\ Abs(Add32(pos.y, move.y)) \in Int
      /\ Abs(pos.x) \in Int /\ Abs(pos.y) \in Int
  BY <1>1, <1>3, Word DEF Abs, Int32
<1>5. /\ Distance(pos) = Abs(pos.x) + Abs(pos.y)
      /\ Distance(MovedBy(pos, move)) = Abs(Add32(pos.x, move.x)) + Abs(Add32(pos.y, move.y))
  BY DEF Distance, Abs, MovedBy, PlayerPos
<1>6. QED  BY <1>2, <1>3, <1>4, <1>5

-----------------------------------------------------------------------------
(* A world that is within n: what was typed for each position accounts for  *)
(* where its player is.                                                     *)

Within(w, n) == /\ w \in GameState
                /\ \A i \in Positions : n[i] = 0 => w.pos[i].x = 0 /\ w.pos[i].y = 0
                /\ Distance(w.pos[1]) <= n[1]

Typings == [Positions -> Nat]

LEMMA PosOfState ==
  ASSUME NEW w \in GameState, NEW i \in Positions
  PROVE  w.pos[i] \in PlayerPos
BY DEF GameState

\* More may have been typed.
LEMMA WithinMore ==
  ASSUME NEW w, NEW n \in Typings, NEW m \in Typings, Within(w, n),
         \A i \in Positions : n[i] <= m[i]
  PROVE  Within(w, m)
<1>1. Distance(w.pos[1]) \in Nat
  BY PosOfState, DistanceIsNatural DEF Within, Positions
<1>2. \A i \in Positions : n[i] \in Nat /\ m[i] \in Nat /\ (m[i] = 0 => n[i] = 0)
  BY DEF Typings
<1>3. 1 \in Positions
  BY DEF Positions
<1>4. Distance(w.pos[1]) <= m[1]
  BY <1>1, <1>2, <1>3 DEF Within
<1>5. QED  BY <1>2, <1>4 DEF Within

LEMMA NewWorldWithin ==
  ASSUME NEW n \in Typings
  PROVE  Within(NewWorld, n)
<1>1. 0 \in Int32 /\ 0 \in UInt32
  BY Word DEF Int32, UInt32
<1>2. NewWorld \in GameState
  BY <1>1 DEF NewWorld, GameState, PlayerPos
<1>3. /\ \A i \in Positions : NewWorld.pos[i].x = 0 /\ NewWorld.pos[i].y = 0
      /\ 1 \in Positions
  BY DEF NewWorld, Positions
<1>4. Distance(NewWorld.pos[1]) = 0
  BY <1>3 DEF Distance
<1>5. QED  BY <1>2, <1>3, <1>4 DEF Within, Typings

\* The copy a tick begins with is a state, and has what it should.
LEMMA CopyEffect ==
  ASSUME NEW w \in GameState, NEW ticks \in UInt32, NEW input \in InputXY
  PROVE  /\ Copy(w, ticks, input) \in GameState
         /\ Copy(w, ticks, input).pos[1] = MovedBy([w.pos[1] EXCEPT !.is_exists = TRUE], input)
         /\ \A i \in Positions \ {1} : Copy(w, ticks, input).pos[i] = w.pos[i]
<1> DEFINE moved == MovedBy([w.pos[1] EXCEPT !.is_exists = TRUE], input)
           pos == [w.pos EXCEPT ![1] = moved]
<1>0. 1 \in Positions /\ w.pos[1] \in PlayerPos
  BY PosOfState DEF Positions
<1>1. [w.pos[1] EXCEPT !.is_exists = TRUE] \in PlayerPos
  BY <1>0 DEF PlayerPos
<1>2. moved \in PlayerPos
  BY <1>1, MovedByType
<1>3. w = [tick |-> w.tick, pos |-> w.pos] /\ w.pos \in [Positions -> PlayerPos]
  BY DEF GameState
<1>4. Copy(w, ticks, input) = [tick |-> ticks, pos |-> pos]
  BY DEF Copy
<1>5. pos \in [Positions -> PlayerPos] /\ pos[1] = moved
  BY <1>0, <1>2, <1>3
<1>6. \A i \in Positions \ {1} : pos[i] = w.pos[i]
  BY <1>3
<1>7. QED  BY <1>4, <1>5, <1>6 DEF GameState

\* It is within what was typed, the input it begins with counted.
LEMMA CopyWithin ==
  ASSUME NEW w, NEW n \in Typings, NEW m \in Typings, NEW ticks \in UInt32, NEW input \in Move,
         Within(w, n), \A i \in Positions : n[i] <= m[i],
         input # Still => m[1] = n[1] + 1
  PROVE  Within(Copy(w, ticks, input), m)
<1> DEFINE before == [w.pos[1] EXCEPT !.is_exists = TRUE]
           copy == Copy(w, ticks, input)
<1>0. w \in GameState /\ input \in InputXY /\ 1 \in Positions
  BY MoveTypes DEF Within, Positions
<1>1. w.pos[1] \in PlayerPos /\ before \in PlayerPos
  BY <1>0, PosOfState DEF PlayerPos
<1>2. before.x = w.pos[1].x /\ before.y = w.pos[1].y
  BY <1>1 DEF PlayerPos
<1>3. Distance(before) = Distance(w.pos[1]) /\ Distance(w.pos[1]) \in Nat
  BY <1>1, <1>2, DistanceIsNatural DEF Distance
<1>4. copy \in GameState /\ copy.pos[1] = MovedBy(before, input)
  BY <1>0, CopyEffect
<1>5. \A i \in Positions \ {1} : copy.pos[i] = w.pos[i]
  BY <1>0, CopyEffect
<1>6. \A i \in Positions : n[i] \in Nat /\ m[i] \in Nat /\ (m[i] = 0 => n[i] = 0)
  BY DEF Typings
<1>7. CASE input = Still
  <2>1. copy.pos[1].x = w.pos[1].x /\ copy.pos[1].y = w.pos[1].y
    BY <1>1, <1>2, <1>4, <1>7, MovedByStill
  <2>2. Distance(copy.pos[1]) = Distance(w.pos[1])
    BY <2>1 DEF Distance
  <2>3. Distance(copy.pos[1]) <= m[1]
    BY <1>0, <1>3, <1>6, <2>2 DEF Within
  <2>4. \A i \in Positions : copy.pos[i].x = w.pos[i].x /\ copy.pos[i].y = w.pos[i].y
    BY <1>5, <2>1
  <2>5. QED  BY <1>4, <1>6, <2>3, <2>4 DEF Within
<1>8. CASE input # Still
  <2>1. m[1] = n[1] + 1 /\ n[1] \in Nat /\ m[1] # 0
    BY <1>0, <1>6, <1>8
  <2>2. Distance(copy.pos[1]) <= Distance(before) + 1
    BY <1>1, <1>4, MovedByOne
  <2>3. Distance(copy.pos[1]) \in Nat
    BY <1>0, <1>4, PosOfState, DistanceIsNatural
  <2>4. Distance(copy.pos[1]) <= m[1]
    BY <1>3, <2>1, <2>2, <2>3 DEF Within
  <2>5. QED  BY <1>4, <1>5, <1>6, <2>1, <2>4 DEF Within
<1>9. QED  BY <1>7, <1>8

\* The others' last inputs move those that typed something.
LEMMA WithOthersWithin ==
  ASSUME NEW w, NEW n \in Typings, Within(w, n),
         LAST_PLAYER_INPUTS \in [OTHERS -> InputXY],
         \A i \in OTHERS : n[i + 1] = 0 => LAST_PLAYER_INPUTS[i] = Still
  PROVE  Within(WithOthers(w), n)
<1> DEFINE pos == [i \in Positions |->
                     IF i = 1 THEN w.pos[1] ELSE MovedBy(w.pos[i], LAST_PLAYER_INPUTS[i - 1])]
<1>1. w = [tick |-> w.tick, pos |-> w.pos] /\ w.tick \in UInt32 /\ 1 \in Positions
  BY DEF Within, GameState, Positions
<1>2. WithOthers(w) = [tick |-> w.tick, pos |-> pos]
  BY <1>1 DEF WithOthers
<1>3. \A i \in Positions : w.pos[i] \in PlayerPos
  BY PosOfState DEF Within
<1>4. \A i \in Positions \ {1} : i - 1 \in OTHERS /\ (i - 1) + 1 = i
  BY DEF Positions, OTHERS
<1>5. \A i \in Positions : pos[i] \in PlayerPos
  BY <1>3, <1>4, MovedByType
<1>6. pos \in [Positions -> PlayerPos]
  BY <1>5
<1>7. ASSUME NEW i \in Positions, n[i] = 0 PROVE pos[i].x = 0 /\ pos[i].y = 0
  <2>1. w.pos[i].x = 0 /\ w.pos[i].y = 0
    BY <1>7 DEF Within
  <2>2. CASE i = 1
    BY <2>1, <2>2
  <2>3. CASE i # 1
    <3>1. LAST_PLAYER_INPUTS[i - 1] = Still
      BY <1>4, <1>7, <2>3
    <3>2. pos[i] = MovedBy(w.pos[i], Still)
      BY <2>3, <3>1
    <3>3. QED  BY <1>3, <2>1, <3>2, MovedByStill
  <2>4. QED  BY <2>2, <2>3
<1>8. pos[1] = w.pos[1]
  BY <1>1
<1>9. QED  BY <1>1, <1>2, <1>6, <1>7, <1>8 DEF Within, GameState

-----------------------------------------------------------------------------
(* WorldInv, arranged in three parts that the actions disturb separately.    *)

WorldsWithin == /\ Within(CURRENT_GAME_STATE, typed)
                /\ \A t \in Ticker : Within(ticker[t].state, typed)

InputsWithin == /\ LAST_PLAYER_INPUTS \in [OTHERS -> InputXY]
                /\ \A i \in OTHERS : typed[i + 1] = 0 => LAST_PLAYER_INPUTS[i] = Still
                /\ InputsWereTyped

InputPackets == {SlaveInput(s, move) : s \in Slave, move \in Move}

Stages == [at : {"none", "add_inputs", "put", "send"}, state : GameState]

OtherTypes == /\ ticker \in [Ticker -> Stages]
              /\ local_ticks \in UInt32 /\ total_frames \in UInt32
              /\ playing \subseteq Slave /\ joins \in 0 .. MaxJoins
              /\ announced \in Seq({SlaveConnected(s) : s \in Slave})
              /\ inputs \in [Slave -> Seq(InputPackets)]
              /\ typed \in [Positions -> 0 .. MaxMoves]

Parts == WorldsWithin /\ InputsWithin /\ OtherTypes

LEMMA PartsGiveInv == Parts /\ OneInputWaits => WorldInv
<1> SUFFICES ASSUME Parts, OneInputWaits PROVE WorldInv
  OBVIOUS
<1>0. WorldsWithin /\ InputsWithin /\ OtherTypes
  BY DEF Parts
<1>1. \A w \in Worlds : Within(w, typed)
  BY <1>0 DEF Worlds, WorldsWithin
<1>2. WorldTypeOK
  BY <1>0 DEF WorldTypeOK, OtherTypes, InputsWithin, WorldsWithin, Within, Stages, InputPackets
<1>3. MasterMovesOnce
  BY <1>1 DEF MasterMovesOnce, Within
<1>4. \A i \in Positions : i # 1 => i - 1 \in OTHERS /\ (i - 1) + 1 = i
  BY DEF OTHERS, Positions
<1>5. EachMovesItself
  BY <1>0, <1>1, <1>4 DEF EachMovesItself, Within, InputsWithin
<1>6. QED  BY <1>0, <1>2, <1>3, <1>5 DEF WorldInv, InputsWithin

LEMMA TypedIsNatural == ASSUME OtherTypes PROVE typed \in Typings
BY WorldAssumption DEF OtherTypes, Typings

\* A step that does not touch the worlds, the inputs or what was typed.
LEMMA WorldsKept ==
  ASSUME Parts, UNCHANGED <<CURRENT_GAME_STATE, ticker, typed>>
  PROVE  WorldsWithin'
BY DEF Parts, WorldsWithin

LEMMA InputsKept ==
  ASSUME Parts, UNCHANGED <<LAST_PLAYER_INPUTS, inputs, typed>>
  PROVE  InputsWithin'
BY DEF Parts, InputsWithin, InputsWereTyped, TypedBy

-----------------------------------------------------------------------------
(* The ticks.                                                               *)

LEMMA BeginKeepsParts ==
  ASSUME Parts, NEW t \in Ticker, NEW ticks \in UInt32, NEW input \in Move,
         Begin(t, ticks, input),
         \/ input = Still /\ UNCHANGED typed
         \/ input # Still /\ typed[1] < MaxMoves /\ typed' = [typed EXCEPT ![1] = @ + 1]
  PROVE  Parts'
<1> DEFINE copy == Copy(CURRENT_GAME_STATE, ticks, input)
<1>0. /\ typed \in [Positions -> 0 .. MaxMoves] /\ MaxMoves \in Nat /\ 1 \in Positions
      /\ typed \in Typings
  BY WorldAssumption, TypedIsNatural DEF Parts, OtherTypes, Positions
<1>1. typed' \in [Positions -> 0 .. MaxMoves]
  BY <1>0
<1>2. typed' \in Typings
  BY <1>1, <1>0 DEF Typings
<1>3. /\ \A i \in Positions : typed[i] <= typed'[i]
      /\ \A i \in Positions \ {1} : typed'[i] = typed[i]
      /\ input # Still => typed'[1] = typed[1] + 1
  BY <1>0
<1>4. Within(copy, typed')
  BY <1>0, <1>2, <1>3, CopyWithin DEF Parts, WorldsWithin
<1>5. /\ ticker' = [ticker EXCEPT ![t] = [at |-> "add_inputs", state |-> copy]]
      /\ ticker \in [Ticker -> Stages]
  BY DEF Begin, Parts, OtherTypes
<1>6. [at |-> "add_inputs", state |-> copy] \in Stages
  BY <1>4 DEF Within, Stages
<1>7. WorldsWithin'
  <2>1. Within(CURRENT_GAME_STATE, typed')
    BY <1>0, <1>2, <1>3, WithinMore DEF Parts, WorldsWithin
  <2>2. \A u \in Ticker : Within(ticker[u].state, typed')
    BY <1>0, <1>2, <1>3, WithinMore DEF Parts, WorldsWithin
  <2>3. \A u \in Ticker : Within(ticker'[u].state, typed')
    BY <1>4, <1>5, <2>2
  <2>4. QED  BY <2>1, <2>3 DEF WorldsWithin, Begin
<1>8. InputsWithin'
  <2>1. /\ UNCHANGED <<LAST_PLAYER_INPUTS, inputs>>
        /\ \A i \in OTHERS : i + 1 \in Positions \ {1}
    BY DEF Begin, OTHERS, Positions
  <2>2. \A i \in OTHERS : typed'[i + 1] = typed[i + 1]
    BY <1>3, <2>1
  <2>3. \A s \in Slave : TypedBy(s)' = TypedBy(s)
    BY <2>2, WorldAssumption DEF TypedBy
  <2>4. QED  BY <2>1, <2>2, <2>3 DEF Parts, InputsWithin, InputsWereTyped
<1>9. OtherTypes'
  BY <1>1, <1>5, <1>6 DEF Parts, OtherTypes, Begin
<1>10. QED  BY <1>7, <1>8, <1>9 DEF Parts

LEMMA AddInputsKeepsParts ==
  ASSUME Parts, NEW t \in Ticker, AddInputs(t)
  PROVE  Parts'
<1> DEFINE new == WithOthers(ticker[t].state)
<1>1. Within(new, typed)
  BY WithOthersWithin, TypedIsNatural DEF Parts, WorldsWithin, InputsWithin
<1>2. /\ ticker' = [ticker EXCEPT ![t] = [at |-> "put", state |-> new]]
      /\ ticker \in [Ticker -> Stages] /\ UNCHANGED <<CURRENT_GAME_STATE, typed>>
  BY DEF AddInputs, Parts, OtherTypes, slaveVars
<1>3. [at |-> "put", state |-> new] \in Stages
  BY <1>1 DEF Within, Stages
<1>4. WorldsWithin'
  <2>1. \A u \in Ticker : Within(ticker'[u].state, typed)
    BY <1>1, <1>2 DEF Parts, WorldsWithin
  <2>2. QED  BY <1>2, <2>1 DEF Parts, WorldsWithin
<1>5. InputsWithin'
  BY InputsKept DEF AddInputs, slaveVars
<1>6. OtherTypes'
  BY <1>2, <1>3 DEF Parts, OtherTypes, AddInputs, slaveVars
<1>7. QED  BY <1>4, <1>5, <1>6 DEF Parts

LEMMA IdleStage ==
  ASSUME OtherTypes
  PROVE  /\ Idle \in Stages /\ [Idle EXCEPT !.at = "send"] \in Stages
         /\ Within(Idle.state, typed) /\ Within([Idle EXCEPT !.at = "send"].state, typed)
<1>1. Within(NewWorld, typed)
  BY TypedIsNatural, NewWorldWithin
<1>2. NewWorld \in GameState
  BY <1>1 DEF Within
<1>3. QED  BY <1>1, <1>2 DEF Idle, Stages

LEMMA PutKeepsParts ==
  ASSUME Parts, NEW t \in Ticker, Put(t)
  PROVE  Parts'
<1>1. /\ ticker' = [ticker EXCEPT ![t] = [Idle EXCEPT !.at = "send"]]
      /\ CURRENT_GAME_STATE' = ticker[t].state
      /\ ticker \in [Ticker -> Stages] /\ UNCHANGED typed
  BY DEF Put, Parts, OtherTypes, slaveVars
<1>2. WorldsWithin'
  <2>1. \A u \in Ticker : Within(ticker'[u].state, typed)
    BY <1>1, IdleStage DEF Parts, WorldsWithin
  <2>2. QED  BY <1>1, <2>1 DEF Parts, WorldsWithin
<1>3. InputsWithin'
  BY InputsKept DEF Put, slaveVars
<1>4. OtherTypes'
  BY <1>1, IdleStage DEF Parts, OtherTypes, Put, slaveVars
<1>5. QED  BY <1>2, <1>3, <1>4 DEF Parts

LEMMA SendKeepsParts ==
  ASSUME Parts, SendUserTick \/ SendFrame
  PROVE  Parts'
<1>1. PICK t \in Ticker : ticker' = [ticker EXCEPT ![t] = Idle]
  BY DEF SendUserTick, SendFrame, Ticker
<1>2. /\ ticker \in [Ticker -> Stages]
      /\ UNCHANGED <<CURRENT_GAME_STATE, LAST_PLAYER_INPUTS, inputs, slaveVars, announced>>
  BY DEF SendUserTick, SendFrame, Parts, OtherTypes
<1>3. local_ticks' \in UInt32 /\ total_frames' \in UInt32
  <2>1. local_ticks + 1 \in Int /\ total_frames + 1 \in Int
    BY Word DEF Parts, OtherTypes, UInt32
  <2>2. ToUInt32(local_ticks + 1) \in UInt32 /\ ToUInt32(total_frames + 1) \in UInt32
    BY <2>1, ToUInt32Type
  <2>3. QED  BY <2>2 DEF SendUserTick, SendFrame, Parts, OtherTypes
<1>4. WorldsWithin'
  <2>1. \A u \in Ticker : Within(ticker'[u].state, typed)
    BY <1>1, <1>2, IdleStage DEF Parts, WorldsWithin
  <2>2. QED  BY <1>2, <2>1 DEF Parts, WorldsWithin, slaveVars
<1>5. InputsWithin'
  BY <1>2, InputsKept DEF slaveVars
<1>6. OtherTypes'
  BY <1>1, <1>2, <1>3, IdleStage DEF Parts, OtherTypes, slaveVars
<1>7. QED  BY <1>4, <1>5, <1>6 DEF Parts

-----------------------------------------------------------------------------
(* The Slaves and the net thread.                                           *)

LEMMA SeqMonotone ==
  ASSUME NEW S, NEW T, S \subseteq T, NEW s \in Seq(S)
  PROVE  s \in Seq(T)
OBVIOUS

LEMMA EmptySeq == ASSUME NEW S PROVE <<>> \in Seq(S)
OBVIOUS

\* What a Slave sends may wait in its channel, if what it sends was typed.
LEMMA SendsKeeps ==
  ASSUME Parts, NEW s \in Slave, NEW move \in Move, Sends(s, move)
  PROVE  /\ inputs' \in [Slave -> Seq(InputPackets)]
         /\ inputs'[s] = <<SlaveInput(s, move)>>
         /\ \A r \in Slave \ {s} : inputs'[r] = inputs[r]
<1>1. inputs \in [Slave -> Seq(InputPackets)]
  BY DEF Parts, OtherTypes
<1>2. <<SlaveInput(s, move)>> \in Seq(InputPackets)
  <2>1. SlaveInput(s, move) \in InputPackets
    BY DEF InputPackets
  <2>2. QED  BY <2>1
<1>3. QED  BY <1>1, <1>2 DEF Sends

LEMMA SlaveMoveKeepsParts ==
  ASSUME Parts, NEW s \in Slave, NEW move \in Move, SlaveMove(s, move)
  PROVE  Parts'
<1>0. /\ typed \in [Positions -> 0 .. MaxMoves] /\ MaxMoves \in Nat
      /\ s + 1 \in Positions /\ typed \in Typings
      /\ \A r \in Slave : r + 1 \in Positions /\ (r + 1 = s + 1 => r = s)
      /\ \A r \in OTHERS : r + 1 \in Positions
  BY WorldAssumption, TypedIsNatural DEF Parts, OtherTypes, Positions, OTHERS
<1>1. typed' = [typed EXCEPT ![s + 1] = @ + 1] /\ typed[s + 1] < MaxMoves /\ move # Still
  BY DEF SlaveMove
<1>2. typed' \in [Positions -> 0 .. MaxMoves]
  BY <1>0, <1>1
<1>3. typed' \in Typings
  BY <1>0, <1>2 DEF Typings
<1>4. /\ \A i \in Positions : typed[i] <= typed'[i]
      /\ \A i \in Positions \ {s + 1} : typed'[i] = typed[i]
      /\ typed'[s + 1] # 0
  BY <1>0, <1>1
<1>5. \A i \in Positions : typed'[i] = 0 => typed[i] = 0
  BY <1>4
<1>6. WorldsWithin'
  <2>1. UNCHANGED <<CURRENT_GAME_STATE, ticker>>
    BY DEF SlaveMove
  <2>2. Within(CURRENT_GAME_STATE, typed')
    BY <1>0, <1>3, <1>4, WithinMore DEF Parts, WorldsWithin
  <2>3. \A t \in Ticker : Within(ticker[t].state, typed')
    BY <1>0, <1>3, <1>4, WithinMore DEF Parts, WorldsWithin
  <2>4. QED  BY <2>1, <2>2, <2>3 DEF WorldsWithin
<1>7. /\ inputs' \in [Slave -> Seq(InputPackets)]
      /\ inputs'[s] = inputs[s] \/ inputs'[s] = <<SlaveInput(s, move)>>
      /\ \A r \in Slave \ {s} : inputs'[r] = inputs[r]
  BY SendsKeeps DEF SlaveMove, Parts, OtherTypes
<1>8. InputsWereTyped'
  <2>1. SUFFICES ASSUME NEW r \in Slave
                 PROVE  inputs'[r] \in Seq({SlaveInput(r, m) : m \in TypedBy(r)'})
    BY DEF InputsWereTyped
  <2>2. inputs[r] \in Seq({SlaveInput(r, m) : m \in TypedBy(r)})
    BY DEF Parts, InputsWithin, InputsWereTyped
  <2>3. CASE r = s
    <3>1. TypedBy(r)' = Move /\ TypedBy(r) \subseteq Move
      BY <1>4, <2>3, MoveTypes DEF TypedBy
    <3>2. {SlaveInput(r, m) : m \in TypedBy(r)} \subseteq {SlaveInput(r, m) : m \in Move}
      BY <3>1
    <3>3. inputs[r] \in Seq({SlaveInput(r, m) : m \in Move})
      BY <2>2, <3>2, SeqMonotone
    <3>4. <<SlaveInput(s, move)>> \in Seq({SlaveInput(r, m) : m \in Move})
      <4>1. SlaveInput(s, move) \in {SlaveInput(r, m) : m \in Move}
        BY <2>3
      <4>2. QED  BY <4>1
    <3>5. QED  BY <1>7, <2>3, <3>1, <3>3, <3>4
  <2>4. CASE r # s
    <3>1. TypedBy(r)' = TypedBy(r)
      BY <1>0, <1>4, <2>4 DEF TypedBy
    <3>2. QED  BY <1>7, <2>2, <2>4, <3>1
  <2>5. QED  BY <2>3, <2>4
<1>9. InputsWithin'
  <2>1. UNCHANGED LAST_PLAYER_INPUTS
    BY DEF SlaveMove
  <2>2. QED  BY <1>0, <1>5, <1>8, <2>1 DEF Parts, InputsWithin
<1>10. OtherTypes'
  BY <1>2, <1>7 DEF Parts, OtherTypes, SlaveMove
<1>11. QED  BY <1>6, <1>9, <1>10 DEF Parts

LEMMA SlaveFrameKeepsParts ==
  ASSUME Parts, NEW s \in Slave, SlaveFrame(s)
  PROVE  Parts'
<1>1. /\ inputs' \in [Slave -> Seq(InputPackets)]
      /\ inputs'[s] = <<SlaveInput(s, Still)>>
      /\ \A r \in Slave \ {s} : inputs'[r] = inputs[r]
  BY SendsKeeps, MoveTypes DEF SlaveFrame
<1>2. UNCHANGED <<CURRENT_GAME_STATE, LAST_PLAYER_INPUTS, ticker, typed>>
  BY DEF SlaveFrame, slaveVars
<1>3. InputsWereTyped'
  <2>1. SUFFICES ASSUME NEW r \in Slave
                 PROVE  inputs'[r] \in Seq({SlaveInput(r, m) : m \in TypedBy(r)})
    BY <1>2 DEF InputsWereTyped, TypedBy
  <2>2. inputs[r] \in Seq({SlaveInput(r, m) : m \in TypedBy(r)})
    BY DEF Parts, InputsWithin, InputsWereTyped
  <2>3. SlaveInput(r, Still) \in {SlaveInput(r, m) : m \in TypedBy(r)}
    BY MoveTypes DEF TypedBy
  <2>4. <<SlaveInput(r, Still)>> \in Seq({SlaveInput(r, m) : m \in TypedBy(r)})
    BY <2>3
  <2>5. QED  BY <1>1, <2>2, <2>4
<1>4. InputsWithin'
  BY <1>2, <1>3 DEF Parts, InputsWithin
<1>5. OtherTypes'
  BY <1>1, <1>2 DEF Parts, OtherTypes, SlaveFrame, slaveVars
<1>6. QED  BY <1>2, <1>4, <1>5, WorldsKept DEF Parts

LEMMA JoinKeepsParts ==
  ASSUME Parts, NEW s \in Slave, Join(s)
  PROVE  Parts'
<1>1. announced' \in Seq({SlaveConnected(r) : r \in Slave})
  BY DEF Join, Parts, OtherTypes
<1>2. joins' \in 0 .. MaxJoins /\ playing' \subseteq Slave
  BY WorldAssumption DEF Join, Parts, OtherTypes
<1>3. OtherTypes'
  BY <1>1, <1>2 DEF Join, Parts, OtherTypes
<1>4. WorldsWithin' /\ InputsWithin'
  BY WorldsKept, InputsKept DEF Join
<1>5. QED  BY <1>3, <1>4 DEF Parts

LEMMA LeaveKeepsParts ==
  ASSUME Parts, NEW s \in Slave, Leave(s)
  PROVE  Parts'
<1>1. /\ UNCHANGED <<CURRENT_GAME_STATE, LAST_PLAYER_INPUTS, ticker, typed>>
      /\ inputs' = inputs \/ inputs' = [inputs EXCEPT ![s] = <<>>]
      /\ inputs \in [Slave -> Seq(InputPackets)]
  BY DEF Leave, Parts, OtherTypes
<1>2. inputs' \in [Slave -> Seq(InputPackets)]
  BY <1>1, EmptySeq
<1>3. InputsWereTyped'
  <2>1. SUFFICES ASSUME NEW r \in Slave
                 PROVE  inputs'[r] \in Seq({SlaveInput(r, m) : m \in TypedBy(r)})
    BY <1>1 DEF InputsWereTyped, TypedBy
  <2>2. inputs[r] \in Seq({SlaveInput(r, m) : m \in TypedBy(r)})
    BY DEF Parts, InputsWithin, InputsWereTyped
  <2>3. inputs'[r] = inputs[r] \/ inputs'[r] = <<>>
    BY <1>1
  <2>4. <<>> \in Seq({SlaveInput(r, m) : m \in TypedBy(r)})
    BY EmptySeq
  <2>5. QED  BY <2>2, <2>3, <2>4
<1>4. InputsWithin'
  BY <1>1, <1>3 DEF Parts, InputsWithin
<1>5. OtherTypes'
  BY <1>1, <1>2 DEF Parts, OtherTypes, Leave
<1>6. QED  BY <1>1, <1>4, <1>5, WorldsKept DEF Parts

LEMMA MasterAgainKeepsParts ==
  ASSUME Parts, MasterAgain
  PROVE  Parts'
<1>1. /\ UNCHANGED <<CURRENT_GAME_STATE, LAST_PLAYER_INPUTS, ticker, typed, local_ticks, total_frames,
                     playing, joins>>
      /\ inputs' = [s \in Slave |-> <<>>] /\ announced' = <<>>
  BY DEF MasterAgain, slaveVars
<1>2. \A r \in Slave : inputs'[r] \in Seq({SlaveInput(r, m) : m \in TypedBy(r)})
  BY <1>1, EmptySeq
<1>3. InputsWithin'
  BY <1>1, <1>2 DEF Parts, InputsWithin, InputsWereTyped, TypedBy
<1>4. inputs' \in [Slave -> Seq(InputPackets)] /\ announced' \in Seq({SlaveConnected(r) : r \in Slave})
  BY <1>1, EmptySeq
<1>5. OtherTypes'
  BY <1>1, <1>4 DEF Parts, OtherTypes
<1>6. QED  BY <1>1, <1>3, <1>5, WorldsKept DEF Parts

\* Only the existence of a player may change.
LEMMA TakeSlaveConnectedKeepsParts ==
  ASSUME Parts, TakeSlaveConnected
  PROVE  Parts'
<1>1. /\ UNCHANGED <<LAST_PLAYER_INPUTS, inputs, ticker, typed>>
      /\ announced \in Seq({SlaveConnected(r) : r \in Slave}) /\ announced # <<>>
      /\ announced' = Tail(announced)
  BY DEF TakeSlaveConnected, Parts, OtherTypes, slaveVars
<1>2. announced' \in Seq({SlaveConnected(r) : r \in Slave})
  BY <1>1
<1>3. Within(CURRENT_GAME_STATE', typed)
  <2>1. CASE UNCHANGED CURRENT_GAME_STATE
    BY <2>1 DEF Parts, WorldsWithin
  <2>2. ASSUME NEW i \in Positions,
               CURRENT_GAME_STATE' = [CURRENT_GAME_STATE EXCEPT !.pos[i].is_exists = TRUE]
        PROVE  Within(CURRENT_GAME_STATE', typed)
    <3> DEFINE w == CURRENT_GAME_STATE
               there == [w.pos[i] EXCEPT !.is_exists = TRUE]
    <3>1. w \in GameState /\ Within(w, typed) /\ w.pos \in [Positions -> PlayerPos] /\ 1 \in Positions
      BY DEF Parts, WorldsWithin, Within, GameState, Positions
    <3>2. w.pos[i] \in PlayerPos
      BY <3>1
    <3>3. there \in PlayerPos /\ there.x = w.pos[i].x /\ there.y = w.pos[i].y
      BY <3>2 DEF PlayerPos
    <3>4. w' = [w EXCEPT !.pos = [w.pos EXCEPT ![i] = there]]
      BY <2>2
    <3>5. w' \in GameState /\ w'.pos = [w.pos EXCEPT ![i] = there]
      BY <3>1, <3>3, <3>4 DEF GameState
    <3>6. \A j \in Positions : w'.pos[j].x = w.pos[j].x /\ w'.pos[j].y = w.pos[j].y
      BY <3>1, <3>3, <3>5
    <3>7. Distance(w'.pos[1]) = Distance(w.pos[1])
      BY <3>1, <3>6 DEF Distance
    <3>8. QED  BY <3>1, <3>5, <3>6, <3>7 DEF Within
  <2>3. \A i \in OTHERS : i + 1 \in Positions
    BY DEF OTHERS, Positions
  <2>4. QED  BY <2>1, <2>2, <2>3 DEF TakeSlaveConnected
<1>4. WorldsWithin'
  BY <1>1, <1>3 DEF Parts, WorldsWithin
<1>5. OtherTypes'
  BY <1>1, <1>2 DEF Parts, OtherTypes, TakeSlaveConnected, slaveVars
<1>6. QED  BY <1>1, <1>4, <1>5, InputsKept DEF Parts

\* An input on its way is read as the input its Slave sent.
LEMMA InputIsRead ==
  ASSUME NEW s \in Slave, NEW move \in Move
  PROVE  /\ UnpackPlayerInput(SlaveInput(s, move).payload) = [id |-> s, x |-> move.x, y |-> move.y]
         /\ [id |-> s, x |-> move.x, y |-> move.y] \in PlayerInput
         /\ [x |-> move.x, y |-> move.y] = move
<1>1. move \in InputXY /\ s \in UInt32
  BY WorldAssumption
<1>2. [id |-> s, x |-> move.x, y |-> move.y] \in PlayerInput /\ [x |-> move.x, y |-> move.y] = move
  BY <1>1 DEF InputXY, PlayerInput
<1>3. QED  BY <1>2, PlayerInputRoundTrip DEF SlaveInput, MsgPacket

LEMMA TakeInputKeepsParts ==
  ASSUME Parts, NEW s \in Slave, TakeInput(s)
  PROVE  Parts'
<1>1. /\ UNCHANGED <<CURRENT_GAME_STATE, ticker, typed>>
      /\ inputs[s] # <<>> /\ inputs' = [inputs EXCEPT ![s] = Tail(@)]
      /\ inputs \in [Slave -> Seq(InputPackets)]
      /\ LAST_PLAYER_INPUTS \in [OTHERS -> InputXY]
  BY DEF TakeInput, InputIsTaken, Parts, OtherTypes, InputsWithin, slaveVars
<1>2. inputs' \in [Slave -> Seq(InputPackets)] /\ inputs'[s] = Tail(inputs[s])
  <2>1. inputs[s] \in Seq(InputPackets)
    BY <1>1
  <2>2. Tail(inputs[s]) \in Seq(InputPackets)
    BY <1>1, <2>1
  <2>3. QED  BY <1>1, <2>2
<1>3. inputs[s] \in Seq({SlaveInput(s, move) : move \in TypedBy(s)})
  BY DEF Parts, InputsWithin, InputsWereTyped
<1>4. PICK move \in TypedBy(s) : Head(inputs[s]) = SlaveInput(s, move)
  <2>1. Head(inputs[s]) \in {SlaveInput(s, move) : move \in TypedBy(s)}
    BY <1>1, <1>3
  <2>2. QED  BY <2>1
<1>5. move \in Move /\ move \in InputXY
  BY MoveTypes DEF TypedBy
<1>6. \/ UNCHANGED LAST_PLAYER_INPUTS
      \/ LAST_PLAYER_INPUTS' = [i \in OTHERS |-> IF i = s THEN move ELSE LAST_PLAYER_INPUTS[i]]
  <2>1. UnpackPlayerInput(Head(inputs[s]).payload) = [id |-> s, x |-> move.x, y |-> move.y]
    BY <1>4, <1>5, InputIsRead
  <2>2. Stored([id |-> s, x |-> move.x, y |-> move.y]) =
          [i \in OTHERS |-> IF i = s THEN move ELSE LAST_PLAYER_INPUTS[i]]
    BY <1>5, InputIsRead DEF Stored
  <2>3. QED  BY <2>1, <2>2 DEF TakeInput
<1>7. LAST_PLAYER_INPUTS' \in [OTHERS -> InputXY]
  BY <1>1, <1>5, <1>6
<1>8. \A i \in OTHERS : typed'[i + 1] = 0 => LAST_PLAYER_INPUTS'[i] = Still
  <2>1. typed[s + 1] = 0 => move = Still
    BY <1>4 DEF TypedBy
  <2>2. QED  BY <1>1, <1>6, <2>1 DEF Parts, InputsWithin
<1>9. InputsWereTyped'
  <2>1. SUFFICES ASSUME NEW r \in Slave
                 PROVE  inputs'[r] \in Seq({SlaveInput(r, m) : m \in TypedBy(r)})
    BY <1>1 DEF InputsWereTyped, TypedBy
  <2>2. CASE r = s
    <3>1. Tail(inputs[s]) \in Seq({SlaveInput(s, m) : m \in TypedBy(s)})
      BY <1>1, <1>3
    <3>2. QED  BY <1>2, <2>2, <3>1
  <2>3. CASE r # s
    BY <1>1, <2>3 DEF Parts, InputsWithin, InputsWereTyped
  <2>4. QED  BY <2>2, <2>3
<1>10. InputsWithin'
  BY <1>7, <1>8, <1>9 DEF InputsWithin
<1>11. OtherTypes'
  BY <1>1, <1>2 DEF Parts, OtherTypes, TakeInput, slaveVars
<1>12. QED  BY <1>1, <1>10, <1>11, WorldsKept DEF Parts

-----------------------------------------------------------------------------
(* The invariant and what it says.                                          *)

LEMMA WorldInitParts == WorldInit => Parts
<1> SUFFICES ASSUME WorldInit PROVE Parts
  OBVIOUS
<1>1. OtherTypes
  <2>1. 0 \in UInt32 /\ 0 \in 0 .. MaxMoves /\ 0 \in 0 .. MaxJoins
    BY Word, WorldAssumption DEF UInt32
  <2>2. [s \in Slave |-> <<>>] \in [Slave -> Seq(InputPackets)]
    BY EmptySeq
  <2>3. <<>> \in Seq({SlaveConnected(s) : s \in Slave})
    BY EmptySeq
  <2>4. Idle \in Stages
    <3>1. [i \in Positions |-> 0] \in Typings
      BY DEF Typings
    <3>2. NewWorld \in GameState
      BY <3>1, NewWorldWithin DEF Within
    <3>3. QED  BY <3>2 DEF Idle, Stages
  <2>5. QED  BY <2>1, <2>2, <2>3, <2>4 DEF WorldInit, OtherTypes
<1>2. WorldsWithin
  <2>1. Within(NewWorld, typed) /\ Idle.state = NewWorld
    BY <1>1, TypedIsNatural, NewWorldWithin DEF Idle
  <2>2. QED  BY <2>1 DEF WorldInit, WorldsWithin
<1>3. InputsWithin
  <2>1. \A s \in Slave : inputs[s] \in Seq({SlaveInput(s, m) : m \in TypedBy(s)})
    BY EmptySeq DEF WorldInit
  <2>2. QED  BY <2>1, MoveTypes DEF WorldInit, InputsWithin, InputsWereTyped
<1>4. QED  BY <1>1, <1>2, <1>3 DEF Parts

LEMMA WorldNextKeepsParts == Parts /\ [WorldNext]_worldVars => Parts'
<1> SUFFICES ASSUME Parts, [WorldNext]_worldVars PROVE Parts'
  OBVIOUS
<1>0. Parts
  OBVIOUS
<1>1. CASE UNCHANGED worldVars
  <2>1. WorldsWithin' /\ InputsWithin'
    BY <1>0, <1>1, WorldsKept, InputsKept DEF worldVars, slaveVars
  <2>2. OtherTypes'
    BY <1>0, <1>1 DEF Parts, OtherTypes, worldVars, slaveVars
  <2>3. QED  BY <2>1, <2>2 DEF Parts
<1>2. CASE UserTick
  <2>1. PICK move \in Move :
          /\ Begin("main", local_ticks, move)
          /\ \/ move = Still /\ UNCHANGED typed
             \/ move # Still /\ typed[1] < MaxMoves /\ typed' = [typed EXCEPT ![1] = @ + 1]
    BY <1>2 DEF UserTick
  <2>2. "main" \in Ticker /\ local_ticks \in UInt32
    BY <1>0 DEF Ticker, Parts, OtherTypes
  <2>3. QED  BY <1>0, <2>1, <2>2, BeginKeepsParts
<1>3. CASE FrameTick
  <2>1. /\ "tick_loop_thread" \in Ticker /\ total_frames \in UInt32 /\ Still \in Move
        /\ Begin("tick_loop_thread", total_frames, Still) /\ UNCHANGED typed
    BY <1>0, <1>3, MoveTypes DEF FrameTick, FrameInput, Ticker, Parts, OtherTypes
  <2>2. QED  BY <1>0, <2>1, BeginKeepsParts
<1>4. CASE SendUserTick \/ SendFrame
  BY <1>0, <1>4, SendKeepsParts
<1>5. ASSUME NEW t \in Ticker, AddInputs(t) \/ Put(t) PROVE Parts'
  BY <1>0, <1>5, AddInputsKeepsParts, PutKeepsParts
<1>6. CASE TakeSlaveConnected \/ MasterAgain
  BY <1>0, <1>6, TakeSlaveConnectedKeepsParts, MasterAgainKeepsParts
<1>7. ASSUME NEW s \in Slave, SlaveStep(s) \/ TakeInput(s) PROVE Parts'
  BY <1>0, <1>7, JoinKeepsParts, LeaveKeepsParts, SlaveFrameKeepsParts, SlaveMoveKeepsParts,
     TakeInputKeepsParts DEF SlaveStep
<1>8. QED
  BY <1>1, <1>2, <1>3, <1>4, <1>5, <1>6, <1>7 DEF WorldNext, MasterTick

\* What a step does to the channel of a Slave: its input is sent or taken, or the
\* Slave does not play any more.
ChannelStep(s) ==
  \/ inputs'[s] = inputs[s]
  \/ /\ inputs[s] = <<>>
     /\ \E move \in Move : /\ inputs'[s] = <<SlaveInput(s, move)>>
                           /\ move = Still \/ SlaveMove(s, move)
  \/ inputs'[s] = <<>> /\ s \notin playing'
  \/ TakeInput(s)

LEMMA ChannelSteps ==
  ASSUME Parts, [WorldNext]_worldVars, NEW s \in Slave
  PROVE  ChannelStep(s)
<1>0. inputs \in [Slave -> Seq(InputPackets)] /\ playing \subseteq Slave
  BY DEF Parts, OtherTypes
<1>1. ASSUME NEW r \in Slave, SlaveFrame(r) PROVE ChannelStep(s)
  <2>1. Sends(r, Still) /\ Still \in Move
    BY <1>1, MoveTypes DEF SlaveFrame
  <2>2. /\ inputs[r] = <<>> /\ inputs'[r] = <<SlaveInput(r, Still)>>
        /\ \A q \in Slave \ {r} : inputs'[q] = inputs[q]
    BY <2>1, SendsKeeps DEF Sends
  <2>3. QED  BY <2>1, <2>2 DEF ChannelStep
<1>2. ASSUME NEW r \in Slave, NEW move \in Move, SlaveMove(r, move) PROVE ChannelStep(s)
  <2>1. CASE UNCHANGED inputs
    BY <2>1 DEF ChannelStep
  <2>2. CASE Sends(r, move)
    <3>1. /\ inputs[r] = <<>> /\ inputs'[r] = <<SlaveInput(r, move)>>
          /\ \A q \in Slave \ {r} : inputs'[q] = inputs[q]
      BY <2>2, SendsKeeps DEF Sends
    <3>2. QED  BY <1>2, <3>1 DEF ChannelStep
  <2>3. QED  BY <1>2, <2>1, <2>2 DEF SlaveMove
<1>3. ASSUME NEW r \in Slave, Leave(r) PROVE ChannelStep(s)
  BY <1>0, <1>3 DEF Leave, ChannelStep
<1>4. CASE MasterAgain
  BY <1>4 DEF MasterAgain, slaveVars, ChannelStep
<1>5. ASSUME NEW r \in Slave, TakeInput(r) PROVE ChannelStep(s)
  BY <1>0, <1>5 DEF TakeInput, InputIsTaken, ChannelStep
<1>6. CASE \/ MasterTick \/ TakeSlaveConnected \/ \E r \in Slave : Join(r)
  <2>1. UNCHANGED inputs
    BY <1>6 DEF MasterTick, UserTick, FrameTick, Begin, AddInputs, Put, SendUserTick, SendFrame,
                TakeSlaveConnected, Join
  <2>2. QED  BY <2>1 DEF ChannelStep
<1>7. CASE UNCHANGED worldVars
  BY <1>7 DEF worldVars, ChannelStep
<1>8. QED
  BY <1>1, <1>2, <1>3, <1>4, <1>5, <1>6, <1>7 DEF WorldNext, SlaveStep

LEMMA NoneIsEmpty == ASSUME NEW S, NEW q \in Seq(S), Len(q) = 0 PROVE q = <<>>
OBVIOUS

LEMMA TailOfOne ==
  ASSUME NEW S, NEW q \in Seq(S), q # <<>>, Len(q) <= 1
  PROVE  Tail(q) = <<>>
<1>1. Len(q) \in Nat /\ Len(q) # 0
  BY NoneIsEmpty
<1>2. Len(q) = 1
  BY <1>1
<1>3. Tail(q) \in Seq(S) /\ Len(Tail(q)) = 0
  BY <1>2
<1>4. QED  BY <1>3, NoneIsEmpty

\* An input that is taken leaves a channel without one.
LEMMA TakingEmpties ==
  ASSUME Parts, OneInputWaits, NEW s \in Slave, InputIsTaken(s)
  PROVE  inputs[s] # <<>> /\ inputs'[s] = <<>>
<1>1. /\ inputs[s] \in Seq(InputPackets) /\ inputs[s] # <<>> /\ inputs'[s] = Tail(inputs[s])
  BY DEF Parts, OtherTypes, InputIsTaken
<1>2. Len(inputs[s]) <= 1
  BY DEF OneInputWaits
<1>3. Tail(inputs[s]) = <<>>
  BY <1>1, <1>2, TailOfOne
<1>4. QED  BY <1>1, <1>3

LEMMA OneInputKept == Parts /\ OneInputWaits /\ [WorldNext]_worldVars => OneInputWaits'
<1> SUFFICES ASSUME Parts, OneInputWaits, [WorldNext]_worldVars, NEW s \in Slave
             PROVE  Len(inputs'[s]) <= 1
  BY DEF OneInputWaits
<1>0. Len(inputs[s]) <= 1
  BY DEF OneInputWaits
<1>1. \A e : Len(<<e>>) <= 1
  OBVIOUS
<1>2. Len(<<>>) <= 1
  OBVIOUS
<1>3. CASE TakeInput(s)
  BY <1>2, <1>3, TakingEmpties DEF TakeInput
<1>4. CASE ~TakeInput(s)
  <2>1. CASE inputs'[s] = inputs[s]
    BY <2>1, <1>0, Zenon
  <2>2. CASE \E move \in Move : inputs'[s] = <<SlaveInput(s, move)>>
    BY <1>1, <2>2
  <2>3. CASE inputs'[s] = <<>>
    BY <1>2, <2>3
  <2>4. \/ inputs'[s] = inputs[s] \/ inputs'[s] = <<>>
        \/ \E move \in Move : inputs'[s] = <<SlaveInput(s, move)>>
    BY <1>4, ChannelSteps DEF ChannelStep
  <2>5. QED  BY <2>1, <2>2, <2>3, <2>4
<1>5. QED  BY <1>3, <1>4

\* The invariant of the Master's world holds in every reachable state.
THEOREM WorldInvariance == WorldSpec => []WorldInv
<1>1. WorldInit => OneInputWaits
  BY DEF WorldInit, OneInputWaits
<1>2. WorldInit => Parts /\ OneInputWaits
  BY <1>1, WorldInitParts
<1>3. Parts /\ OneInputWaits /\ [WorldNext]_worldVars => (Parts /\ OneInputWaits)'
  BY WorldNextKeepsParts, OneInputKept
<1>4. QED
  BY <1>2, <1>3, PartsGiveInv, PTL DEF WorldSpec

LEMMA WorldParts == WorldSpec => []Parts
BY WorldInitParts, WorldNextKeepsParts, PTL DEF WorldSpec

\* Positions stay 32 bits wide through any number of ticks (client.c:541-560).
THEOREM WorldTypeCorrectness == WorldSpec => []WorldTypeOK
<1>1. WorldInv => WorldTypeOK
  BY DEF WorldInv
<1>2. QED  BY <1>1, WorldInvariance, PTL

\* A player for whom nothing was typed is where it began, whatever the others
\* do and however the threads interleave.
THEOREM PlayersMoveThemselves == WorldSpec => []EachMovesItself
<1>1. WorldInv => EachMovesItself
  BY DEF WorldInv
<1>2. QED  BY <1>1, WorldInvariance, PTL

\* No input of the Master's user is counted twice by overlapping ticks.
THEOREM UserInputsCountOnce == WorldSpec => []MasterMovesOnce
<1>1. WorldInv => MasterMovesOnce
  BY DEF WorldInv
<1>2. QED  BY <1>1, WorldInvariance, PTL

\* States and inputs are read as they were sent, through the packings of the
\* Master, the server and the Slaves (protocol_msg.c:420-876).
THEOREM PacketsArriveAsSent == WorldSpec => []PacketsSurviveTheTrip
<1>1. WorldInv => PacketsSurviveTheTrip
  <2> SUFFICES ASSUME WorldInv PROVE PacketsSurviveTheTrip
    OBVIOUS
  <2>1. CURRENT_GAME_STATE \in GameState /\ REFUSED \notin PlayerPos
    BY WorldAssumption DEF WorldInv, WorldTypeOK
  <2>2. UnpackGameState(PackGameState(CURRENT_GAME_STATE)) = CURRENT_GAME_STATE
    BY <2>1, GameStateRoundTrip
  <2>3. Shown(CURRENT_GAME_STATE) = CURRENT_GAME_STATE
    BY <2>2 DEF Shown
  <2>4. ASSUME NEW s \in Slave, NEW n \in DOMAIN inputs[s]
        PROVE  LET input == UnpackPlayerInput(inputs[s][n].payload)
               IN  input # REFUSED /\ input.id = s /\ [x |-> input.x, y |-> input.y] \in Move
    <3>1. inputs[s] \in Seq({SlaveInput(s, move) : move \in TypedBy(s)})
      BY DEF WorldInv, InputsWereTyped
    <3>2. inputs[s][n] \in {SlaveInput(s, move) : move \in TypedBy(s)}
      BY <2>4, <3>1
    <3>3. PICK move \in Move : inputs[s][n] = SlaveInput(s, move)
      BY <3>2, MoveTypes DEF TypedBy
    <3>4. /\ UnpackPlayerInput(inputs[s][n].payload) = [id |-> s, x |-> move.x, y |-> move.y]
          /\ [id |-> s, x |-> move.x, y |-> move.y] # REFUSED
          /\ [x |-> move.x, y |-> move.y] \in Move
      BY <3>3, InputIsRead, WorldAssumption
    <3>5. QED  BY <3>4
  <2>5. QED  BY <2>3, <2>4 DEF PacketsSurviveTheTrip
<1>2. QED  BY <1>1, WorldInvariance, PTL

-----------------------------------------------------------------------------
(* The last move of a Slave.                                                *)

\* The user of a Slave types no more: the last move has been made.  (In the
\* model MaxMoves ends it; a user that types for ever is not one whose last move
\* MoverStops is about.)
Moves(s) == \E move \in Move : SlaveMove(s, move)

TypingEnds == \A s \in Slave : <>[][~Moves(s)]_worldVars

\* The player stands still, as far as ticks are concerned, or is not there.
Rests(s) == LAST_PLAYER_INPUTS[s] = Still \/ s \notin playing

\* An input of zero is on its way.
StillWaits(s) == inputs[s] = <<SlaveInput(s, Still)>>

LEMMA FairnessOfSlave ==
  ASSUME NEW s \in Slave
  PROVE  ServedWorldSpec => WorldSpec /\ SlaveIsServed(s)
BY DEF ServedWorldSpec

\* The only input on its way becomes the last one when it is taken.
LEMMA StillIsStored ==
  ASSUME Parts, NEW s \in Slave, StillWaits(s), TakeInput(s)
  PROVE  LAST_PLAYER_INPUTS'[s] = Still
<1>1. Head(inputs[s]) = SlaveInput(s, Still)
  BY DEF StillWaits
<1>2. /\ UnpackPlayerInput(Head(inputs[s]).payload) = [id |-> s, x |-> Still.x, y |-> Still.y]
      /\ [id |-> s, x |-> Still.x, y |-> Still.y] # REFUSED
      /\ [x |-> Still.x, y |-> Still.y] = Still
  BY <1>1, MoveTypes, InputIsRead, WorldAssumption
<1>3. ParsedType(Head(inputs[s])) = "PLAYER_INPUT"
  BY <1>1 DEF SlaveInput, MsgPacket, ParsedType, MessageType
<1>4. LAST_PLAYER_INPUTS' = Stored([id |-> s, x |-> Still.x, y |-> Still.y])
  BY <1>2, <1>3 DEF TakeInput
<1>5. s \in OTHERS
  BY WorldAssumption
<1>6. QED  BY <1>2, <1>4, <1>5 DEF Stored

\* While the user is quiet, an empty channel gets no other input than one of zero.
LEMMA QuietChannel ==
  ASSUME Parts, [WorldNext]_worldVars, NEW s \in Slave, ~Moves(s), ~Rests(s)
  PROVE  /\ inputs[s] = <<>> => inputs'[s] = <<>> \/ StillWaits(s)' \/ Rests(s)'
         /\ StillWaits(s) => StillWaits(s)' \/ Rests(s)'
<1>1. TakeInput(s) => inputs[s] # <<>>
  BY DEF TakeInput, InputIsTaken
<1>2. TakeInput(s) /\ StillWaits(s) => Rests(s)'
  BY StillIsStored DEF Rests
<1>3. \A e : <<e>> # <<>>
  OBVIOUS
<1>4. QED  BY <1>1, <1>2, <1>3, ChannelSteps DEF ChannelStep, Moves, StillWaits, Rests

\* What one step does towards rest, once the user is quiet.
LEMMA StepsToRest ==
  ASSUME Parts, OneInputWaits, [WorldNext]_worldVars, NEW s \in Slave, ~Moves(s), ~Rests(s)
  PROVE  /\ inputs[s] = <<>> /\ SlaveFrame(s) => StillWaits(s)'
         /\ inputs[s] # <<>> /\ InputIsTaken(s) => inputs'[s] = <<>>
         /\ StillWaits(s) /\ InputIsTaken(s) => Rests(s)'
<1>1. SlaveFrame(s) => StillWaits(s)'
  BY MoveTypes, SendsKeeps DEF SlaveFrame, StillWaits
<1>2. InputIsTaken(s) => inputs[s] # <<>> /\ inputs'[s] = <<>>
  BY TakingEmpties
<1>3. ASSUME StillWaits(s), InputIsTaken(s) PROVE Rests(s)'
  <2>1. ~StillWaits(s)'
    BY <1>2, <1>3 DEF StillWaits
  <2>2. QED  BY <1>3, <2>1, QuietChannel
<1>4. QED  BY <1>1, <1>2, <1>3

\* While a Slave plays, an input of zero replaces its last move, for as often as
\* inputs are lost, taken late or taken from a former session of the Slave
\* (client.c:392-408, 655-674): a player does not move for ever.
THEOREM MoversComeToRest == ServedWorldSpec /\ TypingEnds => MoverStops
<1> SUFFICES ASSUME NEW s \in Slave
             PROVE  ServedWorldSpec /\ TypingEnds =>
                      (LAST_PLAYER_INPUTS[s] # Still ~>
                         LAST_PLAYER_INPUTS[s] = Still \/ s \notin playing)
  BY DEF MoverStops
<1> DEFINE Rest == Rests(s)
           None == inputs[s] = <<>>
           Zero == StillWaits(s)
           Types == Moves(s)
           CanSend == s \in playing /\ inputs[s] = <<>>
<1>1. Parts /\ [WorldNext]_worldVars /\ [~Types]_worldVars /\ ~Rest =>
        /\ None => None' \/ Zero' \/ Rest'
        /\ Zero => Zero' \/ Rest'
  <2>1. UNCHANGED worldVars => UNCHANGED <<inputs, LAST_PLAYER_INPUTS, playing>>
    BY DEF worldVars, slaveVars
  <2>2. QED  BY <2>1, QuietChannel DEF Rests, StillWaits
<1>2. Parts /\ OneInputWaits /\ [WorldNext]_worldVars /\ [~Types]_worldVars /\ ~Rest =>
        /\ None /\ <<SlaveFrame(s)>>_worldVars => Zero'
        /\ <<InputIsTaken(s)>>_inputs => None' /\ (Zero => Rest')
  <2>1. UNCHANGED worldVars => UNCHANGED inputs
    BY DEF worldVars
  <2>2. QED  BY <2>1, StepsToRest DEF InputIsTaken
<1>3. ~Rest /\ None => CanSend
  BY DEF Rests
<1>4. Zero => ~None
  <2>1. \A e : <<e>> # <<>>
    OBVIOUS
  <2>2. QED  BY <2>1 DEF StillWaits
<1>5. ServedWorldSpec => WorldSpec /\ SlaveIsServed(s)
  BY FairnessOfSlave
<1>6. TypingEnds => <>[][~Types]_worldVars
  BY DEF TypingEnds
<1>7. (LAST_PLAYER_INPUTS[s] # Still => ~Rest \/ Rest)
      /\ (Rest <=> LAST_PLAYER_INPUTS[s] = Still \/ s \notin playing)
  BY DEF Rests
<1>8. SlaveIsServed(s) => /\ []<>~CanSend \/ []<><<SlaveFrame(s)>>_worldVars
                          /\ []<>None \/ []<><<InputIsTaken(s)>>_inputs
  BY PTL DEF SlaveIsServed
<1> HIDE DEF Rest, None, Zero, Types, CanSend
<1> DEFINE Running == /\ []Parts /\ []OneInputWaits /\ [][WorldNext]_worldVars
                      /\ []<>~CanSend \/ []<><<SlaveFrame(s)>>_worldVars
                      /\ []<>None \/ []<><<InputIsTaken(s)>>_inputs
           Quiet == Running /\ [][~Types]_worldVars
<1>9. WorldSpec => []Parts /\ []OneInputWaits /\ [][WorldNext]_worldVars
  <2>1. WorldInv => OneInputWaits
    BY DEF WorldInv
  <2>2. QED  BY <2>1, WorldParts, WorldInvariance, PTL DEF WorldSpec
<1>10. Quiet => (None ~> Zero \/ Rest)
  BY <1>1, <1>2, <1>3, PTL
<1>11. Quiet => (Zero ~> Rest)
  BY <1>1, <1>2, <1>3, <1>4, PTL
<1>12. Quiet => (~None ~> None \/ Rest)
  BY <1>2, <1>3, PTL
<1>13. Quiet => []<>Rest
  BY <1>10, <1>11, <1>12, PTL
<1>14. ServedWorldSpec /\ TypingEnds => (~Rest ~> Rest)
  BY <1>5, <1>6, <1>8, <1>9, <1>13, PTL
<1>15. QED  BY <1>7, <1>14, PTL
=============================================================================
