---------------------------- MODULE CodecProofs ----------------------------
(***************************************************************************)
(* Proofs about Codec, for every width of an integer.                      *)
(***************************************************************************)
EXTENDS Codec, TLAPS

-----------------------------------------------------------------------------
(* Numbers.                                                                 *)

\* A number a uint32_t holds is what it is converted to.
LEMMA UInt32Kept ==
  ASSUME NEW v \in UInt32
  PROVE  ToUInt32(v) = v
<1>1. WORD \in Nat /\ WORD > 0 /\ v \in Nat /\ v < WORD
  BY CodecAssumption DEF WORD, UInt32
<1>2. QED  BY <1>1 DEF ToUInt32

\* So is one that an int32_t holds, the negative ones included.
LEMMA Int32Kept ==
  ASSUME NEW v \in Int32
  PROVE  ToInt32(v) = v
<1>1. WORD \in Nat /\ WORD = HALF + HALF /\ HALF \in Nat /\ HALF > 0 /\ v \in Int
  BY CodecAssumption DEF WORD, Int32
<1>2. CASE v >= 0
  <2>1. v < HALF /\ v < WORD
    BY <1>1, <1>2 DEF Int32
  <2>2. v % WORD = v
    BY <1>1, <1>2, <2>1
  <2>3. QED  BY <2>1, <2>2 DEF ToInt32
<1>3. CASE v < 0
  <2>1. v + WORD >= HALF /\ v + WORD < WORD
    BY <1>1, <1>3 DEF Int32
  <2>2. v % WORD = v + WORD
    BY <1>1, <2>1
  <2>3. QED  BY <1>1, <2>1, <2>2 DEF ToInt32
<1>4. QED  BY <1>1, <1>2, <1>3

-----------------------------------------------------------------------------
(* Fields.                                                                  *)

\* The last of one pair is that pair.
LEMMA LastOfOne ==
  ASSUME NEW k \in Nat
  PROVE  (CHOOSE i \in {k} : \A j \in {k} : j <= i) = k
OBVIOUS

\* What a field is when one pair has its key and passes its test, for each
\* test: the prover cannot take the test as a parameter.
LEMMA NaturalField ==
  ASSUME NEW map, NEW key, NEW k \in Nat, PairsOf(map, key, Natural) = {k}
  PROVE  Field(map, key, Natural) = map.via[k].val
BY LastOfOne DEF Field

LEMMA BooleanField ==
  ASSUME NEW map, NEW key, NEW k \in Nat, PairsOf(map, key, Boolean) = {k}
  PROVE  Field(map, key, Boolean) = map.via[k].val
BY LastOfOne DEF Field

LEMMA CoordinateField ==
  ASSUME NEW map, NEW key, NEW k \in Nat, PairsOf(map, key, Coordinate) = {k}
  PROVE  Field(map, key, Coordinate) = map.via[k].val
BY LastOfOne DEF Field

LEMMA AnyField ==
  ASSUME NEW map, NEW key, NEW k \in Nat, PairsOf(map, key, AnyType) = {k}
  PROVE  Field(map, key, AnyType) = map.via[k].val
BY LastOfOne DEF Field

\* An integer is read back whatever its sign.
LEMMA NumberRead ==
  ASSUME NEW v \in Int
  PROVE  /\ Int64(Number(v)) = v
         /\ Number(v).via = v
         /\ v >= 0 => Natural(Number(v))
BY DEF Int64, Number, Natural

-----------------------------------------------------------------------------
(* Round trips.                                                             *)

\* The server's word to a client about its id and role arrives as it was
\* (server.c:224-240, client.c:341-366).
THEOREM UserInfoRoundTrip ==
  ASSUME NEW user \in UserInfo
  PROVE  UnpackUserInfo(PackUserInfo(user)) = user
<1> DEFINE map == PackUserInfo(user)
<1>0. user.id \in UInt32 /\ user.is_master \in BOOLEAN /\ user = [id |-> user.id, is_master |-> user.is_master]
  BY DEF UserInfo
<1>1. user.id \in Int /\ user.id >= 0
  BY <1>0, CodecAssumption DEF UInt32, WORD
<1>2. /\ map.type = "MAP" /\ DOMAIN map.via = 1 .. 2
      /\ map.via[1] = [key |-> "id", val |-> Number(user.id)]
      /\ map.via[2] = [key |-> "is_master", val |-> Flag(user.is_master)]
  BY DEF PackUserInfo, Map, Pair
<1> HIDE DEF map
<1>3. PairsOf(map, "id", Natural) = {1}
  BY <1>1, <1>2, NumberRead DEF PairsOf
<1>4. PairsOf(map, "is_master", Boolean) = {2}
  BY <1>2 DEF PairsOf, Boolean, Flag
<1>5. Field(map, "id", Natural).via = user.id
  <2>1. Field(map, "id", Natural) = map.via[1].val
    BY <1>3, NaturalField
  <2>2. QED  BY <1>2, <2>1 DEF Number
<1>6. Field(map, "is_master", Boolean).via = user.is_master
  BY <1>2, <1>4, BooleanField DEF Flag
<1>7. UnpackUserInfo(map) = [id |-> user.id, is_master |-> user.is_master]
  BY <1>0, <1>2, <1>3, <1>4, <1>5, <1>6, UInt32Kept DEF UnpackUserInfo
<1>8. QED  BY <1>0, <1>7 DEF map

\* A Slave's input arrives at the Master as it was, whatever the signs
\* (client.c:184-216, client.c:392-408).
THEOREM PlayerInputRoundTrip ==
  ASSUME NEW input \in PlayerInput
  PROVE  UnpackPlayerInput(PackPlayerInput(input)) = input
<1> DEFINE map == PackPlayerInput(input)
<1>0. /\ input.id \in UInt32 /\ input.x \in Int32 /\ input.y \in Int32
      /\ input = [id |-> input.id, x |-> input.x, y |-> input.y]
  BY DEF PlayerInput
<1>1. input.id \in Int /\ input.id >= 0 /\ input.x \in Int /\ input.y \in Int
  BY <1>0, CodecAssumption DEF UInt32, Int32, WORD
<1>2. /\ map.type = "MAP" /\ DOMAIN map.via = 1 .. 3
      /\ map.via[1] = [key |-> "id", val |-> Number(input.id)]
      /\ map.via[2] = [key |-> "x", val |-> Number(input.x)]
      /\ map.via[3] = [key |-> "y", val |-> Number(input.y)]
  BY DEF PackPlayerInput, Map, Pair
<1> HIDE DEF map
<1>3. PairsOf(map, "id", Natural) = {1}
  BY <1>1, <1>2, NumberRead DEF PairsOf
<1>4. PairsOf(map, "x", Coordinate) = {2} /\ PairsOf(map, "y", Coordinate) = {3}
  BY <1>2 DEF PairsOf, Coordinate, AnyType
<1>5. Field(map, "id", Natural).via = input.id
  <2>1. Field(map, "id", Natural) = map.via[1].val
    BY <1>3, NaturalField
  <2>2. QED  BY <1>2, <2>1 DEF Number
<1>6. Int64(Field(map, "x", Coordinate)) = input.x /\ Int64(Field(map, "y", Coordinate)) = input.y
  BY <1>1, <1>2, <1>4, CoordinateField, NumberRead
<1>7. UnpackPlayerInput(map) = [id |-> input.id, x |-> input.x, y |-> input.y]
  BY <1>0, <1>2, <1>3, <1>4, <1>5, <1>6, UInt32Kept, Int32Kept
     DEF UnpackPlayerInput, HasCoordinates
<1>8. QED  BY <1>0, <1>7 DEF map

\* A position inside a world is unpacked as it was packed.
LEMMA PlayerPosRoundTrip ==
  ASSUME NEW pos \in PlayerPos
  PROVE  UnpackPlayerPos(PackPlayerPos(pos)) = pos
<1> DEFINE map == PackPlayerPos(pos)
<1>0. /\ pos.is_exists \in BOOLEAN /\ pos.x \in Int32 /\ pos.y \in Int32
      /\ pos = [is_exists |-> pos.is_exists, x |-> pos.x, y |-> pos.y]
  BY DEF PlayerPos
<1>1. pos.x \in Int /\ pos.y \in Int
  BY <1>0, CodecAssumption DEF Int32
<1>2. /\ map.type = "MAP" /\ DOMAIN map.via = 1 .. 3
      /\ map.via[1] = [key |-> "is_exists", val |-> Flag(pos.is_exists)]
      /\ map.via[2] = [key |-> "x", val |-> Number(pos.x)]
      /\ map.via[3] = [key |-> "y", val |-> Number(pos.y)]
  BY DEF PackPlayerPos, Map, Pair
<1> HIDE DEF map
<1>3. PairsOf(map, "is_exists", Boolean) = {1}
  BY <1>2 DEF PairsOf, Boolean, Flag
<1>4. PairsOf(map, "x", Coordinate) = {2} /\ PairsOf(map, "y", Coordinate) = {3}
  BY <1>2 DEF PairsOf, Coordinate, AnyType
<1>5. Field(map, "is_exists", Boolean).via = pos.is_exists
  BY <1>2, <1>3, BooleanField DEF Flag
<1>6. Int64(Field(map, "x", Coordinate)) = pos.x /\ Int64(Field(map, "y", Coordinate)) = pos.y
  BY <1>1, <1>2, <1>4, CoordinateField, NumberRead
<1>7. UnpackPlayerPos(map) = [is_exists |-> pos.is_exists, x |-> pos.x, y |-> pos.y]
  BY <1>0, <1>2, <1>3, <1>4, <1>5, <1>6, Int32Kept DEF UnpackPlayerPos, HasCoordinates
<1>8. QED  BY <1>0, <1>7 DEF map

\* A world arrives as its Master sent it, and the server's unpacking and
\* packing on the way (server.c:338-347) changes nothing.  The assumption on
\* REFUSED: no structure is taken for a refusal.
THEOREM GameStateRoundTrip ==
  ASSUME NEW state \in GameState, REFUSED \notin PlayerPos
  PROVE  UnpackGameState(PackGameState(state)) = state
<1> DEFINE map == PackGameState(state)
<1>0. /\ state.tick \in UInt32 /\ state.pos \in [Positions -> PlayerPos]
      /\ state = [tick |-> state.tick, pos |-> state.pos]
  BY DEF GameState
<1>1. state.tick \in Int /\ state.tick >= 0
  BY <1>0, CodecAssumption DEF UInt32, WORD
<1>2. /\ map.type = "MAP" /\ DOMAIN map.via = 1 .. 5
      /\ map.via[1] = [key |-> "tick", val |-> Number(state.tick)]
      /\ map.via[2] = [key |-> "pos_1", val |-> PackPlayerPos(state.pos[1])]
      /\ map.via[3] = [key |-> "pos_2", val |-> PackPlayerPos(state.pos[2])]
      /\ map.via[4] = [key |-> "pos_3", val |-> PackPlayerPos(state.pos[3])]
      /\ map.via[5] = [key |-> "pos_4", val |-> PackPlayerPos(state.pos[4])]
  BY DEF PackGameState, Map, Pair
<1> HIDE DEF map
<1>3. PairsOf(map, "tick", Natural) = {1}
  BY <1>1, <1>2, NumberRead DEF PairsOf
<1>4. Field(map, "tick", Natural).via = state.tick
  <2>1. Field(map, "tick", Natural) = map.via[1].val
    BY <1>3, NaturalField
  <2>2. QED  BY <1>2, <2>1 DEF Number
<1>5. \A i \in Positions : PairsOf(map, POS_KEY[i], AnyType) = {i + 1}
  <2>1. PairsOf(map, "pos_1", AnyType) = {2}
    BY <1>2 DEF PairsOf, AnyType
  <2>2. PairsOf(map, "pos_2", AnyType) = {3}
    BY <1>2 DEF PairsOf, AnyType
  <2>3. PairsOf(map, "pos_3", AnyType) = {4}
    BY <1>2 DEF PairsOf, AnyType
  <2>4. PairsOf(map, "pos_4", AnyType) = {5}
    BY <1>2 DEF PairsOf, AnyType
  <2>5. /\ POS_KEY[1] = "pos_1" /\ POS_KEY[2] = "pos_2"
        /\ POS_KEY[3] = "pos_3" /\ POS_KEY[4] = "pos_4"
    BY DEF POS_KEY
  <2>6. Positions = {1, 2, 3, 4}
    BY DEF Positions
  <2>7. QED  BY <2>1, <2>2, <2>3, <2>4, <2>5, <2>6
<1>6. \A i \in Positions : map.via[i + 1].val = PackPlayerPos(state.pos[i])
  BY <1>2 DEF Positions
<1>7. \A i \in Positions : Field(map, POS_KEY[i], AnyType) = PackPlayerPos(state.pos[i])
  <2> SUFFICES ASSUME NEW i \in Positions
               PROVE  Field(map, POS_KEY[i], AnyType) = PackPlayerPos(state.pos[i])
    OBVIOUS
  <2>1. i + 1 \in Nat
    BY DEF Positions
  <2>2. Field(map, POS_KEY[i], AnyType) = map.via[i + 1].val
    BY <1>5, <2>1, AnyField
  <2>3. QED  BY <1>6, <2>2
<1>8. \A i \in Positions : UnpackPlayerPos(PackPlayerPos(state.pos[i])) = state.pos[i]
  BY <1>0, PlayerPosRoundTrip
<1>9. \A i \in Positions : state.pos[i] # REFUSED
  BY <1>0
<1>10. \A i \in Positions :
         /\ PairsOf(map, POS_KEY[i], AnyType) # {}
         /\ \A n \in PairsOf(map, POS_KEY[i], AnyType) : UnpackPlayerPos(map.via[n].val) # REFUSED
  BY <1>5, <1>6, <1>8, <1>9
<1>11. [i \in Positions |-> UnpackPlayerPos(Field(map, POS_KEY[i], AnyType))] = state.pos
  <2>1. [i \in Positions |-> UnpackPlayerPos(Field(map, POS_KEY[i], AnyType))]
          = [i \in Positions |-> state.pos[i]]
    BY <1>7, <1>8
  <2>2. QED  BY <1>0, <2>1
<1>12. UnpackGameState(map) = [tick |-> state.tick, pos |-> state.pos]
  BY <1>0, <1>2, <1>3, <1>4, <1>10, <1>11, UInt32Kept DEF UnpackGameState
<1>13. QED  BY <1>0, <1>12 DEF map

-----------------------------------------------------------------------------
(* Refusals.                                                                *)

\* None of the four structures is read from the map that another kind was packed
\* into (protocol_msg.c:239-875): a key that it cannot do without is missing, so
\* that a wrong type byte, or a position in the place of a state, is refused and
\* leaves what the receiver has alone.
THEOREM OtherKindsAreRefused ==
  ASSUME NEW user \in UserInfo, NEW input \in PlayerInput,
         NEW pos \in PlayerPos, NEW state \in GameState
  PROVE  /\ \A map \in {PackPlayerInput(input), PackPlayerPos(pos), PackGameState(state)} :
              UnpackUserInfo(map) = REFUSED
         /\ \A map \in {PackUserInfo(user), PackPlayerPos(pos), PackGameState(state)} :
              UnpackPlayerInput(map) = REFUSED
         /\ \A map \in {PackUserInfo(user), PackPlayerInput(input), PackGameState(state)} :
              UnpackPlayerPos(map) = REFUSED
         /\ \A map \in {PackUserInfo(user), PackPlayerInput(input), PackPlayerPos(pos)} :
              UnpackGameState(map) = REFUSED
<1>1. /\ PairsOf(PackPlayerInput(input), "is_master", Boolean) = {}
      /\ PairsOf(PackPlayerInput(input), "is_exists", Boolean) = {}
      /\ PairsOf(PackPlayerInput(input), "tick", Natural) = {}
  BY DEF PackPlayerInput, Map, Pair, PairsOf
<1>2. /\ PairsOf(PackUserInfo(user), "x", Coordinate) = {}
      /\ PairsOf(PackUserInfo(user), "tick", Natural) = {}
  BY DEF PackUserInfo, Map, Pair, PairsOf
<1>3. /\ PairsOf(PackPlayerPos(pos), "id", Natural) = {}
      /\ PairsOf(PackPlayerPos(pos), "tick", Natural) = {}
  BY DEF PackPlayerPos, Map, Pair, PairsOf
<1>4. /\ PairsOf(PackGameState(state), "id", Natural) = {}
      /\ PairsOf(PackGameState(state), "x", Coordinate) = {}
  BY DEF PackGameState, Map, Pair, PairsOf
<1>5. \A map \in {PackPlayerInput(input), PackPlayerPos(pos), PackGameState(state)} :
        UnpackUserInfo(map) = REFUSED
  BY <1>1, <1>3, <1>4 DEF UnpackUserInfo
<1>6. \A map \in {PackUserInfo(user), PackPlayerPos(pos), PackGameState(state)} :
        UnpackPlayerInput(map) = REFUSED
  BY <1>2, <1>3, <1>4 DEF UnpackPlayerInput, HasCoordinates
<1>7. \A map \in {PackUserInfo(user), PackPlayerInput(input), PackGameState(state)} :
        UnpackPlayerPos(map) = REFUSED
  BY <1>1, <1>2, <1>4 DEF UnpackPlayerPos, HasCoordinates
<1>8. \A map \in {PackUserInfo(user), PackPlayerInput(input), PackPlayerPos(pos)} :
        UnpackGameState(map) = REFUSED
  BY <1>1, <1>2, <1>3 DEF UnpackGameState
<1>9. QED  BY <1>5, <1>6, <1>7, <1>8
=============================================================================
