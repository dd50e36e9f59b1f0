------------------------------- MODULE Codec -------------------------------
(***************************************************************************)
(* The messages of src/protocol_msg.c: the type byte in front, how a       *)
(* structure is packed into a MessagePack map, and how one is unpacked.    *)
(*                                                                         *)
(* A MessagePack object is a record with a type; a map is the sequence of  *)
(* its pairs, in the order they were packed or arrived.  The bytes of an   *)
(* object are msgpack-c's affair, but one thing it does matters here: an   *)
(* integer that is not negative is a POSITIVE_INTEGER whatever C type it   *)
(* was packed from.                                                        *)
(***************************************************************************)
EXTENDS Integers, Sequences

CONSTANTS HALF,    \* 2^31, what the sign bit of an int32_t stands for
          JUNK,    \* what via.i64 reads of an object that is no integer
          REFUSED  \* the answer of an unpacking that returns false

ASSUME CodecAssumption == HALF \in Nat \ {0} /\ JUNK \in Int

WORD == 2 * HALF
Int32 == (-HALF) .. (HALF - 1)
UInt32 == 0 .. (WORD - 1)

Positions == 1 .. 4

UserInfo == [id : UInt32, is_master : BOOLEAN]
PlayerInput == [id : UInt32, x : Int32, y : Int32]
PlayerPos == [is_exists : BOOLEAN, x : Int32, y : Int32]
GameState == [tick : UInt32, pos : [Positions -> PlayerPos]]

MessageType == {"REQ_USER_INFO", "RES_USER_INFO", "GAME_STATE_UPD", "PLAYER_INPUT",
                "SLAVE_CONNECTED"}

\* C's conversions to 32 bits.
ToUInt32(v) == v % WORD

ToInt32(v) == IF v % WORD < HALF THEN v % WORD ELSE (v % WORD) - WORD

-----------------------------------------------------------------------------
(* Packing.                                                                 *)

Number(v) == [type |-> IF v >= 0 THEN "POSITIVE_INTEGER" ELSE "NEGATIVE_INTEGER", via |-> v]
Flag(b) == [type |-> "BOOLEAN", via |-> b]
Map(pairs) == [type |-> "MAP", via |-> pairs]
Pair(key, object) == [key |-> key, val |-> object]

PackUserInfo(user) ==
  Map(<<Pair("id", Number(user.id)), Pair("is_master", Flag(user.is_master))>>)

PackPlayerInput(input) ==
  Map(<<Pair("id", Number(input.id)), Pair("x", Number(input.x)), Pair("y", Number(input.y))>>)

PackPlayerPos(pos) ==
  Map(<<Pair("is_exists", Flag(pos.is_exists)), Pair("x", Number(pos.x)), Pair("y", Number(pos.y))>>)

POS_KEY == <<"pos_1", "pos_2", "pos_3", "pos_4">>

PackGameState(state) ==
  Map(<<Pair("tick", Number(state.tick)), Pair("pos_1", PackPlayerPos(state.pos[1])),
        Pair("pos_2", PackPlayerPos(state.pos[2])), Pair("pos_3", PackPlayerPos(state.pos[3])),
        Pair("pos_4", PackPlayerPos(state.pos[4]))>>)

-----------------------------------------------------------------------------
(* Unpacking.  Pairs come in any order, and a later one overrides an earlier *)
(* one.  A pair is passed over when its key is unknown, or when its value is *)
(* not what an id, a tick or a flag is.  Of a coordinate the type is never   *)
(* tested.  A structure with a field missing is refused.  (The keys of a     *)
(* position are compared by their first letters only: no matter among these.) *)

Natural(object) == object.type = "POSITIVE_INTEGER"
Boolean(object) == object.type = "BOOLEAN"
AnyType(object) == TRUE

\* Mutant: a coordinate is tested like an id.
LikeAnId(object) == object.type = "POSITIVE_INTEGER"

Coordinate(object) == AnyType(object)

PairsOf(map, key, Test(_)) ==
  {i \in DOMAIN map.via : map.via[i].key = key /\ Test(map.via[i].val)}

Field(map, key, Test(_)) ==
  LET found == PairsOf(map, key, Test)
  IN  map.via[CHOOSE i \in found : \A j \in found : j <= i].val

Int64(object) == IF object.type \in {"POSITIVE_INTEGER", "NEGATIVE_INTEGER"}
                 THEN object.via ELSE JUNK

HasCoordinates(map) == PairsOf(map, "x", Coordinate) # {} /\ PairsOf(map, "y", Coordinate) # {}

UnpackUserInfo(map) ==
  IF /\ map.type = "MAP"
     /\ PairsOf(map, "id", Natural) # {} /\ PairsOf(map, "is_master", Boolean) # {}
  THEN [id |-> ToUInt32(Field(map, "id", Natural).via),
        is_master |-> Field(map, "is_master", Boolean).via]
  ELSE REFUSED

UnpackPlayerInput(map) ==
  IF map.type = "MAP" /\ PairsOf(map, "id", Natural) # {} /\ HasCoordinates(map)
  THEN [id |-> ToUInt32(Field(map, "id", Natural).via),
        x |-> ToInt32(Int64(Field(map, "x", Coordinate))),
        y |-> ToInt32(Int64(Field(map, "y", Coordinate)))]
  ELSE REFUSED

UnpackPlayerPos(map) ==
  IF map.type = "MAP" /\ PairsOf(map, "is_exists", Boolean) # {} /\ HasCoordinates(map)
  THEN [is_exists |-> Field(map, "is_exists", Boolean).via,
        x |-> ToInt32(Int64(Field(map, "x", Coordinate))),
        y |-> ToInt32(Int64(Field(map, "y", Coordinate)))]
  ELSE REFUSED

\* One position that is refused makes the whole state refused.
UnpackGameState(map) ==
  IF /\ map.type = "MAP" /\ PairsOf(map, "tick", Natural) # {}
     /\ \A i \in Positions :
          /\ PairsOf(map, POS_KEY[i], AnyType) # {}
          /\ \A n \in PairsOf(map, POS_KEY[i], AnyType) :
               UnpackPlayerPos(map.via[n].val) # REFUSED
  THEN [tick |-> ToUInt32(Field(map, "tick", Natural).via),
        pos |-> [i \in Positions |-> UnpackPlayerPos(Field(map, POS_KEY[i], AnyType))]]
  ELSE REFUSED

-----------------------------------------------------------------------------
(* Packets: a type byte, and a payload.                                     *)

MsgPacket(msg_type, payload) == [type |-> msg_type, payload |-> payload]

\* A packet of a type the program does not know is dropped.
ParsedType(packet) == IF packet.type \in MessageType THEN packet.type ELSE "NONE"
=============================================================================
