--------------------------- MODULE MasterSession ---------------------------
(***************************************************************************)
(* What the relay server promises about authority, without slots, peers or *)
(* messages.  Players join and leave a session; the player who joins an    *)
(* empty session is its Master, and keeps that role until it leaves.       *)
(* Nobody replaces a Master that left: the players who remain are Slaves   *)
(* without a Master until the last of them has left.                       *)
(***************************************************************************)
EXTENDS Naturals, FiniteSets

CONSTANTS Player,    \* identities; one for each connection to the server
          NoMaster,  \* the value of master while there is none
          Capacity   \* how many players the session holds

VARIABLES members,   \* the players in the session
          master     \* the Master, or NoMaster

sessionVars == <<members, master>>

Init == /\ members = {}
        /\ master = NoMaster

Join(p) == /\ p \notin members
           /\ Cardinality(members) < Capacity
           /\ members' = members \union {p}
           /\ master' = IF members = {} THEN p ELSE master

Leave(p) == /\ p \in members
            /\ members' = members \ {p}
            /\ master' = IF master = p THEN NoMaster ELSE master

Next == \E p \in Player : Join(p) \/ Leave(p)

Spec == Init /\ [][Next]_sessionVars
=============================================================================
