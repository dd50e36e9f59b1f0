----------------------------- MODULE ServerLink -----------------------------
(***************************************************************************)
(* What the relay server promises one client on one connection, without a   *)
(* table, other clients or channels.  A client may ask who it is; the       *)
(* server gives it a role once, or refuses.  The role is what the client    *)
(* hears first, and once.  News of Slaves and the inputs of others come to  *)
(* a Master only: the news after it heard that it is one, the inputs        *)
(* perhaps before.                                                          *)
(***************************************************************************)
EXTENDS Naturals

CONSTANT SlaveId    \* ids of Slaves

VARIABLES open,     \* there is a connection
          asked,    \* requests the server has yet to handle
          given,    \* the role the server gave: a set of at most one BOOLEAN,
                    \* TRUE for the Master's
          told,     \* the role the client has heard, likewise
          news,     \* Slaves the client has heard of
          inputs    \* inputs of others on their way to the client

linkVars == <<open, asked, given, told, news, inputs>>

Init == /\ open = FALSE
        /\ asked = 0
        /\ given = {}
        /\ told = {}
        /\ news = {}
        /\ inputs = 0

Open == /\ ~open
        /\ open' = TRUE
        /\ UNCHANGED <<asked, given, told, news, inputs>>

Ask == /\ open
       /\ asked' = asked + 1
       /\ UNCHANGED <<open, given, told, news, inputs>>

Give(role) == /\ asked > 0 /\ given = {}
              /\ asked' = asked - 1
              /\ given' = {role}
              /\ UNCHANGED <<open, told, news, inputs>>

Refuse == /\ asked > 0
          /\ asked' = asked - 1
          /\ UNCHANGED <<open, given, told, news, inputs>>

\* The connection breaks down; what the client asked is dropped, what it was
\* sent may still reach it.
Break == /\ open
         /\ asked' = 0
         /\ UNCHANGED <<open, given, told, news, inputs>>

Tell == /\ given # {} /\ told = {}
        /\ told' = given
        /\ UNCHANGED <<open, asked, given, news, inputs>>

TellOfSlave(s) == /\ told = {TRUE}
                  /\ news' = news \union {s}
                  /\ UNCHANGED <<open, asked, given, told, inputs>>

SendInput == /\ given = {TRUE}
             /\ inputs' = inputs + 1
             /\ UNCHANGED <<open, asked, given, told, news>>

TakeInput == /\ inputs > 0
             /\ inputs' = inputs - 1
             /\ UNCHANGED <<open, asked, given, told, news>>

\* Nothing of a connection is left for the next one.
Close == /\ open /\ asked = 0
         /\ open' = FALSE
         /\ given' = {} /\ told' = {} /\ news' = {}
         /\ inputs' = 0
         /\ UNCHANGED asked

Next == \/ Open \/ Ask \/ Refuse \/ Break \/ Tell \/ SendInput \/ TakeInput \/ Close
        \/ \E role \in BOOLEAN : Give(role)
        \/ \E s \in SlaveId : TellOfSlave(s)

Spec == Init /\ [][Next]_linkVars
=============================================================================
