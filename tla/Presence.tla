------------------------------ MODULE Presence ------------------------------
(***************************************************************************)
(* What the relay promises about membership, with nothing of how: a peer   *)
(* is a member of its group from its first identified connection to the    *)
(* end of its last one.  There are no close events, hibernation, restarts  *)
(* or rooms here; RelayRoomPresence shows that relay_room.rs implements    *)
(* this through all of them.                                               *)
(***************************************************************************)
CONSTANTS
    Connections,   \* what a client connects with
    Identities,    \* records with the fields peer and group
    Groups,
    Nobody         \* a connection that has not said who it is

VARIABLES
    who,       \* who[c]: the identity the connection c speaks for
    members    \* members[g]: the peers in group g

Init ==
    /\ who = [c \in Connections |-> Nobody]
    /\ members = [g \in Groups |-> {}]

\* A connection says, perhaps again, who it is.
Join(c, id) ==
    /\ who[c] \in {Nobody, id}
    /\ who' = [who EXCEPT ![c] = id]
    /\ members' = [members EXCEPT ![id.group] = @ \cup {id.peer}]

\* The last connection of a peer takes the peer with it.
Last(c) == \A d \in Connections \ {c} : who[d] # who[c]

Leave(c) ==
    /\ who[c] # Nobody
    /\ who' = [who EXCEPT ![c] = Nobody]
    /\ members' = IF Last(c)
                  THEN [members EXCEPT ![who[c].group] = @ \ {who[c].peer}]
                  ELSE members

Next == \E c \in Connections : Leave(c) \/ \E id \in Identities : Join(c, id)

Spec == Init /\ [][Next]_<<who, members>>
=============================================================================
