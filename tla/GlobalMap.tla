------------------------------ MODULE GlobalMap ------------------------------
(* What the peer center promises: each group has one set of known direct   *)
(* connections, reports only add to it, and a client that asks then knows  *)
(* exactly that set.  A restart of the server loses it.                    *)
CONSTANTS Clients, GroupKeys, GroupOf, Pairs

VARIABLES
    known,  \* known[g]: direct connections reported in group g
    view    \* view[c]: direct connections client c knows of

MapInit ==
    /\ known = [g \in GroupKeys |-> {}]
    /\ view = [c \in Clients |-> {}]

Learn(g, ps) ==
    /\ known' = [known EXCEPT ![g] = @ \cup ps]
    /\ UNCHANGED view

See(c) ==
    /\ view' = [view EXCEPT ![c] = known[GroupOf[c]]]
    /\ UNCHANGED known

Arrive(c) ==
    /\ view' = [view EXCEPT ![c] = {}]
    /\ UNCHANGED known

Forget ==
    /\ known' = [g \in GroupKeys |-> {}]
    /\ UNCHANGED view

MapNext ==
    \/ \E g \in GroupKeys, ps \in SUBSET Pairs : Learn(g, ps)
    \/ \E c \in Clients : See(c) \/ Arrive(c)
    \/ Forget

Spec == MapInit /\ [][MapNext]_<<known, view>>
=============================================================================
