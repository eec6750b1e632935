------------------------------- MODULE Talkers -------------------------------
(* Reaper with the time of the last message of each socket, whether its    *)
(* handler came to its end or not.                                         *)
EXTENDS Reaper

VARIABLE heard  \* heard[s]: age of the last message received on socket s

talkVars == <<conn, lastSeen, armed, due, heard>>

TalkersInit == ReaperInit /\ heard = [s \in Sockets |-> 0]

Message(s) ==
    /\ Handled(s) \/ Failed(s) \/ Refused(s)
    /\ heard' = [heard EXCEPT ![s] = 0]

Silence ==
    /\ Tick
    /\ heard' = [s \in Sockets |-> IF s \in Listed THEN Older(heard[s]) ELSE 0]

ComeAndGo(s) ==
    /\ Fetch(s) \/ Depart(s)
    /\ heard' = [heard EXCEPT ![s] = 0]

TalkersNext ==
    \/ \E s \in Sockets : Message(s) \/ ComeAndGo(s)
    \/ Silence
    \/ Alarm /\ UNCHANGED heard

TalkersSpec == TalkersInit /\ [][TalkersNext]_talkVars

\* "Last time (in millis since epoch) any message was received on this
\* socket" (last_seen_ms): an open socket the alarm closes as dead has sent
\* nothing for SOCKET_TIMEOUT_MS.
TalkersSpared ==
    [][\A s \in Sockets :
          (Alarm /\ conn[s] = "open" /\ conn'[s] = "closing") => heard[s] > Timeout]_talkVars
=============================================================================
