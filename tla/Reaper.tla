-------------------------------- MODULE Reaper -------------------------------
(***************************************************************************)
(* How soon a relay room closes a silent socket (relay_room.rs).  RelayRoom *)
(* knows silence and the cleanup alarm as flags; here they have a time:    *)
(* the age of a socket's last_seen_ms and what is left until the alarm is  *)
(* due.  One room, whose storage does not fail; the clock does not step    *)
(* back.  Identities, groups and routes are in RelayRoom.                  *)
(***************************************************************************)
EXTENDS Integers

CONSTANTS
    Sockets,     \* WebSockets the runtime can hand out
    Timeout,     \* SOCKET_TIMEOUT_MS
    Interval,    \* CLEANUP_INTERVAL_MS
    Late         \* how long past its time the runtime may deliver an alarm

ASSUME TimeAssumption == {Timeout, Interval, Late} \subseteq Nat

VARIABLES
    conn,      \* conn[s]: "free", "open", or "closing" (closed by us, still listed)
    lastSeen,  \* lastSeen[s]: now - last_seen_ms of the attachment
    armed,     \* the cleanup alarm is set
    due        \* time until the alarm is due, negative when it is late

reaperVars == <<conn, lastSeen, armed, due>>

Deadline == Timeout + Interval + Late

\* Ages past the deadline are alike.
Older(age) == IF age > Deadline THEN age ELSE age + 1

ReaperInit ==
    /\ conn = [s \in Sockets |-> "free"]
    /\ lastSeen = [s \in Sockets |-> 0]
    /\ armed = FALSE
    /\ due = 0

-----------------------------------------------------------------------------
Listed == {s \in Sockets : conn[s] # "free"}

\* (mutants) every new connection moves the alarm: to a whole interval from
\* now, or by an interval.
PostponeCleanupAlarm(pending) == armed' = TRUE /\ due' = Interval
ProlongCleanupAlarm(pending) ==
    /\ armed' = TRUE
    /\ due' = IF pending THEN due + Interval ELSE Interval

\* schedule_cleanup_alarm: a pending alarm keeps its time.
ScheduleCleanupAlarm(pending) ==
    /\ armed' = TRUE
    /\ due' = IF pending THEN due ELSE Interval

Fetch(s) ==
    /\ conn[s] = "free"
    /\ conn' = [conn EXCEPT ![s] = "open"]
    /\ lastSeen' = [lastSeen EXCEPT ![s] = 0]
    /\ ScheduleCleanupAlarm(armed)

\* A message whose handler runs to its end: last_seen_ms is written.
Handled(s) ==
    /\ s \in Listed
    /\ lastSeen' = [lastSeen EXCEPT ![s] = 0]
    /\ UNCHANGED <<conn, armed, due>>

\* A message whose handler fails on a send, which it does only on a socket
\* that is being closed: its own (the answer) or another (the packet it
\* forwards).  The attachment is not written.
Failed(s) ==
    /\ s \in Listed
    /\ \E t \in Sockets : conn[t] = "closing"
    /\ UNCHANGED reaperVars

\* A handshake that is refused closes the socket.
Refused(s) ==
    /\ s \in Listed
    /\ conn' = [conn EXCEPT ![s] = "closing"]
    /\ lastSeen' = [lastSeen EXCEPT ![s] = 0]
    /\ UNCHANGED <<armed, due>>

\* websocket_close, websocket_error: the runtime no longer lists the socket.
Depart(s) ==
    /\ s \in Listed
    /\ conn' = [conn EXCEPT ![s] = "free"]
    /\ lastSeen' = [lastSeen EXCEPT ![s] = 0]
    /\ UNCHANGED <<armed, due>>

Dead == {s \in Listed : lastSeen[s] > Timeout}
Alive == Listed \ Dead

\* (mutant) the alarm is set again whoever is left.
RestlessAlarm ==
    /\ armed /\ due <= 0
    /\ conn' = [s \in Sockets |-> IF s \in Dead THEN "closing" ELSE conn[s]]
    /\ ScheduleCleanupAlarm(FALSE)
    /\ UNCHANGED lastSeen

\* alarm: close the silent sockets; the alarm that fires is no longer set and
\* is set again while another socket is listed.
Alarm ==
    /\ armed /\ due <= 0
    /\ conn' = [s \in Sockets |-> IF s \in Dead THEN "closing" ELSE conn[s]]
    /\ IF Alive = {}
       THEN armed' = FALSE /\ due' = 0
       ELSE ScheduleCleanupAlarm(FALSE)
    /\ UNCHANGED lastSeen

\* Time passes, unless an alarm is as late as it may be.
Tick ==
    /\ armed => due > -Late
    /\ lastSeen' = [s \in Sockets |-> IF s \in Listed THEN Older(lastSeen[s]) ELSE 0]
    /\ due' = IF armed THEN due - 1 ELSE due
    /\ UNCHANGED <<conn, armed>>

SocketEvent(s) == Fetch(s) \/ Handled(s) \/ Failed(s) \/ Refused(s) \/ Depart(s)
ReaperNext == (\E s \in Sockets : SocketEvent(s)) \/ Alarm \/ Tick

ReaperSpec == ReaperInit /\ [][ReaperNext]_reaperVars

-----------------------------------------------------------------------------
ReaperTypeOK ==
    /\ conn \in [Sockets -> {"free", "open", "closing"}]
    /\ lastSeen \in [Sockets -> 0..(Deadline + 1)]
    /\ armed \in BOOLEAN
    /\ due \in -Late..Interval

\* No open socket is silent for longer than the timeout, one alarm interval
\* and the alarm's own lateness, however connections, messages and alarms that
\* find nobody alive (and leave the alarm unset) interleave.
ReapedInTime == \A s \in Sockets : conn[s] = "open" => lastSeen[s] <= Deadline
=============================================================================
