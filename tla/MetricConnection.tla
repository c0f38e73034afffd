-------------------------- MODULE MetricConnection --------------------------
(***************************************************************************)
(* write_metric (monitor/utils.py): the coroutines of an application write *)
(* their metrics through one connection, kept in a variable of the module, *)
(* which each write first pings and replaces when there is no answer.      *)
(***************************************************************************)
EXTENDS Integers, FiniteSets

CONSTANTS
    Writers,          \* coroutines that write metrics
    MaxConnections,   \* bound: connections ever opened
    MaxDrops,         \* bound: connections that drop by themselves
    MaxMistakes,      \* bound: live connections taken for dead ones
    NoConnection

Connections == 1..MaxConnections

VARIABLES
    state,      \* _state["redis"]
    opened,     \* number of connections opened so far
    up,         \* connections that are open at both ends
    pc,         \* where each writer is
    used,       \* the connection it pings or writes to
    drops,      \* connections that dropped alone, while Redis kept the others
    mistaken    \* pings that failed over a live connection

vars == <<state, opened, up, pc, used, drops, mistaken>>

TypeOK ==
    /\ state \in Connections \cup {NoConnection}
    /\ opened \in 0..MaxConnections
    /\ up \subseteq 1..opened
    /\ pc \in [Writers -> {"idle", "ping", "connect", "zadd"}]
    /\ used \in [Writers -> Connections \cup {NoConnection}]
    /\ drops \in 0..MaxDrops
    /\ mistaken \in 0..MaxMistakes

Init ==
    /\ state = NoConnection
    /\ opened = 0
    /\ up = {}
    /\ pc = [w \in Writers |-> "idle"]
    /\ used = [w \in Writers |-> NoConnection]
    /\ drops = 0
    /\ mistaken = 0

Goto(w, from, to) ==
    /\ pc[w] = from
    /\ pc' = [pc EXCEPT ![w] = to]

\* utils.py:32 and 17: the first write finds None, which has no ping.
WriteMetric(w) ==
    /\ Goto(w, "idle", IF state = NoConnection THEN "connect" ELSE "ping")
    /\ used' = [used EXCEPT ![w] = state]
    /\ UNCHANGED <<state, opened, up, drops, mistaken>>

\* utils.py:17 and 28: the connection returned is that of the moment, which another
\* writer may have put there during the ping.
PingAnswered(w) ==
    /\ used[w] \in up
    /\ Goto(w, "ping", "zadd")
    /\ used' = [used EXCEPT ![w] = state]
    /\ UNCHANGED <<state, opened, up, drops, mistaken>>

\* utils.py:18.
PingFails(w) ==
    /\ used[w] \notin up
    /\ Goto(w, "ping", "connect")
    /\ UNCHANGED <<state, opened, up, used, drops, mistaken>>

\* utils.py:18: the bare except takes whatever the ping raises for a dead connection,
\* also the error that a live Redis answers (while it loads its data) and the
\* CancelledError of a writer that is cancelled during its ping, and which goes on.
PingMistaken(w) ==
    /\ used[w] \in up
    /\ mistaken < MaxMistakes
    /\ Goto(w, "ping", "connect")
    /\ mistaken' = mistaken + 1
    /\ UNCHANGED <<state, opened, up, used, drops>>

\* utils.py:25-28: the connection that was there is not closed.
MutConnectForgets(w) ==
    /\ opened < MaxConnections
    /\ Goto(w, "connect", "zadd")
    /\ opened' = opened + 1
    /\ up' = up \cup {opened + 1}
    /\ used' = [used EXCEPT ![w] = opened + 1]
    /\ UNCHANGED <<state, drops, mistaken>>
Connect(w) ==
    /\ opened < MaxConnections
    /\ Goto(w, "connect", "zadd")
    /\ opened' = opened + 1
    /\ up' = up \cup {opened + 1}
    /\ state' = opened + 1
    /\ used' = [used EXCEPT ![w] = opened + 1]
    /\ UNCHANGED <<drops, mistaken>>

\* utils.py:22-25: there is no URL, Redis is not there or the writer is cancelled; the
\* error reaches the caller of write_metric, which may write again.
ConnectFails(w) ==
    /\ Goto(w, "connect", "idle")
    /\ UNCHANGED <<state, opened, up, used, drops, mistaken>>

\* utils.py:48-51: written, or the error reaches the caller as that of a connect does.
Zadd(w) ==
    /\ Goto(w, "zadd", "idle")
    /\ UNCHANGED <<state, opened, up, used, drops, mistaken>>

\* Redis restarts: every connection is broken.
RedisRestarts ==
    /\ up # {}
    /\ up' = {}
    /\ UNCHANGED <<state, opened, pc, used, drops, mistaken>>

\* One connection is lost, to a reset or to a limit of Redis, and the others are not.
Drops(c) ==
    /\ c \in up
    /\ drops < MaxDrops
    /\ up' = up \ {c}
    /\ drops' = drops + 1
    /\ UNCHANGED <<state, opened, pc, used, mistaken>>

Next ==
    \/ \E w \in Writers :
          \/ WriteMetric(w) \/ PingAnswered(w) \/ PingFails(w) \/ PingMistaken(w)
          \/ Connect(w) \/ ConnectFails(w) \/ Zadd(w)
    \/ RedisRestarts
    \/ \E c \in Connections : Drops(c)

Spec == Init /\ [][Next]_vars

(***************************************************************************)
(* Properties.                                                             *)
(***************************************************************************)

\* Replaced connections are never closed (utils.py:18-26).  What piles up of them is
\* bounded by the faults that Redis survived: each writer opens one at first, a
\* restart adds none, a live connection taken for a dead one adds one, and one that
\* drops alone lets every other writer leave one behind.
ConnectionsBounded ==
    Cardinality(up)
      <= Cardinality(Writers) + mistaken + drops * (Cardinality(Writers) - 1)
=============================================================================
