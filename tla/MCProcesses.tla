----------------------------- MODULE MCProcesses -----------------------------
\* The two processes that run a node monitor, for TLC: `wotemu app` (NodeRuntime)
\* and `wotemu broker` (BrokerRuntime).  A container runs one of them, and each has
\* a specification of its own here, in which what is the other's has no value.
EXTENDS NodeRuntime, TLC

CONSTANTS Done, Starter    \* of the broker

ASSUME BrokerAssumption ==
    IsFiniteSet(Signals) /\ Done \notin Signals /\ Starter \notin Signals /\ Done # Starter

VARIABLES mosquitto, closer

B == INSTANCE BrokerRuntime

ofNode == <<exit_code, servient, shut, app, stopper, lock, pool>>
ofBroker == <<mosquitto, closer>>
mcVars == <<vars, ofBroker>>

None == "none"

NodeInit == Init /\ mosquitto = None /\ closer = None
NodeFairSpec ==
    /\ NodeInit
    /\ [][Next /\ UNCHANGED ofBroker]_mcVars
    /\ Fairness

BrokerInit ==
    /\ B!Init
    /\ exit_code = None /\ servient = None /\ shut = None /\ app = None
    /\ stopper = None /\ lock = None /\ pool = None
BrokerFairSpec ==
    /\ BrokerInit
    /\ [][B!Next /\ UNCHANGED ofNode]_mcVars
    /\ B!Fairness

\* BrokerRuntime's CleanClose (broker.py:72-81, base.py:158-163).
CleanClose == B!CleanClose
\* BrokerRuntime's BrokerCloses (broker.py:27-29, 72-81, 93-97).
BrokerCloses == B!BrokerCloses
=============================================================================
