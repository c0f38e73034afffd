------------------------------ MODULE WaitNode ------------------------------
(***************************************************************************)
(* wait_node and consume_from_catalogue (utils.py): before an application  *)
(* uses the Thing of a service it lists the containers of the service,     *)
(* pings the catalogue of each until it answers, and fetches the           *)
(* description.  A call is named by the service it is about.               *)
(*                                                                         *)
(* Docker may replace a container at any time.  How long pings take is     *)
(* left open: the time limit may strike at any moment of a wait.           *)
(***************************************************************************)
EXTENDS Naturals, FiniteSets

CONSTANTS
    Services,
    Replicas,          \* containers of each service
    MaxContainers,     \* bound: containers that each ever has
    ByName             \* the untranslated name: any container may answer

ASSUME ReplicasAssumption ==
    /\ Replicas \in [Services -> Nat \ {0}]
    /\ MaxContainers \in [Services -> Nat]
    /\ \A s \in Services : Replicas[s] <= MaxContainers[s]
ASSUME ByNameAssumption == ByName \notin Nat

VARIABLES
    running,    \* the containers Docker lists for each service
    serving,    \* those whose catalogue answers with the Thing
    call,       \* where each call is
    pending     \* the hosts that it still pings

waitVars == <<running, serving, call, pending>>
environment == <<running, serving>>

Containers == UNION {1..MaxContainers[s] : s \in Services}

WaitTypeOK ==
    /\ running \in [Services -> SUBSET Containers]
    /\ serving \in [Services -> SUBSET Containers]
    /\ call \in [Services -> {"listing", "pinging", "fetching", "consumed", "raised"}]
    /\ pending \in [Services -> SUBSET (Containers \cup {ByName})]

WaitInit ==
    /\ running = [s \in Services |-> 1..Replicas[s]]
    /\ serving = [s \in Services |-> {}]
    /\ call = [s \in Services |-> "listing"]
    /\ pending = [s \in Services |-> {}]

\* The environment: a container comes up, and Docker replaces one.
Serves(s, c) ==
    /\ c \in running[s] \ serving[s]
    /\ serving' = [serving EXCEPT ![s] = @ \cup {c}]
    /\ UNCHANGED <<running, call, pending>>

Replaced(s, c) ==
    /\ c \in running[s]
    /\ \E newest \in running[s] :
          /\ \A k \in running[s] : k <= newest
          /\ newest < MaxContainers[s]
          /\ running' = [running EXCEPT ![s] = (@ \ {c}) \cup {newest + 1}]
    /\ serving' = [serving EXCEPT ![s] = @ \ {c}]
    /\ UNCHANGED <<call, pending>>

\* utils.py:163-177: the hosts are listed once; there is none in particular while
\* a task of the service has no container yet.
Hosts(s) == {running[s], {ByName}}

\* utils.py:88-112.
List(s) ==
    /\ call[s] = "listing"
    /\ \E hosts \in Hosts(s) : pending' = [pending EXCEPT ![s] = hosts]
    /\ call' = [call EXCEPT ![s] = "pinging"]
    /\ UNCHANGED environment

Answers(s, host) == IF host = ByName THEN serving[s] # {} ELSE host \in serving[s]

\* utils.py:31-45, 71-72: a ping that succeeds ends the loop of its host; the
\* others leave it as it is.  gather returns with the last (utils.py:112).
PingAnswered(s, host) ==
    /\ call[s] = "pinging"
    /\ host \in pending[s]
    /\ Answers(s, host)
    /\ pending' = [pending EXCEPT ![s] = @ \ {host}]
    /\ call' = [call EXCEPT ![s] = IF pending[s] = {host} THEN "fetching" ELSE @]
    /\ UNCHANGED environment

\* utils.py:58-66: the limit of any host ends the whole wait; the other loops go
\* on for nothing.
MutPingTimeoutWithoutHosts(s) ==
    /\ call[s] = "pinging"
    /\ pending[s] = {}
    /\ call' = [call EXCEPT ![s] = "raised"]
    /\ UNCHANGED <<environment, pending>>
PingTimeout(s) ==
    /\ call[s] = "pinging"
    /\ call' = [call EXCEPT ![s] = "raised"]
    /\ pending' = [pending EXCEPT ![s] = {}]
    /\ UNCHANGED environment

\* utils.py:354-375: fetched by name, so that any container may answer.
Fetched(s) ==
    /\ call[s] = "fetching"
    /\ serving[s] # {}
    /\ call' = [call EXCEPT ![s] = "consumed"]
    /\ UNCHANGED <<environment, pending>>

\* utils.py:360-366: no answer, or a catalogue without the Thing.
FetchFails(s) ==
    /\ call[s] = "fetching"
    /\ call' = [call EXCEPT ![s] = "raised"]
    /\ UNCHANGED <<environment, pending>>

\* Everything a call does before it has the Thing.
WaitStep(s) ==
    \/ List(s)
    \/ \E host \in Containers \cup {ByName} : PingAnswered(s, host)
    \/ PingTimeout(s)
    \/ FetchFails(s)

\* The calls are made (again), each for the Thing of its own service.
CallAgain(services) ==
    /\ call' = [s \in Services |-> IF s \in services THEN "listing" ELSE call[s]]
    /\ pending' = [s \in Services |-> IF s \in services THEN {} ELSE pending[s]]
    /\ UNCHANGED environment

WaitEnvironment(s) == \E c \in Containers : Serves(s, c) \/ Replaced(s, c)
=============================================================================
