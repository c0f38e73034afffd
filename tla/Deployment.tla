----------------------------- MODULE Deployment -----------------------------
(***************************************************************************)
(* A stack comes up: Swarm starts the containers of the compiled services  *)
(* in any order (it ignores depends_on) and restarts those that exit, and  *)
(* each of them runs entrypoint.sh: wait for Redis and Docker, find the    *)
(* gateways and route through them, wait for the broker, set the limits,   *)
(* run.  A gateway sets the conditions of its network instead.             *)
(*                                                                         *)
(* Services have one replica here; a restart is a new container, with no   *)
(* routes and no routing table, on the networks that it was on before.     *)
(***************************************************************************)
EXTENDS Topology, Naturals

CONSTANTS
    Topologies,     \* those that are compiled
    Deployed,       \* those of them that are deployed
    MaxFaults       \* bound: containers that fail though they need not

ASSUME TopologiesAssumption == \A t \in Topologies : TopologyOK(t)
ASSUME FaultsAssumption == MaxFaults \in Nat

VARIABLES
    topology,
    definition,     \* what it is compiled to
    place,          \* where the container of each service is in entrypoint.sh
    routes,         \* networks that it has configured
    table,          \* containers in which the routing table exists
    faults

vars == <<topology, definition, place, routes, table, faults>>

Entries == DOMAIN definition.services
Kind(s) == definition.services[s].kind
Attached(s) == definition.services[s].networks
Places == {"down", "redis", "docker", "chaos", "gateways", "routing", "mqtt", "limits", "up"}

TypeOK ==
    /\ topology \in Topologies
    /\ definition = Definition(topology)
    /\ place \in [Entries -> Places]
    /\ DOMAIN routes = Entries
    /\ \A s \in Entries : routes[s] \subseteq Attached(s)
    /\ table \subseteq Entries
    /\ faults \in 0..MaxFaults

Init ==
    /\ topology \in Topologies
    /\ definition = Definition(topology)
    /\ place = [s \in Entries |-> "down"]
    /\ routes = [s \in Entries |-> {}]
    /\ table = {}
    /\ faults = 0

Goto(s, from, to) ==
    /\ place[s] = from
    /\ place' = [place EXCEPT ![s] = to]
    /\ UNCHANGED <<topology, definition>>

\* The host is up, and s has a network in common with it.
Reaches(s, host) ==
    /\ host \in Entries
    /\ place[host] = "up"
    /\ Attached(s) \cap Attached(host) # {}

\* utils.py:235-253: the networks with the label of emulated ones.
Emulated(s) == {net \in Attached(s) : definition.networks[net] = "network"}

\* utils.py:263-298: a network lists the containers attached to it, whatever they do.
HasGateway(net) ==
    \E g \in Entries : Kind(g) = "gateway" /\ net \in Attached(g) /\ place[g] # "down"

(***************************************************************************)
(* The environment                                                         *)
(***************************************************************************)

\* Services that are no part of wotemu just run.
Start(s) ==
    /\ Goto(s, "down", IF Kind(s) \in {"gateway", "broker", "node"} THEN "redis" ELSE "up")
    /\ routes' = [routes EXCEPT ![s] = {}]
    /\ table' = table \ {s}
    /\ UNCHANGED faults

\* A wait reaches its limit (waiter.py:39-50, 71-76, 102-104), Docker does not answer or
\* a command fails (routes.py:96-100, 122-123, 144-151; chaos.py:56-93), the limits
\* cannot be set, or the process is killed: `set -e` ends the container, and with it
\* whatever a routing update left half-way.
MutFailsRetries(s) ==
    /\ faults < MaxFaults
    /\ place[s] # "down"
    /\ Goto(s, place[s], IF place[s] = "routing" THEN "gateways" ELSE "down")
    /\ faults' = faults + 1
    /\ UNCHANGED <<routes, table>>
Fails(s) ==
    /\ faults < MaxFaults
    /\ place[s] # "down"
    /\ Goto(s, place[s], "down")
    /\ faults' = faults + 1
    /\ UNCHANGED <<routes, table>>

(***************************************************************************)
(* entrypoint.sh                                                           *)
(***************************************************************************)

\* waiter.py:14-27, 39-41; a Redis of the user is up.
RedisAnswers(s) ==
    /\ topology.redis => Reaches(s, RedisHost)
    /\ Goto(s, "redis", "docker")
    /\ UNCHANGED <<routes, table, faults>>

\* waiter.py:30-36, 43-44; then a gateway goes its own way (entrypoint.sh:80-82).
DockerAnswers(s) ==
    /\ topology.docker_proxy => Reaches(s, DockerProxyHost)
    /\ Goto(s, "docker", IF Kind(s) = "gateway" THEN "chaos" ELSE "gateways")
    /\ UNCHANGED <<routes, table, faults>>

\* chaos.py:102-129: what was set before is removed, then delay and rate are set.
ChaosSet(s) ==
    /\ Attached(s) \subseteq topology.shaped
    /\ Goto(s, "chaos", "up")
    /\ UNCHANGED <<routes, table, faults>>

\* chaos.py:101: without an argument the assertion fails, in every container anew.
ChaosRefused(s) ==
    /\ ~(Attached(s) \subseteq topology.shaped)
    /\ Goto(s, "chaos", "down")
    /\ UNCHANGED <<routes, table, faults>>

\* entrypoint.sh:64-79.
AfterRoutes(s) == IF Kind(s) = "node" THEN "mqtt" ELSE "limits"

\* entrypoint.sh:17-20, after a sleep; routes.py:120-155: a table that exists is taken
\* for complete, otherwise all gateways are found before anything is configured.
GatewaysFound(s) ==
    /\ s \in table \/ \A net \in Emulated(s) : HasGateway(net)
    /\ Goto(s, "gateways", IF s \in table THEN AfterRoutes(s) ELSE "routing")
    /\ UNCHANGED <<routes, table, faults>>

\* routes.py:137-151.
GatewayMissing(s) ==
    /\ s \notin table
    /\ \E net \in Emulated(s) : ~HasGateway(net)
    /\ Goto(s, "gateways", "down")
    /\ UNCHANGED <<routes, table, faults>>

\* routes.py:41-93, 172-173: the commands of one network, the first of which makes
\* the table that all networks share.
Route(s) ==
    /\ place[s] = "routing"
    /\ \E net \in Emulated(s) \ routes[s] : routes' = [routes EXCEPT ![s] = @ \cup {net}]
    /\ table' = table \cup {s}
    /\ UNCHANGED <<topology, definition, place, faults>>

\* Nothing is left to route.
Routed(s) ==
    /\ routes[s] = Emulated(s)
    /\ Goto(s, "routing", AfterRoutes(s))
    /\ UNCHANGED <<routes, table, faults>>

\* waiter.py:53-76, 92-101.
BrokerAnswers(s) ==
    /\ LET mqtt == definition.services[s].mqtt IN mqtt # None => Reaches(s, mqtt.host)
    /\ Goto(s, "mqtt", "limits")
    /\ UNCHANGED <<routes, table, faults>>

\* entrypoint.sh:32-49: CpuLimits says what may happen there.
Limited(s) ==
    /\ Goto(s, "limits", "up")
    /\ UNCHANGED <<routes, table, faults>>

Boot(s) ==
    \/ RedisAnswers(s) \/ DockerAnswers(s) \/ ChaosSet(s) \/ ChaosRefused(s)
    \/ GatewaysFound(s) \/ GatewayMissing(s) \/ Route(s) \/ Routed(s)
    \/ BrokerAnswers(s) \/ Limited(s)

\* Docker deploys a definition only if it names nothing that it does not define.
Accepted == topology \in Deployed /\ Closed(definition)

Next ==
    /\ Accepted
    /\ \E s \in Entries : Start(s) \/ Fails(s) \/ Boot(s)

Names == (UNION {t.nodes : t \in Topologies}) \cup {Name[o] : o \in Brokers \cup Services}
         \cup Gateways(Networks) \cup {RedisHost, DockerProxyHost}

Spec == Init /\ [][Next]_vars

\* Swarm starts what should run, and containers run.
FairSpec ==
    /\ Spec
    /\ \A s \in Names :
          WF_vars(Accepted /\ s \in Entries /\ (Start(s) \/ Boot(s)))

(***************************************************************************)
(* Properties.                                                             *)
(***************************************************************************)

\* The Compose file of a topology defines whatever it names, and the broker of a
\* node is a broker that the node reaches by the network in its host name, even if
\* entries of different kinds have one name and one replaces the other
\* (compose.py:329-365).
DefinitionClosed == Valid(topology) /\ UniqueNames(topology) => Closed(definition)

\* No application runs before its traffic goes through the gateways of all the
\* networks of its node and of its broker, however often its routing failed half-way
\* and left a table that the next attempt would take for complete
\* (entrypoint.sh:64-72, routes.py:125-127, 172-173).
AppRunsRouted ==
    \A n \in topology.nodes \cap Entries :
        Kind(n) = "node" /\ place[n] = "up" =>
            topology.networks[n] \cup BrokerNetworks(topology, n) \subseteq routes[n]

\* Nothing waits for ever: if no name is used twice, every network has conditions and
\* every node is on a network, then whatever fails, in the end all containers run
\* (entrypoint.sh, waiter.py, routes.py).
Sound ==
    /\ Valid(topology) /\ UniqueNames(topology)
    /\ TopologyNetworks(topology) \subseteq topology.shaped
    /\ \A n \in topology.nodes : topology.networks[n] \cup BrokerNetworks(topology, n) # {}
    /\ \A n \in topology.nodes : Kind(n) = "node"
    /\ \A gw \in Gateways(TopologyNetworks(topology)) : Kind(gw) = "gateway"
    /\ \A host \in Base(topology) : Kind(host) \in {"redis", "docker_proxy"}
StackComesUp ==
    topology \in Deployed /\ Sound => <>[](\A s \in Entries : place[s] = "up")
=============================================================================
