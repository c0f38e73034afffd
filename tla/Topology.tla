------------------------------ MODULE Topology ------------------------------
(***************************************************************************)
(* The topology compiler (topology/models.py, topology/compose.py): from a *)
(* topology to the services and networks of a Compose file.  Networks and  *)
(* nodes are named by the names they have after inflection.underscore;     *)
(* brokers and generic services are objects, of which two may have one     *)
(* name: objects are compared by name (models.py:130-134).                 *)
(*                                                                         *)
(* A topology is a record:                                                 *)
(*    nodes, networks, services   as given to each Node                    *)
(*    broker, broker_network      of each node, or None                    *)
(*    brokers                     those given to Topology                  *)
(*    attached                    the networks of each broker              *)
(*    shaped                      networks with conditions or netem        *)
(*    redis, docker_proxy         whether they are enabled                 *)
(***************************************************************************)
CONSTANTS
    Nodes, Networks, Brokers, Services,
    Name,              \* of each broker and service
    GatewayName,       \* name_gateway of each network
    ServiceNetwork,    \* get_node_network_name of a service and a node
    RedisHost, DockerProxyHost, None

\* A network of a service ("srvnet_...") is not taken for an emulated one.
ASSUME NamesAssumption ==
    /\ \A s \in Services, n \in Nodes : ServiceNetwork[s][n] \notin Networks
    /\ None \notin Brokers

(***************************************************************************)
(* topology/models.py                                                      *)
(***************************************************************************)

TopologyOK(t) ==
    /\ t.nodes \subseteq Nodes
    /\ t.networks \in [t.nodes -> SUBSET Networks]
    /\ t.services \in [t.nodes -> SUBSET Services]
    /\ t.broker \in [t.nodes -> Brokers \cup {None}]
    /\ t.broker_network \in [t.nodes -> Networks]
    /\ t.brokers \subseteq Brokers

\* A set of objects that are compared by name keeps one of each name.
Distinct(objects) == {o \in objects : o = CHOOSE p \in objects : Name[p] = Name[o]}

\* models.py:421-425; the list that the caller gave grows, its set does not change.
TopologyBrokers(t) ==
    Distinct(t.brokers \cup {t.broker[n] : n \in {m \in t.nodes : t.broker[m] # None}})

\* models.py:428-431.
TopologyNetworks(t) ==
    (UNION {t.networks[n] : n \in t.nodes}) \cup (UNION {t.attached[b] : b \in TopologyBrokers(t)})

\* models.py:433-438; the nodes of a service are those that have this very object.
TopologyServices(t) == Distinct(UNION {t.services[n] : n \in t.nodes})
ServiceNodes(t, s) == {n \in t.nodes : s \in t.services[n]}

\* models.py:176-186, 227-236: the network by which a node reaches its broker, the
\* first one of the broker if none was given.
BrokerNetworks(t, n) == IF t.broker[n] = None THEN {} ELSE {t.broker_network[n]}

\* What Node and Topology assert (models.py:176-186, 400-403).
Valid(t) ==
    /\ \A n \in t.nodes : t.broker[n] # None => t.broker_network[n] \in t.attached[t.broker[n]]
    /\ \A n \in t.nodes : \A s \in TopologyServices(t) : Name[s] # n

(***************************************************************************)
(* topology/compose.py                                                     *)
(***************************************************************************)

Entry(kind, networks, depends_on, mqtt) ==
    [kind |-> kind, networks |-> networks, depends_on |-> depends_on, mqtt |-> mqtt]

\* dict.update
Updated(dict, other) ==
    [k \in DOMAIN dict \cup DOMAIN other |-> IF k \in DOMAIN other THEN other[k] ELSE dict[k]]

\* compose.py:175-181, 208-213, 269-273.
Base(t) ==
    (IF t.docker_proxy THEN {DockerProxyHost} ELSE {}) \cup (IF t.redis THEN {RedisHost} ELSE {})

Gateways(networks) == {GatewayName[net] : net \in networks}

\* compose.py:110-128: Redis and the proxy are on every network.
MutBaseDefinitionsOnNodeNetworks(t) ==
    [host \in Base(t) |->
        Entry(IF host = RedisHost THEN "redis" ELSE "docker_proxy",
              UNION {t.networks[n] : n \in t.nodes}, {}, None)]
BaseDefinitions(t) ==
    [host \in Base(t) |->
        Entry(IF host = RedisHost THEN "redis" ELSE "docker_proxy", TopologyNetworks(t), {}, None)]

\* compose.py:169-192.
GatewayDefinitions(t) ==
    [gw \in Gateways(TopologyNetworks(t)) |->
        Entry("gateway", {net \in TopologyNetworks(t) : GatewayName[net] = gw}, Base(t), None)]

\* compose.py:131-166.
ServiceDefinitions(t) ==
    [name \in {Name[s] : s \in TopologyServices(t)} |->
        LET s == CHOOSE o \in TopologyServices(t) : Name[o] = name IN
        Entry("service", {ServiceNetwork[s][n] : n \in ServiceNodes(t, s)}, {}, None)]

\* compose.py:257-314.
NodeDefinitions(t) ==
    [n \in t.nodes |->
        Entry("node",
              t.networks[n] \cup {ServiceNetwork[s][n] : s \in t.services[n]}
                            \cup BrokerNetworks(t, n),
              Gateways(t.networks[n] \cup BrokerNetworks(t, n)) \cup Base(t),
              IF t.broker[n] = None THEN None
              ELSE [host |-> Name[t.broker[n]], network |-> t.broker_network[n]])]

\* compose.py:201-226.
BrokerDefinitions(t) ==
    [name \in {Name[b] : b \in TopologyBrokers(t)} |->
        LET b == CHOOSE o \in TopologyBrokers(t) : Name[o] = name IN
        Entry("broker", t.attached[b], Gateways(t.attached[b]) \cup Base(t), None)]

\* compose.py:329-350: an entry replaces an earlier one of its name.
MutServiceEntriesBrokersFirst(t) ==
    Updated(Updated(Updated(Updated(BaseDefinitions(t), GatewayDefinitions(t)),
                            BrokerDefinitions(t)), ServiceDefinitions(t)), NodeDefinitions(t))
ServiceEntries(t) ==
    Updated(Updated(Updated(Updated(BaseDefinitions(t), GatewayDefinitions(t)),
                            ServiceDefinitions(t)), NodeDefinitions(t)), BrokerDefinitions(t))

\* compose.py:195-198, 317-326, 352-358: with the label of each.
NetworkEntries(t) ==
    Updated([net \in TopologyNetworks(t) |-> "network"],
            [net \in UNION {{ServiceNetwork[s][n] : n \in ServiceNodes(t, s)} :
                                s \in TopologyServices(t)} |-> "service_network"])

\* compose.py:360-365.
Definition(t) == [services |-> ServiceEntries(t), networks |-> NetworkEntries(t)]

(***************************************************************************)
(* What a definition promises                                              *)
(***************************************************************************)

\* models.py:119, "models with a unique name": no two brokers, and no two
\* services, of the topology share one.
UniqueNames(t) ==
    /\ \A n, m \in t.nodes : /\ t.broker[n] # None /\ t.broker[m] # None
                             /\ Name[t.broker[n]] = Name[t.broker[m]]
                             => t.broker[n] = t.broker[m]
    /\ \A n \in t.nodes : t.broker[n] # None =>
          \A b \in t.brokers : Name[t.broker[n]] = Name[b] => t.broker[n] = b
    /\ \A b, c \in t.brokers : Name[b] = Name[c] => b = c
    /\ \A n, m \in t.nodes : \A s \in t.services[n], r \in t.services[m] : Name[s] = Name[r] => s = r

\* Whatever the Compose file names is in it: Docker would not deploy it otherwise,
\* or a node would wait for a broker that it cannot reach.
Closed(definition) ==
    \A name \in DOMAIN definition.services :
        LET entry == definition.services[name] IN
        /\ entry.networks \subseteq DOMAIN definition.networks
        /\ entry.depends_on \subseteq DOMAIN definition.services
        /\ entry.mqtt # None =>
              /\ entry.mqtt.host \in DOMAIN definition.services
              /\ entry.mqtt.network \in entry.networks
              /\ entry.mqtt.network \in definition.services[entry.mqtt.host].networks
              /\ definition.services[entry.mqtt.host].kind = "broker"
=============================================================================
