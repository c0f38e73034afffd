-------------------------- MODULE Deployment_proofs --------------------------
(***************************************************************************)
(* Theorems of Topology and Deployment, for any topologies, any names and  *)
(* any number of faults.                                                   *)
(***************************************************************************)
EXTENDS Deployment, TLAPS

(***************************************************************************)
(* The compiler                                                            *)
(***************************************************************************)

LEMMA DistinctKeepsUnique ==
  ASSUME NEW S, \A o, p \in S : Name[o] = Name[p] => o = p
  PROVE  Distinct(S) = S
BY DEF Distinct

\* Where names are unique, no broker is dropped and no service.
LEMMA BrokersKept ==
  ASSUME NEW t, TopologyOK(t), UniqueNames(t)
  PROVE  TopologyBrokers(t) = t.brokers \cup {t.broker[n] : n \in {m \in t.nodes : t.broker[m] # None}}
<1> DEFINE B == t.brokers \cup {t.broker[n] : n \in {m \in t.nodes : t.broker[m] # None}}
<1>1. \A o, p \in B : Name[o] = Name[p] => o = p
  BY DEF UniqueNames
<1> QED
  BY <1>1, DistinctKeepsUnique DEF TopologyBrokers

LEMMA ServicesKept ==
  ASSUME NEW t, UniqueNames(t)
  PROVE  TopologyServices(t) = UNION {t.services[n] : n \in t.nodes}
<1> DEFINE S == UNION {t.services[n] : n \in t.nodes}
<1>1. \A o, p \in S : Name[o] = Name[p] => o = p
  BY DEF UniqueNames
<1> QED
  BY <1>1, DistinctKeepsUnique DEF TopologyServices

LEMMA NodeBroker ==
  ASSUME NEW t, TopologyOK(t), Valid(t), UniqueNames(t), NEW n \in t.nodes, t.broker[n] # None
  PROVE  /\ t.broker[n] \in TopologyBrokers(t)
         /\ t.broker_network[n] \in t.attached[t.broker[n]]
         /\ BrokerDefinitions(t)[Name[t.broker[n]]].kind = "broker"
         /\ BrokerDefinitions(t)[Name[t.broker[n]]].networks = t.attached[t.broker[n]]
<1> DEFINE b == t.broker[n]
<1>1. b \in TopologyBrokers(t)
  BY BrokersKept
<1>2. \A o \in TopologyBrokers(t) : Name[o] = Name[b] => o = b
  BY <1>1, BrokersKept DEF UniqueNames
<1>3. (CHOOSE o \in TopologyBrokers(t) : Name[o] = Name[b]) = b
  BY <1>1, <1>2
<1>4. BrokerDefinitions(t)[Name[b]]
        = Entry("broker", t.attached[b], Gateways(t.attached[b]) \cup Base(t), None)
  BY <1>1, <1>3 DEF BrokerDefinitions
<1> QED
  BY <1>1, <1>4 DEF Valid, Entry

\* Every entry of the definition is one of these.
LEMMA EntryCases ==
  ASSUME NEW t, NEW name \in DOMAIN ServiceEntries(t)
  PROVE  LET entry == ServiceEntries(t)[name] IN
         \/ name \in {Name[b] : b \in TopologyBrokers(t)} /\ entry = BrokerDefinitions(t)[name]
         \/ name \in t.nodes /\ entry = NodeDefinitions(t)[name]
         \/ name \in {Name[s] : s \in TopologyServices(t)} /\ entry = ServiceDefinitions(t)[name]
         \/ name \in Gateways(TopologyNetworks(t)) /\ entry = GatewayDefinitions(t)[name]
         \/ name \in Base(t) /\ entry = BaseDefinitions(t)[name]
<1>1. /\ DOMAIN BrokerDefinitions(t) = {Name[b] : b \in TopologyBrokers(t)}
      /\ DOMAIN NodeDefinitions(t) = t.nodes
      /\ DOMAIN ServiceDefinitions(t) = {Name[s] : s \in TopologyServices(t)}
      /\ DOMAIN GatewayDefinitions(t) = Gateways(TopologyNetworks(t))
      /\ DOMAIN BaseDefinitions(t) = Base(t)
  BY DEF BrokerDefinitions, NodeDefinitions, ServiceDefinitions, GatewayDefinitions, BaseDefinitions
<1> QED
  BY <1>1 DEF ServiceEntries, Updated

LEMMA UpdatedEntries ==
  ASSUME NEW f, NEW g
  PROVE  /\ DOMAIN Updated(f, g) = DOMAIN f \cup DOMAIN g
         /\ \A k \in DOMAIN g : Updated(f, g)[k] = g[k]
BY DEF Updated

LEMMA EntriesDefined ==
  ASSUME NEW t
  PROVE  /\ Base(t) \subseteq DOMAIN ServiceEntries(t)
         /\ Gateways(TopologyNetworks(t)) \subseteq DOMAIN ServiceEntries(t)
         /\ \A b \in TopologyBrokers(t) :
               /\ Name[b] \in DOMAIN ServiceEntries(t)
               /\ ServiceEntries(t)[Name[b]] = BrokerDefinitions(t)[Name[b]]
         /\ TopologyNetworks(t) \subseteq DOMAIN NetworkEntries(t)
         /\ \A s \in TopologyServices(t) : \A n \in ServiceNodes(t, s) :
               ServiceNetwork[s][n] \in DOMAIN NetworkEntries(t)
<1>1. /\ DOMAIN BrokerDefinitions(t) = {Name[b] : b \in TopologyBrokers(t)}
      /\ DOMAIN GatewayDefinitions(t) = Gateways(TopologyNetworks(t))
      /\ DOMAIN BaseDefinitions(t) = Base(t)
  BY DEF BrokerDefinitions, GatewayDefinitions, BaseDefinitions
<1> DEFINE BG == Updated(BaseDefinitions(t), GatewayDefinitions(t))
           BGS == Updated(BG, ServiceDefinitions(t))
           BGSN == Updated(BGS, NodeDefinitions(t))
<1>2. ServiceEntries(t) = Updated(BGSN, BrokerDefinitions(t))
  BY DEF ServiceEntries
<1>3. /\ Base(t) \subseteq DOMAIN BG
      /\ Gateways(TopologyNetworks(t)) \subseteq DOMAIN BG
  <2>1. DOMAIN BG = DOMAIN BaseDefinitions(t) \cup DOMAIN GatewayDefinitions(t)
    BY UpdatedEntries, Zenon
  <2> QED  BY <1>1, <2>1
<1>4. DOMAIN BG \subseteq DOMAIN BGS
  <2> HIDE DEF BG
  <2> QED  BY UpdatedEntries
<1>5. DOMAIN BGS \subseteq DOMAIN BGSN
  <2> HIDE DEF BGS
  <2> QED  BY UpdatedEntries
<1>6. /\ DOMAIN BGSN \subseteq DOMAIN ServiceEntries(t)
      /\ \A b \in TopologyBrokers(t) :
            /\ Name[b] \in DOMAIN ServiceEntries(t)
            /\ ServiceEntries(t)[Name[b]] = BrokerDefinitions(t)[Name[b]]
  <2> HIDE DEF BGSN
  <2>1. DOMAIN ServiceEntries(t) = DOMAIN BGSN \cup DOMAIN BrokerDefinitions(t)
    BY <1>2, UpdatedEntries, Zenon
  <2>2. \A k \in DOMAIN BrokerDefinitions(t) : ServiceEntries(t)[k] = BrokerDefinitions(t)[k]
    <3> DEFINE Brokerage == BrokerDefinitions(t)
    <3>1. \A k \in DOMAIN Brokerage : Updated(BGSN, Brokerage)[k] = Brokerage[k]
      <4> HIDE DEF Brokerage
      <4> QED  BY UpdatedEntries
    <3> QED  BY <1>2, <3>1
  <2> QED  BY <1>1, <2>1, <2>2
<1>7. DOMAIN NetworkEntries(t) =
        TopologyNetworks(t) \cup UNION {{ServiceNetwork[s][n] : n \in ServiceNodes(t, s)} :
                                           s \in TopologyServices(t)}
  <2> DEFINE N == [net \in TopologyNetworks(t) |-> "network"]
             S == [net \in UNION {{ServiceNetwork[s][n] : n \in ServiceNodes(t, s)} :
                                      s \in TopologyServices(t)} |-> "service_network"]
  <2>1. DOMAIN Updated(N, S) = DOMAIN N \cup DOMAIN S
    <3> HIDE DEF N, S
    <3> QED  BY UpdatedEntries
  <2>2. DOMAIN N = TopologyNetworks(t)
    OBVIOUS
  <2>3. DOMAIN S = UNION {{ServiceNetwork[s][n] : n \in ServiceNodes(t, s)} :
                            s \in TopologyServices(t)}
    OBVIOUS
  <2>4. NetworkEntries(t) = Updated(N, S)
    BY DEF NetworkEntries
  <2> HIDE DEF N, S
  <2> QED
    BY <2>1, <2>2, <2>3, <2>4
<1>8. \A s \in TopologyServices(t) : \A n \in ServiceNodes(t, s) :
         ServiceNetwork[s][n] \in DOMAIN NetworkEntries(t)
  BY <1>7
<1>9. TopologyNetworks(t) \subseteq DOMAIN NetworkEntries(t)
  BY <1>7
<1>10. /\ Base(t) \subseteq DOMAIN ServiceEntries(t)
       /\ Gateways(TopologyNetworks(t)) \subseteq DOMAIN ServiceEntries(t)
  <2> HIDE DEF BG, BGS, BGSN
  <2> QED  BY <1>3, <1>4, <1>5, <1>6
<1> QED
  BY <1>6, <1>8, <1>9, <1>10

LEMMA CompilerCloses ==
  ASSUME NEW t, TopologyOK(t), Valid(t), UniqueNames(t)
  PROVE  Closed(Definition(t))
<1> DEFINE Nets == TopologyNetworks(t)
<1>1. ASSUME NEW b \in TopologyBrokers(t)
      PROVE  t.attached[b] \subseteq Nets
  <2>1. t.attached[b] \in {t.attached[o] : o \in TopologyBrokers(t)}
    OBVIOUS
  <2>2. t.attached[b] \subseteq UNION {t.attached[o] : o \in TopologyBrokers(t)}
    BY <2>1, Zenon
  <2> QED
    BY <2>2 DEF TopologyNetworks
<1>2. \A n \in t.nodes : t.networks[n] \subseteq Nets /\ BrokerNetworks(t, n) \subseteq Nets
  BY <1>1, NodeBroker DEF TopologyNetworks, BrokerNetworks
<1>3. \A nets \in SUBSET Nets : Gateways(nets) \cup Base(t) \subseteq DOMAIN ServiceEntries(t)
  BY EntriesDefined DEF Gateways
<1>4. Nets \subseteq DOMAIN NetworkEntries(t)
  BY EntriesDefined
<1> SUFFICES ASSUME NEW name \in DOMAIN ServiceEntries(t)
             PROVE  LET entry == ServiceEntries(t)[name] IN
                    /\ entry.networks \subseteq DOMAIN NetworkEntries(t)
                    /\ entry.depends_on \subseteq DOMAIN ServiceEntries(t)
                    /\ entry.mqtt # None =>
                          /\ entry.mqtt.host \in DOMAIN ServiceEntries(t)
                          /\ entry.mqtt.network \in entry.networks
                          /\ entry.mqtt.network \in ServiceEntries(t)[entry.mqtt.host].networks
                          /\ ServiceEntries(t)[entry.mqtt.host].kind = "broker"
  BY DEF Closed, Definition
<1> DEFINE entry == ServiceEntries(t)[name]
<1>5. CASE name \in {Name[b] : b \in TopologyBrokers(t)} /\ entry = BrokerDefinitions(t)[name]
  <2>1. PICK b \in TopologyBrokers(t) :
          entry = Entry("broker", t.attached[b], Gateways(t.attached[b]) \cup Base(t), None)
    BY <1>5 DEF BrokerDefinitions
  <2> QED
    BY <2>1, <1>1, <1>3, <1>4 DEF Entry
<1>6. CASE name \in t.nodes /\ entry = NodeDefinitions(t)[name]
  <2> DEFINE nets == t.networks[name] \cup BrokerNetworks(t, name)
             of == {ServiceNetwork[s][name] : s \in t.services[name]}
  <2>1. /\ entry.networks = t.networks[name] \cup of \cup BrokerNetworks(t, name)
        /\ entry.depends_on = Gateways(nets) \cup Base(t)
        /\ entry.mqtt = IF t.broker[name] = None THEN None
                        ELSE [host |-> Name[t.broker[name]], network |-> t.broker_network[name]]
    BY <1>6 DEF NodeDefinitions, Entry
  <2>2. nets \in SUBSET Nets
    BY <1>2, <1>6
  <2>3. of \subseteq DOMAIN NetworkEntries(t)
    BY <1>6, ServicesKept, EntriesDefined DEF ServiceNodes
  <2>4. entry.networks \subseteq DOMAIN NetworkEntries(t)
    BY <2>1, <2>2, <2>3, <1>4
  <2>5. entry.depends_on \subseteq DOMAIN ServiceEntries(t)
    BY <2>1, <2>2, <1>3
  <2>6. ASSUME t.broker[name] # None
        PROVE  /\ entry.mqtt.host \in DOMAIN ServiceEntries(t)
               /\ entry.mqtt.network \in entry.networks
               /\ entry.mqtt.network \in ServiceEntries(t)[entry.mqtt.host].networks
               /\ ServiceEntries(t)[entry.mqtt.host].kind = "broker"
    <3>1. entry.mqtt.host = Name[t.broker[name]] /\ entry.mqtt.network = t.broker_network[name]
      BY <2>1, <2>6
    <3>2. t.broker_network[name] \in BrokerNetworks(t, name)
      BY <2>6 DEF BrokerNetworks
    <3> QED
      BY <3>1, <3>2, <2>1, <2>6, <1>6, NodeBroker, EntriesDefined
  <2> QED
    BY <2>1, <2>4, <2>5, <2>6
<1>7. CASE name \in {Name[s] : s \in TopologyServices(t)} /\ entry = ServiceDefinitions(t)[name]
  <2>1. PICK s \in TopologyServices(t) :
          entry = Entry("service", {ServiceNetwork[s][n] : n \in ServiceNodes(t, s)}, {}, None)
    BY <1>7 DEF ServiceDefinitions
  <2> QED
    BY <2>1, EntriesDefined DEF Entry
<1>8. CASE name \in Gateways(TopologyNetworks(t)) /\ entry = GatewayDefinitions(t)[name]
  <2>1. entry = Entry("gateway", {net \in TopologyNetworks(t) : GatewayName[net] = name}, Base(t), None)
    BY <1>8 DEF GatewayDefinitions
  <2> QED
    BY <2>1, <1>3, <1>4 DEF Entry
<1>9. CASE name \in Base(t) /\ entry = BaseDefinitions(t)[name]
  <2>1. entry.networks = Nets /\ entry.depends_on = {} /\ entry.mqtt = None
    BY <1>9 DEF BaseDefinitions, Entry
  <2> QED
    BY <2>1, <1>4
<1> QED
  BY <1>5, <1>6, <1>7, <1>8, <1>9, EntryCases

(***************************************************************************)
(* The deployment                                                          *)
(***************************************************************************)

LEMMA InitTypeOK == Init => TypeOK
BY FaultsAssumption DEF Init, TypeOK, Entries, Attached, Places

LEMMA NextTypeOK == TypeOK /\ [Next]_vars => TypeOK'
<1> SUFFICES ASSUME TypeOK, [Next]_vars
             PROVE  TypeOK'
  OBVIOUS
<1> USE FaultsAssumption DEF TypeOK, Places
<1>1. CASE UNCHANGED vars
  BY <1>1 DEF vars, Entries, Attached
<1>2. ASSUME NEW s \in Entries, Start(s)  PROVE TypeOK'
  BY <1>2 DEF Start, Goto, Entries, Attached
<1>3. ASSUME NEW s \in Entries, Fails(s)  PROVE TypeOK'
  BY <1>3 DEF Fails, Goto, Entries, Attached
<1>4. ASSUME NEW s \in Entries, Boot(s)  PROVE TypeOK'
  <2>1. CASE RedisAnswers(s)
    BY <2>1 DEF RedisAnswers, Goto, Entries, Attached
  <2>2. CASE DockerAnswers(s)
    BY <2>2 DEF DockerAnswers, Goto, Entries, Attached
  <2>3. CASE ChaosSet(s)
    BY <2>3 DEF ChaosSet, Goto, Entries, Attached
  <2>4. CASE ChaosRefused(s)
    BY <2>4 DEF ChaosRefused, Goto, Entries, Attached
  <2>5. CASE GatewaysFound(s)
    BY <2>5 DEF GatewaysFound, AfterRoutes, Goto, Entries, Attached, Emulated
  <2>6. CASE GatewayMissing(s)
    BY <2>6 DEF GatewayMissing, Goto, Entries, Attached
  <2>7. CASE Route(s)
    BY <2>7 DEF Route, Entries, Attached, Emulated
  <2>8. CASE Routed(s)
    BY <2>8 DEF Routed, AfterRoutes, Goto, Entries, Attached
  <2>9. CASE BrokerAnswers(s)
    BY <2>9 DEF BrokerAnswers, Goto, Entries, Attached
  <2>10. CASE Limited(s)
    BY <2>10 DEF Limited, Goto, Entries, Attached
  <2> QED
    BY <1>4, <2>1, <2>2, <2>3, <2>4, <2>5, <2>6, <2>7, <2>8, <2>9, <2>10 DEF Boot
<1> QED
  BY <1>1, <1>2, <1>3, <1>4 DEF Next

\* Containers are where entrypoint.sh can be, and route only through networks of their
\* service; the definition is that of the topology.
THEOREM TypeCorrect == Spec => []TypeOK
BY InitTypeOK, NextTypeOK, PTL DEF Spec

\* A topology with unique names compiles to a definition that names only what it
\* defines, whatever its size (compose.py:329-365).
THEOREM DefinitionIsClosed == Spec => []DefinitionClosed
<1>1. TypeOK => DefinitionClosed
  BY CompilerCloses, TopologiesAssumption DEF TypeOK, DefinitionClosed
<1> QED
  BY <1>1, TypeCorrect, PTL

\* A container that is past its routes has all of them, one that looks for its gateways
\* has no table that would make it skip them, and none is started for a definition that
\* Docker refuses.
RoutesInv ==
    /\ \A s \in Entries : place[s] # "down" => Closed(definition)
    /\ \A s \in Entries : Kind(s) = "node" =>
          /\ place[s] # "chaos"
          /\ place[s] \in {"redis", "docker", "gateways"} => s \notin table
          /\ place[s] \in {"mqtt", "limits", "up"} => routes[s] = Emulated(s)

LEMMA InitRoutesInv == Init => RoutesInv
BY DEF Init, RoutesInv, Entries

LEMMA NextRoutesInv == TypeOK /\ RoutesInv /\ [Next]_vars => RoutesInv'
<1> SUFFICES ASSUME TypeOK, RoutesInv, [Next]_vars
             PROVE  RoutesInv'
  OBVIOUS
<1>1. CASE UNCHANGED vars
  BY <1>1 DEF vars, RoutesInv, Entries, Kind, Emulated, Attached
<1>2. CASE Next
  <2>1. PICK s \in Entries : Start(s) \/ Fails(s) \/ Boot(s)
    BY <1>2 DEF Next
  <2>2. Closed(definition) /\ definition' = definition
    BY <1>2, <2>1 DEF Next, Accepted, Start, Fails, Boot, RedisAnswers, DockerAnswers, ChaosSet, ChaosRefused,
                      GatewaysFound, GatewayMissing, Route, Routed, BrokerAnswers, Limited, Goto
  <2>3. Entries' = Entries /\ \A x : Kind(x)' = Kind(x) /\ Emulated(x)' = Emulated(x)
    BY <2>2 DEF Entries, Kind, Emulated, Attached
  <2>4. Closed(definition)'
    BY <2>2 DEF Closed
  <2> SUFFICES ASSUME NEW x \in Entries, Kind(x) = "node"
               PROVE  /\ place'[x] # "chaos"
                      /\ place'[x] \in {"redis", "docker", "gateways"} => x \notin table'
                      /\ place'[x] \in {"mqtt", "limits", "up"} => routes'[x] = Emulated(x)
    BY <2>3, <2>4 DEF RoutesInv
  <2>5. CASE Start(s)
    BY <2>5 DEF Start, Goto, TypeOK, RoutesInv
  <2>6. CASE Fails(s)
    BY <2>6 DEF Fails, Goto, TypeOK, RoutesInv
  <2>7. CASE \/ RedisAnswers(s) \/ DockerAnswers(s) \/ ChaosRefused(s)
             \/ GatewaysFound(s) \/ GatewayMissing(s)
    BY <2>7 DEF RedisAnswers, DockerAnswers, ChaosRefused, GatewaysFound, GatewayMissing,
                Goto, TypeOK, RoutesInv
  <2>8. CASE Route(s)
    <3>1. PICK net \in Emulated(s) \ routes[s] : routes' = [routes EXCEPT ![s] = @ \cup {net}]
      BY <2>8 DEF Route
    <3>2. place' = place /\ place[s] = "routing" /\ table' = table \cup {s}
      BY <2>8 DEF Route
    <3> QED
      BY <3>1, <3>2 DEF RoutesInv, TypeOK
  <2>9. CASE Routed(s)
    BY <2>9 DEF Routed, AfterRoutes, Goto, TypeOK, RoutesInv
  <2>10. CASE BrokerAnswers(s) \/ Limited(s)
    BY <2>10 DEF BrokerAnswers, Limited, Goto, TypeOK, RoutesInv
  <2>11. CASE ChaosSet(s)
    BY <2>11 DEF ChaosSet, Goto, TypeOK, RoutesInv
  <2> QED
    BY <2>1, <2>5, <2>6, <2>7, <2>8, <2>9, <2>10, <2>11 DEF Boot
<1> QED
  BY <1>1, <1>2

\* What a node of the topology has in the definition, if no entry replaced its own.
LEMMA NodeIsRouted ==
  ASSUME NEW t, TopologyOK(t), Closed(Definition(t)),
         NEW n \in t.nodes, n \in DOMAIN ServiceEntries(t), ServiceEntries(t)[n].kind = "node",
         NEW net \in t.networks[n] \cup BrokerNetworks(t, n)
  PROVE  /\ net \in ServiceEntries(t)[n].networks
         /\ NetworkEntries(t)[net] = "network"
<1> DEFINE entry == ServiceEntries(t)[n]
           SN == UNION {{ServiceNetwork[s][m] : m \in ServiceNodes(t, s)} : s \in TopologyServices(t)}
           First == [x \in TopologyNetworks(t) |-> "network"]
           Second == [x \in SN |-> "service_network"]
<1>1. entry = NodeDefinitions(t)[n]
  <2>1. \A name \in {Name[b] : b \in TopologyBrokers(t)} : BrokerDefinitions(t)[name].kind = "broker"
    BY DEF BrokerDefinitions, Entry
  <2>2. \A name \in {Name[s] : s \in TopologyServices(t)} : ServiceDefinitions(t)[name].kind = "service"
    BY DEF ServiceDefinitions, Entry
  <2>3. \A name \in Gateways(TopologyNetworks(t)) : GatewayDefinitions(t)[name].kind = "gateway"
    BY DEF GatewayDefinitions, Entry
  <2>4. \A name \in Base(t) : BaseDefinitions(t)[name].kind \in {"redis", "docker_proxy"}
    BY DEF BaseDefinitions, Entry
  <2> QED
    BY <2>1, <2>2, <2>3, <2>4, EntryCases
<1>2. net \in entry.networks
  BY <1>1 DEF NodeDefinitions, Entry
<1>3. net \in DOMAIN NetworkEntries(t)
  BY <1>2 DEF Closed, Definition
<1>4. net \in Networks
  BY DEF TopologyOK, BrokerNetworks
<1>5. net \notin SN
  <2>1. TopologyServices(t) \subseteq Services
    BY DEF TopologyServices, Distinct, TopologyOK
  <2>2. \A s : ServiceNodes(t, s) \subseteq Nodes
    BY DEF ServiceNodes, TopologyOK
  <2> QED
    BY <1>4, <2>1, <2>2, NamesAssumption
<1>6. NetworkEntries(t) = Updated(First, Second)
  BY DEF NetworkEntries
<1>7. net \in TopologyNetworks(t)
  BY <1>3, <1>5, <1>6 DEF Updated
<1>8. NetworkEntries(t)[net] = "network"
  BY <1>5, <1>6, <1>7 DEF Updated
<1> QED
  BY <1>2, <1>8

\* No application runs before its traffic goes through the gateways, whatever the
\* topology and however many containers fail (entrypoint.sh:64-72, routes.py:125-127).
THEOREM AppsRunRouted == Spec => []AppRunsRouted
<1>1. TypeOK /\ RoutesInv => AppRunsRouted
  <2> SUFFICES ASSUME TypeOK, RoutesInv, NEW n \in topology.nodes, n \in Entries,
                      Kind(n) = "node", place[n] = "up",
                      NEW net \in topology.networks[n] \cup BrokerNetworks(topology, n)
               PROVE  net \in routes[n]
    BY DEF AppRunsRouted
  <2>1. routes[n] = Emulated(n) /\ Closed(definition)
    BY DEF RoutesInv
  <2>2. /\ definition = Definition(topology)
        /\ TopologyOK(topology)
    BY TopologiesAssumption DEF TypeOK
  <2>3. /\ n \in DOMAIN ServiceEntries(topology)
        /\ ServiceEntries(topology)[n].kind = "node"
    BY <2>2 DEF Entries, Kind, Definition
  <2>4. /\ net \in ServiceEntries(topology)[n].networks
        /\ NetworkEntries(topology)[net] = "network"
    BY <2>1, <2>2, <2>3, NodeIsRouted
  <2> QED
    BY <2>1, <2>2, <2>4 DEF Emulated, Attached, Definition
<1> QED
  BY <1>1, InitTypeOK, NextTypeOK, InitRoutesInv, NextRoutesInv, PTL DEF Spec
=============================================================================
