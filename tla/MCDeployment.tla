---------------------------- MODULE MCDeployment ----------------------------
\* Instances of Deployment for TLC: every topology of two nodes, two networks, two
\* brokers and two services of one name is compiled; two topologies are deployed.
\*
\* Entries of different kinds have one name: a broker and the two services, the other
\* broker and a node, and that node and the gateway of a network.
EXTENDS Deployment

CONSTANTS n1, n2, net_a, net_b, b1, b2, s1, s2, s3, broker, database, gw_a

MCName == [o \in {b1, b2, s1, s2, s3} |->
    IF o = b2 THEN n2 ELSE IF o = s3 THEN database ELSE broker]
MCGatewayName == [net \in {net_a, net_b} |-> IF net = net_a THEN gw_a ELSE n2]
MCServiceNetwork == [s \in {s1, s2, s3} |-> [n \in {n1, n2} |-> <<MCName[s], n>>]]

\* Nodes without a broker have a network; the shaped networks play no part in the
\* compilation.
MCCompiled ==
    {t \in [nodes : {{n1, n2}}, networks : [{n1, n2} -> SUBSET {net_a, net_b}],
            broker : [{n1, n2} -> {b1, b2, None}], broker_network : [{n1, n2} -> {net_a, net_b}],
            services : [{n1, n2} -> {{}, {s1}, {s2}}], brokers : {{}, {b2}},
            attached : [{b1, b2} -> (SUBSET {net_a, net_b}) \ {{}}], shaped : {{net_a, net_b}},
            redis : BOOLEAN, docker_proxy : {TRUE}] :
        \A n \in {n1, n2} : t.broker[n] = None => t.broker_network[n] = net_a}

\* A node whose broker is on another network, and a network without conditions.
Bridged(shaped) ==
    [nodes |-> {n1}, networks |-> [n \in {n1} |-> {net_a}], broker |-> [n \in {n1} |-> b1],
     broker_network |-> [n \in {n1} |-> net_b], services |-> [n \in {n1} |-> {s3}],
     brokers |-> {}, attached |-> [o \in {b1} |-> {net_b}], shaped |-> shaped,
     redis |-> TRUE, docker_proxy |-> TRUE]
MCDeployed == {Bridged({net_a, net_b}), Bridged({net_a})}
MCTopologies == MCCompiled \cup MCDeployed
=============================================================================
