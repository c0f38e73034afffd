SPECIFICATION FairSpec
CONSTANTS
    n1 = n1
    n2 = n2
    net_a = net_a
    net_b = net_b
    b1 = b1
    b2 = b2
    s1 = s1
    s2 = s2
    s3 = s3
    broker = broker
    gw_a = gw_a
    database = database
    None = None
    RedisHost = RedisHost
    DockerProxyHost = DockerProxyHost
    Nodes = {n1, n2}
    Networks = {net_a, net_b}
    Brokers = {b1, b2}
    Services = {s1, s2, s3}
    Name <- MCName
    GatewayName <- MCGatewayName
    ServiceNetwork <- MCServiceNetwork
    Topologies <- MCTopologies
    Deployed <- MCDeployed
    MaxFaults = 1
INVARIANTS DefinitionClosed AppRunsRouted
PROPERTIES StackComesUp
CHECK_DEADLOCK FALSE
