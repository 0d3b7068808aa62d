SPECIFICATION FairSpec
CONSTANTS
    Clients = {"peer"}
    Servers = {"socket"}
    RouteKeys = {"node", "service"}
    PeerKey <- Keys
    MaxGen = 3
INVARIANTS TypeOK OneDialler RoutesInStep
PROPERTIES Reconnects
CHECK_DEADLOCK FALSE
