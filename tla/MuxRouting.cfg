SPECIFICATION FairRoutingSpec
CONSTANTS
    Nodes = {"n1", "n2"}
    Absent = {"n3"}
    Services = {"s"}
    ClusterOf <- TwoClusters
    RegionOf <- OneRegion
    Bodies = {"Ping", "Actors", "Trace"}
    DefaultTtl = 3
    MaxTtl = 3
    MayDetach = TRUE
INVARIANTS RoutingTypeOK
PROPERTIES Drains Answered
CHECK_DEADLOCK FALSE
