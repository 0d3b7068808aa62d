---------------------------- MODULE MCMuxRouting ----------------------------
(* Two swbusds and a third place nobody serves, in one cluster or in two.  *)
EXTENDS MuxRouting

OneCluster == [n \in {"n1", "n2", "n3"} |-> "c"]
TwoClusters == [n \in {"n1", "n2", "n3"} |-> IF n = "n1" THEN "c1" ELSE "c2"]
OneRegion == [n \in {"n1", "n2", "n3"} |-> "r"]
=============================================================================
