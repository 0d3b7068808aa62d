---------------------------- MODULE MCDpuNetwork ----------------------------
(* DpuNetwork for TLC: two slots on this NPU (addresses a4, a6), two other *)
(* NPUs (b4, b6; c6 has no IPv4 address).                                  *)
EXTENDS DpuNetwork

Rows == {[dpu_id |-> 0, port |-> 1], [dpu_id |-> 1, port |-> 1]}
Row(t, p, addrs) == [type |-> t, port |-> p, dpu_id |-> 0, addrs |-> addrs]
Remotes == {Row("cluster", 2, {"b4", "b6"}), Row("cluster", 2, {"c6"})}
=============================================================================
