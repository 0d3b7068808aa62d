---------------------------- MODULE SwbusConfig ----------------------------
(***************************************************************************)
(* The swbus configuration that swbusd, hamgrd and swbus-cli compute from  *)
(* CONFIG_DB when they start (crates/swbus-config/src/lib.rs).  One NPU    *)
(* runs a swbusd for each of its DPU slots.  What it listens on, which     *)
(* service paths are its own and which swbusds it dials all come from the  *)
(* loopback addresses of the NPU and from the rows of two tables, DPU (the *)
(* slots of this NPU) and REMOTE_DPU (the slots of other NPUs).            *)
(*                                                                         *)
(* The CONFIG_DB of an NPU is a record:                                    *)
(*   meta      region and cluster are in DEVICE_METADATA|localhost         *)
(*   loopback  the addresses of Loopback0                                  *)
(*   dpus      the rows [dpu_id, port] of DPU                              *)
(*   remotes   the rows [type, port, dpu_id, addrs] of REMOTE_DPU          *)
(* Region and cluster are the same for every path of one NPU and are left  *)
(* out of the paths: a path is the pair written "<ip>-dpu<dpu_id>".        *)
(***************************************************************************)
CONSTANTS V4,      \* the IPv4 addresses; every other address is IPv6
          NoPort   \* the value of a row without the field swbus_port

\* One route of this swbusd, one id of a peer.
Path(ip, dpu_id) == [ip |-> ip, dpu_id |-> dpu_id]
Socket(ip, port) == [ip |-> ip, port |-> port]

\* IPv4 is taken where there is one, for the first route as for the endpoint.
Preferred(addrs) ==
    IF addrs \cap V4 # {} THEN CHOOSE a \in addrs \cap V4 : TRUE
                          ELSE CHOOSE a \in addrs : TRUE

\* A DPU in another slot of this NPU is a remote DPU with our addresses.
ToRemoteDpu(row, loopback) ==
    [type |-> "cluster", port |-> row.port, dpu_id |-> row.dpu_id, addrs |-> loopback]

RouteConfig(addrs, dpu_id) == {Path(a, dpu_id) : a \in addrs}

\* The rows for which no peer can be made; one of them fails the whole load.
PeerRefused(row) == row.type # "cluster" \/ row.port = NoPort

\* A peer for each address family of the row, none for a row without address.
PeerConfig(row) ==
    {[id |-> Path(a, row.dpu_id), endpoint |-> Socket(a, row.port)] : a \in row.addrs}

\* The rows that become peers of the swbusd of a slot.
PeerRows(db, slot) ==
    {ToRemoteDpu(r, db.loopback) : r \in {d \in db.dpus : d.dpu_id # slot}} \cup db.remotes

\* swbus_config_from_db returns Ok.
Loads(db, slot) ==
    /\ db.meta
    /\ db.loopback # {}
    /\ \E r \in db.dpus : r.dpu_id = slot
    /\ \A r \in db.dpus : r.dpu_id = slot => r.port # NoPort
    /\ \A r \in PeerRows(db, slot) : ~PeerRefused(r)

\* Mutant: the endpoint takes the IPv6 address where there is one.
ConfigV6Endpoint(db, slot) ==
    LET row == CHOOSE r \in db.dpus : r.dpu_id = slot
        ip  == Preferred(db.loopback)
    IN  [endpoint |-> Socket(IF db.loopback \ V4 = {} THEN ip ELSE CHOOSE a \in db.loopback \ V4 : TRUE, row.port),
         path     |-> Path(ip, slot),
         routes   |-> RouteConfig(db.loopback, slot),
         peers    |-> UNION {PeerConfig(r) : r \in PeerRows(db, slot)}]

\* Its endpoint, the path get_swbusd_service_path returns (the first cluster
\* route), its routes and its peers.
Config(db, slot) ==
    LET row == CHOOSE r \in db.dpus : r.dpu_id = slot
        ip  == Preferred(db.loopback)
    IN  [endpoint |-> Socket(ip, row.port),
         path     |-> Path(ip, slot),
         routes   |-> RouteConfig(db.loopback, slot),
         peers    |-> UNION {PeerConfig(r) : r \in PeerRows(db, slot)}]

-----------------------------------------------------------------------------
\* a dials b where b listens, under the path b's own services are known by.
Dials(a, b) == \E p \in a.peers : p.id = b.path /\ p.endpoint = b.endpoint

\* The CONFIG_DB of the NPU of a REMOTE_DPU row, when both NPUs are
\* configured alike: its DPU rows are our REMOTE_DPU rows with its addresses,
\* our DPU rows and the rows of third NPUs are its REMOTE_DPU rows.
Mirror(db, row) ==
    LET there == {r \in db.remotes : r.addrs = row.addrs}
    IN  [meta     |-> TRUE,
         loopback |-> row.addrs,
         dpus     |-> {[dpu_id |-> r.dpu_id, port |-> r.port] : r \in there},
         remotes  |-> {ToRemoteDpu(r, db.loopback) : r \in db.dpus}
                        \cup (db.remotes \ there)]
=============================================================================
