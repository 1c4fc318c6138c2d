---------------------------- MODULE MCKnetTables ----------------------------
(* KnetTables with two processes, interfaces enough for the array to grow twice, a *)
(* call-back filter of one packet in a channel's priority range, and a filter with *)
(* a mirror for both packets and all channels.                                     *)
EXTENDS KnetTables, TLC

Kf(p, m, t, id, mt, mid) == [priority |-> p, m |-> m, dest_type |-> t, dest_id |-> id,
                             mirror_type |-> mt, mirror_id |-> mid]

MCKfs == {Kf(1, {"a"}, "CB", 0, "NULL", 0),
          Kf(3, Pkts, "NETIF", 1, "NETIF", 2)}
MCCbKfs == {Kf(1, {"a"}, "NETIF", 2, "NULL", 0)}

\* Processes, and memory of either kind, are alike.
Symmetry == Permutations(Procs) \cup Permutations(Ifaces) \cup Permutations(Filters)
=============================================================================
