--------------------------- MODULE MCTopologySetup ---------------------------
(* Small instances of TopologySetup for TLC: one of each topology.  In the *)
(* tree of four, the party in the middle connects once and accepts once.   *)
EXTENDS TopologySetup

SmallNets == [tree |-> 4, pairwise |-> 4, collect |-> 4]
=============================================================================
