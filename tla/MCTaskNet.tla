----------------------------- MODULE MCTaskNet -----------------------------
(* Small instances of TaskNet for TLC: one of each topology.               *)
EXTENDS TaskNet

Call(op, size, iters) == [op |-> op, size |-> size, iters |-> iters]

(* Four parties make a tree of two levels, three the smallest exchange with *)
(* a middle party.  Two shares in a row let a party be a share ahead; the   *)
(* collect benchmark has its two rounds, the second one with more than one  *)
(* iteration.  A message is longer than the window in the second level of   *)
(* the tree, between two parties, and in the collects.                      *)
Benchmarks ==
    [tree     |-> [parties |-> 4, calls |-> <<Call("tree", 1, 1), Call("tree", 1, 1)>>],
     pairwise |-> [parties |-> 3,
                   calls |-> <<Call("pairwise", 1, 1), Call("pairwise", 1, 1)>>],
     pair     |-> [parties |-> 2,
                   calls |-> <<Call("pairwise", 3, 1), Call("pairwise", 2, 1)>>],
     collect  |-> [parties |-> 3, calls |-> <<Call("sync", 1, 1), Call("collect", 2, 1),
                                              Call("sync", 1, 1), Call("collect", 2, 2)>>]]

ASSUME CollectsAfterSync == SyncBetween
=============================================================================
