----------------------------- MODULE Topologies -----------------------------
(***************************************************************************)
(* What a party does in each operation of the topologies of network2: the  *)
(* tasks the operation runs at the same time, and the reads and writes of  *)
(* each task, in order.                                                    *)
(*                                                                         *)
(* A step of a task moves one segment.  A data segment is a piece of the   *)
(* chunk of some owner; a signal is one byte that says nothing about who   *)
(* sent it or why.  An operation is a sequence of stages: all tasks of a   *)
(* stage are awaited, in the order given, before the next stage starts.    *)
(***************************************************************************)
EXTENDS TreeIds, Sequences

(* The write_all, or the read_exact, of count chunks of the buffer, each    *)
(* of size segments.                                                       *)
Chunks(dir, peer, first, count, size) ==
    [k \in 1 .. count * size |->
        [dir |-> dir, peer |-> peer, kind |-> "data",
         owner |-> first + ((k - 1) \div size),
         piece |-> ((k - 1) % size) + 1]]

Signal(dir, peer, kind, from) ==
    << [dir |-> dir, peer |-> peer, kind |-> kind, owner |-> from, piece |-> 0] >>

Repeat(s, times) == [k \in 1 .. times * Len(s) |-> s[((k - 1) % Len(s)) + 1]]

-----------------------------------------------------------------------------
(* TcpTree.  connections[i] goes to the partner of level i.                *)

(* Mutant of PartSize: the part does not grow.                             *)
PartSizeFixed(i) == 1

PartSize(i) == PowerOfTwo(i)

(* start of share, after i of its steps.                                   *)
TreeStart(p, i) ==
    LET start[k \in 0 .. i] ==
          IF k = 0 THEN p
          ELSE IF IsServer(p, k - 1) THEN start[k - 1]
          ELSE start[k - 1] - PartSize(k - 1)
    IN  start[i]

(* Mutant of TreeStage: the parts are written, and only then read.         *)
TreeStageInTurn(p, i, size) ==
    LET part  == PartSize(i)
        lower == TreeStart(p, i + 1)
        upper == lower + part
    IN  << Chunks("send", Partner(p, i), IF IsServer(p, i) THEN lower ELSE upper, part, size)
           \o Chunks("recv", Partner(p, i), IF IsServer(p, i) THEN upper ELSE lower, part, size) >>

(* One round of the loop over the connections: the server has the lower    *)
(* half of the range, and gets the upper one while it sends its own.       *)
TreeStage(p, i, size) ==
    LET part  == PartSize(i)
        lower == TreeStart(p, i + 1)
        upper == lower + part
    IN  << Chunks("send", Partner(p, i), IF IsServer(p, i) THEN lower ELSE upper, part, size),
           Chunks("recv", Partner(p, i), IF IsServer(p, i) THEN upper ELSE lower, part, size) >>

TreeShare(n, p, size) == [i \in 1 .. LogN(n) |-> TreeStage(p, i - 1, size)]

-----------------------------------------------------------------------------
(* TcpPairWise.  connections is sorted by the peer's id.                   *)

ConnPeer(p, k) == IF k < p THEN k ELSE k + 1

(* Mutant of RecvChunk: the parts after one's own are not shifted.         *)
RecvChunkUnshifted(p, k) == k

(* The chunk zipped with connections[k]: those before one's own come first. *)
RecvChunk(p, k) == IF k < p THEN k ELSE k + 1

PairWiseShare(n, p, size) ==
    LET sends == [k \in 1 .. n - 1 |-> Chunks("send", ConnPeer(p, k - 1), p, 1, size)]
        recvs == [k \in 1 .. n - 1 |->
                    Chunks("recv", ConnPeer(p, k - 1), RecvChunk(p, k - 1), 1, size)]
    IN  << sends \o recvs >>

-----------------------------------------------------------------------------
(* TcpCollect.  Party 0 has a connection with each client, which has none  *)
(* but that.                                                               *)

(* Mutant of Sync: party 0 answers each client as soon as it is ready.     *)
SyncOneByOne(n, p) ==
    IF p = 0
    THEN << [k \in 1 .. n - 1 |-> Signal("recv", k, "ready", k)
                                  \o Signal("send", k, "start", 0)] >>
    ELSE << << Signal("send", 0, "ready", p) \o Signal("recv", 0, "start", 0) >> >>

Sync(n, p) ==
    IF p = 0
    THEN << [k \in 1 .. n - 1 |-> Signal("recv", k, "ready", k)],
            [k \in 1 .. n - 1 |-> Signal("send", k, "start", 0)] >>
    ELSE << << Signal("send", 0, "ready", p) \o Signal("recv", 0, "start", 0) >> >>

Collect(n, p, iters, size) ==
    IF p = 0
    THEN << [k \in 1 .. n - 1 |->
               Repeat(Chunks("recv", k, k, 1, size) \o Signal("send", k, "ack", 0), iters)] >>
    ELSE << << Repeat(Chunks("send", 0, p, 1, size) \o Signal("recv", 0, "ack", 0), iters) >> >>

-----------------------------------------------------------------------------
(* A call is [op, size, iters]; what party p of n runs for it, whom it     *)
(* cannot return without, and whose data it then has.                      *)

Stages(call, n, p) ==
    CASE call.op = "tree"     -> TreeShare(n, p, call.size)
      [] call.op = "pairwise" -> PairWiseShare(n, p, call.size)
      [] call.op = "sync"     -> Sync(n, p)
      [] call.op = "collect"  -> Collect(n, p, call.iters, call.size)

WaitsFor(call, n, p) ==
    IF call.op = "collect" /\ p # 0 THEN {0, p} ELSE 0 .. n - 1

Gets(call, n, p) ==
    CASE call.op \in {"tree", "pairwise"} -> 0 .. n - 1
      [] call.op = "collect" /\ p = 0     -> 1 .. n - 1
      [] OTHER                            -> {}
=============================================================================
