-------------------------- MODULE TaskNet_proofs --------------------------
(***************************************************************************)
(* Proofs about TaskNet: for every list of calls of the topologies, any    *)
(* number of parties (a power of two for the tree), any size of messages   *)
(* and of the kernel's buffers, and whoever is killed.                     *)
(*                                                                         *)
(*   1. A call's segments from one party to another, the flow, are written *)
(*      by one task and read by one task, and both ends have the same      *)
(*      segments in the same order.                                        *)
(*   2. The inductive invariant: a channel holds what has been written and *)
(*      not yet been read of the flows of all calls, one after the other;  *)
(*      a buffer has what the tasks that are done have read.               *)
(*   3. Who closes has written all that others still read, so that nobody  *)
(*      ends in an error unless somebody was killed.                       *)
(*   4. What is tagged with a call of its owner shows that the owner has   *)
(*      entered that call.  The calls are therefore barriers for those     *)
(*      they wait for, and implement AllGather.                            *)
(***************************************************************************)
EXTENDS TaskNet, NumberTheorems, SequenceTheorems

-----------------------------------------------------------------------------
(* The flows of a call c of n parties.                                     *)

(* p and q exchange segments in the call.                                  *)
Linked(c, n, p, q) ==
    /\ p # q
    /\ CASE c.op = "tree"     -> \E l \in 0 .. LogN(n) - 1 : q = Partner(p, l)
         [] c.op = "pairwise" -> TRUE
         [] OTHER             -> p = 0 \/ q = 0

(* The level in which p and q are partners.                                *)
Level(n, p, q) == CHOOSE l \in 0 .. LogN(n) - 1 : q = Partner(p, l)

(* How many segments go from p to q.                                       *)
Volume(c, n, p, q) ==
    CASE c.op = "tree"     -> PartSize(Level(n, p, q)) * c.size
      [] c.op = "pairwise" -> c.size
      [] c.op = "sync"     -> 1
      [] c.op = "collect"  -> IF q = 0 THEN c.iters * c.size ELSE c.iters

(* The first chunk p sends in a level of the tree.                         *)
First(p, l) == IF IsServer(p, l) THEN TreeStart(p, l + 1)
               ELSE TreeStart(p, l + 1) + PartSize(l)

(* What a segment is about.                                                *)
About(kind, owner, piece) == [kind |-> kind, owner |-> owner, piece |-> piece]

(* What segment i from p to q is about.                                    *)
Segment(c, n, p, q, i) ==
    CASE c.op = "tree" ->
           About("data", First(p, Level(n, p, q)) + ((i - 1) \div c.size), ((i - 1) % c.size) + 1)
      [] c.op = "pairwise" -> About("data", p, ((i - 1) % c.size) + 1)
      [] c.op = "sync" -> IF q = 0 THEN About("ready", p, 0) ELSE About("start", p, 0)
      [] c.op = "collect" -> IF q = 0 THEN About("data", p, ((i - 1) % c.size) + 1)
                             ELSE About("ack", p, 0)

(* The stage and the task of p that send to q, or receive from it.         *)
StageOf(c, n, p, dir, q) ==
    CASE c.op = "tree" -> Level(n, p, q) + 1
      [] c.op = "sync" -> IF p = 0 /\ dir = "send" THEN 2 ELSE 1
      [] OTHER         -> 1

TaskOf(c, n, p, dir, q) ==
    CASE c.op = "tree"     -> IF dir = "send" THEN 1 ELSE 2
      [] c.op = "pairwise" -> (IF q < p THEN q + 1 ELSE q) + (IF dir = "send" THEN 0 ELSE n - 1)
      [] OTHER             -> IF p = 0 THEN q ELSE 1

(* How many of them that task has sent, or received, after x operations.   *)
Count(c, n, p, dir, q, x) ==
    CASE c.op \in {"tree", "pairwise"} -> x
      [] c.op = "sync" -> IF p = 0 THEN x
                          ELSE IF dir = "send" THEN IF x >= 1 THEN 1 ELSE 0
                          ELSE IF x >= 2 THEN 1 ELSE 0
      [] c.op = "collect" ->
           IF (p = 0) = (dir = "recv")
           THEN (x \div (c.size + 1)) * c.size + (x % (c.size + 1))
           ELSE x \div (c.size + 1)

(* The flow of p with q in direction dir.                                  *)
FlowVolume(c, n, p, dir, q) == IF dir = "send" THEN Volume(c, n, p, q) ELSE Volume(c, n, q, p)
FlowSegment(c, n, p, dir, q, i) ==
    IF dir = "send" THEN Segment(c, n, p, q, i) ELSE Segment(c, n, q, p, i)

(* The operations of a task of the call.                                   *)
Ops(c, n) ==
    [dir : {"send", "recv"}, peer : 0 .. n - 1,
     kind : {"data", "ready", "start", "ack"}, owner : 0 .. n - 1, piece : 0 .. c.size]

(* The calls of a network of n parties.                                    *)
IsCall(c, n) ==
    /\ n \in Nat /\ n >= 2
    /\ c \in [op : {"tree", "pairwise", "sync", "collect"}, size : Nat \ {0}, iters : Nat \ {0}]
    /\ c.op = "tree" => \E l \in 0 .. n : PowerOfTwo(l) = n

(* A plan is a sequence of stages of tasks.                                *)
IsPlan(c, n, p, plan) ==
    /\ Len(plan) \in Nat /\ Len(plan) >= 1 /\ DOMAIN plan = 1 .. Len(plan)
    /\ \A s \in 1 .. Len(plan) : \A k \in DOMAIN plan[s] : plan[s][k] \in Seq(Ops(c, n))

(* What one operation of a plan is: the next segment of one flow.          *)
OpOK(c, n, p, s, k, x, op) ==
    LET dir == op.dir
        q   == op.peer
    IN  /\ Linked(c, n, p, q)
        /\ s = StageOf(c, n, p, dir, q) /\ k = TaskOf(c, n, p, dir, q)
        /\ Count(c, n, p, dir, q, x) = Count(c, n, p, dir, q, x - 1) + 1
        /\ About(op.kind, op.owner, op.piece)
             = FlowSegment(c, n, p, dir, q, Count(c, n, p, dir, q, x))
        /\ op.kind = "data" => op.piece \in 1 .. c.size
        /\ op.kind = "data" /\ dir = "recv" => op.owner # p
        /\ \A d \in {"send", "recv"}, r \in 0 .. n - 1 :
             /\ Linked(c, n, p, r) /\ <<d, r>> # <<dir, q>>
             /\ StageOf(c, n, p, d, r) = s /\ TaskOf(c, n, p, d, r) = k
             => Count(c, n, p, d, r, x) = Count(c, n, p, d, r, x - 1)

(* A flow has a task, which takes it from its first segment to its last.   *)
FlowOK(c, n, p, dir, q, plan) ==
    LET s == StageOf(c, n, p, dir, q)
        k == TaskOf(c, n, p, dir, q)
        V == FlowVolume(c, n, p, dir, q)
    IN  /\ s \in 1 .. Len(plan) /\ k \in DOMAIN plan[s] /\ V \in Nat /\ V >= 1
        /\ Count(c, n, p, dir, q, 0) = 0
        /\ Count(c, n, p, dir, q, Len(plan[s][k])) = V
        /\ \A x \in 0 .. Len(plan[s][k]) : Count(c, n, p, dir, q, x) \in 0 .. V

(* p receives the chunk piece before stage s.                              *)
Receives(plan, s, owner, piece) ==
    \E t \in 1 .. s - 1 : \E k \in DOMAIN plan[t] : \E x \in 1 .. Len(plan[t][k]) :
        LET op == plan[t][k][x]
        IN  op.dir = "recv" /\ op.kind = "data" /\ op.owner = owner /\ op.piece = piece

(* p sends what it has, and has in the end what the call is for.           *)
DataOK(c, n, p, plan) ==
    /\ \A s \in 1 .. Len(plan) : \A k \in DOMAIN plan[s] : \A x \in 1 .. Len(plan[s][k]) :
         LET op == plan[s][k][x]
         IN  op.dir = "send" /\ op.kind = "data" /\ op.owner # p
               => Receives(plan, s, op.owner, op.piece)
    /\ \A j \in Gets(c, n, p) : j # p =>
         \A piece \in 1 .. c.size : Receives(plan, Len(plan) + 1, j, piece)

(* What the proofs need to know of what p runs for the call.               *)
PlanOK(c, n, p, plan) ==
    /\ IsPlan(c, n, p, plan)
    /\ \A s \in 1 .. Len(plan) : \A k \in DOMAIN plan[s] : \A x \in 1 .. Len(plan[s][k]) :
         OpOK(c, n, p, s, k, x, plan[s][k][x])
    /\ \A dir \in {"send", "recv"}, q \in 0 .. n - 1 :
         Linked(c, n, p, q) => FlowOK(c, n, p, dir, q, plan)
    /\ DataOK(c, n, p, plan)

-----------------------------------------------------------------------------
(* The invariant.                                                          *)

(* Call r of the deployment, and its number of parties.                    *)
CallAt(r) == Deployments[net].calls[r]
M == Size(net)

(* The segments from p to q in the call.                                   *)
FlowOf(c, n, p, q) == IF Linked(c, n, p, q) THEN Volume(c, n, p, q) ELSE 0

(* How many segments the first r calls send from p to q.                   *)
Before(d, p, q, r) ==
    LET flow == [k \in 1 .. r |-> FlowOf(Deployments[d].calls[k], Size(d), p, q)]
        sum[k \in 0 .. r] == IF k = 0 THEN 0 ELSE sum[k - 1] + flow[k]
    IN  sum[r]

(* How far task k of p is.                                                 *)
Done(p, k) == Len(Plan(p, call[p])[stage[p]][k]) - Len(todo[p][k])

Progress(p, dir, q) ==
    LET s == StageOf(CallAt(call[p]), M, p, dir, q)
    IN  IF call[p] > LastCall(net) \/ ~Linked(CallAt(call[p]), M, p, q) \/ stage[p] < s THEN 0
        ELSE IF stage[p] > s THEN FlowVolume(CallAt(call[p]), M, p, dir, q)
        ELSE Count(CallAt(call[p]), M, p, dir, q, Done(p, TaskOf(CallAt(call[p]), M, p, dir, q)))

(* What p has written to q, and read from it, in all calls together.       *)
Written(p, q) == Before(net, p, q, call[p] - 1) + Progress(p, "send", q)
Taken(p, q) == Before(net, q, p, call[p] - 1) + Progress(p, "recv", q)

(* Segment i from p to q, in call r.                                       *)
Tagged(c, n, p, q, i, r) ==
    LET about == Segment(c, n, p, q, i)
    IN  [kind |-> about.kind, owner |-> about.owner, piece |-> about.piece, call |-> r]

(* All there can be in a channel.                                          *)
Segments == [kind : {"data", "ready", "start", "ack"}, owner : Parties, piece : Nat, call : Nat]

(* The types of the variables.                                             *)
Shapes ==
    /\ net \in DOMAIN Deployments
    /\ status \in [Parties -> {"run", "done", "failed"}]
    /\ call \in [Parties -> 1 .. LastCall(net) + 1]
    /\ stage \in [Parties -> Nat]
    /\ DOMAIN todo = Parties
    /\ DOMAIN broken = Parties
    /\ chan \in [Parties -> [Parties -> Seq(Segments)]]
    /\ DOMAIN mem = Parties
    /\ \A p \in Parties : DOMAIN mem[p] = Parties
    /\ gathered \in [Parties -> Seq(SUBSET Parties)]

(* What p has left of its tasks is the rest of its plan.                   *)
TodoOK(p) ==
    LET plan == Plan(p, call[p])
    IN  /\ status[p] = "done" <=> call[p] = LastCall(net) + 1
        /\ call[p] <= LastCall(net) =>
             /\ stage[p] \in 1 .. Len(plan)
             /\ DOMAIN todo[p] = DOMAIN plan[stage[p]]
             /\ broken[p] \subseteq DOMAIN todo[p]
             /\ \A k \in DOMAIN todo[p] :
                  /\ todo[p][k] \in Seq(Ops(CallAt(call[p]), M))
                  /\ Len(todo[p][k]) <= Len(plan[stage[p]][k])
                  /\ \A i \in 1 .. Len(todo[p][k]) :
                       todo[p][k][i] = plan[stage[p]][k][Done(p, k) + i]

(* The channel holds what is written and not yet taken, in order.          *)
ChanOK(p, q) ==
    /\ Len(chan[p][q]) <= Window
    /\ Len(chan[p][q]) = Written(p, q) - Taken(q, p)
    /\ \A j \in 1 .. Len(chan[p][q]), r \in 1 .. LastCall(net) :
         \A i \in 1 .. FlowOf(CallAt(r), M, p, q) :
            Taken(q, p) + j = Before(net, p, q, r - 1) + i
              => chan[p][q][j] = Tagged(CallAt(r), M, p, q, i, r)

(* p's buffer has the owner's piece, of this call.                         *)
Right(p, owner, piece) ==
    mem[p][owner][piece] =
        [kind |-> "data", owner |-> owner, piece |-> piece, call |-> call[p]]

(* p has what is its own, and what its tasks have read.                    *)
MemOK(p) ==
    call[p] <= LastCall(net) =>
        LET plan == Plan(p, call[p])
        IN  /\ \A j \in Parties : DOMAIN mem[p][j] = 1 .. CallAt(call[p]).size
            /\ \A piece \in 1 .. CallAt(call[p]).size : Right(p, p, piece)
            /\ \A s \in 1 .. stage[p] : \A k \in DOMAIN plan[s] : \A x \in 1 .. Len(plan[s][k]) :
                 LET op == plan[s][k][x]
                 IN  op.dir = "recv" /\ op.kind = "data" /\ (s < stage[p] \/ x <= Done(p, k))
                       => Right(p, op.owner, op.piece)

(* The inductive invariant.                                                *)
IInv ==
    /\ Shapes
    /\ \A p \in Parties : TodoOK(p) /\ MemOK(p)
    /\ \A p, q \in Parties : ChanOK(p, q)

-----------------------------------------------------------------------------
(* The ranges of the tree.                                                 *)

(* f satisfies the recursion of TreeStart.                                 *)
IsStart(f, p, i) ==
    f = [k \in 0 .. i |->
          IF k = 0 THEN p
          ELSE IF IsServer(p, k - 1) THEN f[k - 1] ELSE f[k - 1] - PartSize(k - 1)]

(* TreeStart is the first id of the range.                                 *)
LEMMA StartIs ==
    ASSUME NEW p \in Nat, NEW i \in Nat
    PROVE  TreeStart(p, i) = IdRange(p, i)
<1> DEFINE g == [k \in 0 .. i |-> IdRange(p, k)]
           f == CHOOSE h : h = [k \in 0 .. i |->
                  IF k = 0 THEN p
                  ELSE IF IsServer(p, k - 1) THEN h[k - 1] ELSE h[k - 1] - PartSize(k - 1)]
<1>1. TreeStart(p, i) = f[i]
  BY DEF TreeStart
<1>2. IdRange(p, 0) = p
  BY PowerStep DEF IdRange, Divides
<1>3. \A k \in 1 .. i : IdRange(p, k) = IF IsServer(p, k - 1) THEN IdRange(p, k - 1)
                                      ELSE IdRange(p, k - 1) - PartSize(k - 1)
  <2> SUFFICES ASSUME NEW k \in 1 .. i
               PROVE  IdRange(p, k) = IF IsServer(p, k - 1) THEN IdRange(p, k - 1)
                                      ELSE IdRange(p, k - 1) - PartSize(k - 1)
    OBVIOUS
  <2>1. k - 1 \in Nat /\ (k - 1) + 1 = k
    OBVIOUS
  <2> QED
    BY <2>1, RangeStep DEF PartSize
<1>4. IsStart(g, p, i)
  BY <1>2, <1>3 DEF IsStart
<1>5. IsStart(f, p, i)
  BY <1>4 DEF IsStart
<1>6. g[i] = IdRange(p, i)
  OBVIOUS
<1>7. f[0] = g[0] /\ \A k \in 1 .. i : f[k - 1] = g[k - 1] => f[k] = g[k]
  <2> HIDE DEF f, g
  <2>1. f[0] = p /\ g[0] = p
    BY <1>4, <1>5 DEF IsStart
  <2>2. ASSUME NEW k \in 1 .. i, f[k - 1] = g[k - 1] PROVE f[k] = g[k]
    BY <1>4, <1>5, <2>2 DEF IsStart
  <2> QED
    BY <2>1, <2>2
<1> HIDE DEF f, g
<1>8. \A k \in 0 .. i : f[k] = g[k]
  <2> SUFFICES ASSUME NEW k \in 0 .. i PROVE f[k] = g[k]
    OBVIOUS
  <2> QED
    BY <1>7, SameRecursion, ZenonT(60)
<1> QED
  BY <1>1, <1>6, <1>8

(* p and its partner q in level l of a tree of n parties.                  *)
TreeAt(n, L, l, p, q) ==
    /\ n \in Nat /\ L \in Nat /\ n = PowerOfTwo(L) /\ l \in 0 .. L - 1
    /\ p \in 0 .. n - 1 /\ q = Partner(p, l)

(* The two of a level send each other their halves of the range above.     *)
LEMMA TreeLevel ==
    ASSUME NEW n, NEW L, NEW l, NEW p, NEW q, TreeAt(n, L, l, p, q)
    PROVE  /\ q \in 0 .. n - 1 /\ q # p /\ Partner(q, l) = p
           /\ PartSize(l) \in Nat \ {0}
           /\ First(p, l) = IdRange(p, l) /\ First(q, l) = IdRange(q, l)
           /\ (IF IsServer(p, l) THEN TreeStart(p, l + 1) ELSE TreeStart(p, l + 1) + PartSize(l))
                = First(p, l)
           /\ (IF IsServer(p, l) THEN TreeStart(p, l + 1) + PartSize(l) ELSE TreeStart(p, l + 1))
                = First(q, l)
           /\ First(p, l) \in Nat /\ First(p, l) + PartSize(l) <= n
           /\ First(q, l) \in Nat /\ First(q, l) + PartSize(l) <= n
           /\ p < First(q, l) \/ First(q, l) + PartSize(l) <= p
<1>1. /\ n \in Nat /\ L \in Nat /\ n = PowerOfTwo(L) /\ l \in 0 .. L - 1
      /\ p \in 0 .. n - 1 /\ q = Partner(p, l)
  BY DEF TreeAt
<1>2. /\ q \in 0 .. n - 1 /\ q # p /\ Partner(q, l) = p
      /\ IsServer(q, l) <=> ~IsServer(p, l)
  BY <1>1, PartnerOf
<1>3. PICK m, a, b, c, d :
        /\ m = PowerOfTwo(l) /\ a = IdRange(p, l) /\ b = IdRange(q, l)
        /\ c = IdRange(p, l + 1) /\ d = IdRange(q, l + 1)
  OBVIOUS
<1>4. m \in Nat \ {0} /\ PartSize(l) = m
  BY <1>1, <1>3, PowerStep DEF PartSize
<1>5. /\ a \in Nat /\ a <= p /\ p < a + m /\ a + m <= n
      /\ b \in Nat /\ b + m <= n
  <2>1. l \in 0 .. L
    BY <1>1
  <2> QED
    BY <1>1, <1>2, <1>3, <2>1, RangeOf
<1>6. /\ IsServer(p, l) => c = a /\ b = a + m
      /\ ~IsServer(p, l) => c = b /\ b = a - m
  BY <1>1, <1>3, RangeHalves
<1>7. /\ IsServer(q, l) => d = b
      /\ ~IsServer(q, l) => d = a /\ a = b - m
  <2>1. p = Partner(q, l)
    BY <1>2
  <2> QED
    BY <1>1, <1>2, <1>3, <2>1, RangeHalves
<1>8. TreeStart(p, l + 1) = c /\ TreeStart(q, l + 1) = d
  BY <1>1, <1>2, <1>3, StartIs
<1>9. First(p, l) = a /\ First(q, l) = b
  <2>1. First(p, l) = IF IsServer(p, l) THEN c ELSE c + m
    BY <1>4, <1>8 DEF First
  <2>2. First(q, l) = IF IsServer(q, l) THEN d ELSE d + m
    BY <1>4, <1>8 DEF First
  <2>3. b + m = a \/ IsServer(p, l)
    BY <1>4, <1>5, <1>6
  <2>4. a + m = b \/ ~IsServer(p, l)
    BY <1>4, <1>5, <1>6
  <2> QED
    BY <1>2, <1>6, <1>7, <2>1, <2>2, <2>3, <2>4
<1>10. p < b \/ b + m <= p
  BY <1>1, <1>4, <1>5, <1>6
<1>11. (IF IsServer(p, l) THEN c + m ELSE c) = b
  BY <1>6
<1> QED
  BY <1>2, <1>3, <1>4, <1>5, <1>8, <1>9, <1>10, <1>11 DEF First

(* What the range of a level holds, p has or has got in a lower level.     *)
LEMMA GotLower ==
    ASSUME NEW n \in Nat, NEW L \in Nat, n = PowerOfTwo(L), NEW p \in 0 .. n - 1
    PROVE  \A l \in 0 .. L :
             \A o \in IdRange(p, l) .. IdRange(p, l) + PowerOfTwo(l) - 1 :
                o = p \/ \E j \in 0 .. l - 1 :
                           o \in First(Partner(p, j), j)
                                   .. First(Partner(p, j), j) + PartSize(j) - 1
<1> DEFINE Got(o, l) == o = p \/ \E j \in 0 .. l - 1 :
                           o \in First(Partner(p, j), j)
                                   .. First(Partner(p, j), j) + PartSize(j) - 1
           T == {l \in 0 .. L : \A o \in IdRange(p, l) .. IdRange(p, l) + PowerOfTwo(l) - 1 :
                                   Got(o, l)}
<1>1. 0 \in T
  <2>1. /\ IdRange(p, 0) \in Nat /\ IdRange(p, 0) <= p /\ p < IdRange(p, 0) + PowerOfTwo(0)
    BY RangeOf
  <2>2. PowerOfTwo(0) = 1
    BY PowerStep
  <2> QED
    BY <2>1, <2>2
<1>2. ASSUME NEW l \in 1 .. L, l - 1 \in T PROVE l \in T
  <2>1. PICK k, q : k = l - 1 /\ q = Partner(p, k)
    OBVIOUS
  <2>2. k \in 0 .. L - 1 /\ k \in 0 .. L /\ k + 1 = l /\ l \in 0 .. L /\ k \in Nat
    BY <2>1
  <2>3. TreeAt(n, L, k, p, q)
    BY <2>1, <2>2 DEF TreeAt
  <2>4. PICK m, a, b, c : /\ m = PowerOfTwo(k) /\ a = IdRange(p, k) /\ b = IdRange(q, k)
                          /\ c = IdRange(p, l)
    OBVIOUS
  <2>5. m \in Nat \ {0} /\ PowerOfTwo(l) = 2 * m
    BY <2>2, <2>4, PowerStep
  <2>6. First(q, k) = b /\ PartSize(k) = m /\ q \in 0 .. n - 1
    BY <2>3, <2>4, TreeLevel DEF PartSize
  <2>7. a \in Nat /\ b \in Nat
    BY <2>2, <2>4, <2>6, RangeOf
  <2>8. (c = a /\ b = a + m) \/ (c = b /\ b = a - m)
    BY <2>1, <2>2, <2>4, RangeHalves
  <2>9. ASSUME NEW o \in c .. c + 2 * m - 1
        PROVE  o \in a .. a + m - 1 \/ o \in b .. b + m - 1
    BY <2>5, <2>7, <2>8
  <2>10. ASSUME NEW o \in a .. a + m - 1 PROVE Got(o, l)
    <3>1. Got(o, k)
      BY <1>2, <2>1, <2>4
    <3>2. \A j \in 0 .. k - 1 : j \in 0 .. l - 1
      BY <2>2
    <3> QED
      BY <3>1, <3>2
  <2>11. ASSUME NEW o \in b .. b + m - 1 PROVE Got(o, l)
    <3>1. k \in 0 .. l - 1
      BY <2>2
    <3> QED
      BY <2>1, <2>6, <3>1
  <2> QED
    BY <2>2, <2>4, <2>5, <2>9, <2>10, <2>11
<1> HIDE DEF T
<1>3. \A l \in 0 .. L : l \in T
  BY <1>1, <1>2, InductionUpTo
<1> QED
  BY <1>3 DEF T

-----------------------------------------------------------------------------
(* The tasks.                                                              *)

(* A run of chunks has each piece of each chunk once, in order.            *)
Has(s, o, piece) == \E x \in 1 .. Len(s) : s[x].owner = o /\ s[x].piece = piece

(* s is the run of count chunks from first on.                             *)
ChunksOK(s, dir, peer, first, count, size) ==
    /\ count * size \in Nat /\ count * size >= 1
    /\ Len(s) = count * size /\ DOMAIN s = 1 .. count * size
    /\ \A x \in 1 .. count * size :
         /\ s[x] = [dir |-> dir, peer |-> peer, kind |-> "data",
                    owner |-> first + ((x - 1) \div size), piece |-> ((x - 1) % size) + 1]
         /\ first + ((x - 1) \div size) \in first .. first + count - 1
         /\ ((x - 1) % size) + 1 \in 1 .. size
    /\ \A o \in first .. first + count - 1, piece \in 1 .. size : Has(s, o, piece)

(* Chunks is such a run.                                                   *)
LEMMA ChunksAre ==
    ASSUME NEW dir, NEW peer, NEW first \in Nat, NEW count \in Nat \ {0}, NEW size \in Nat \ {0},
           NEW s, s = Chunks(dir, peer, first, count, size)
    PROVE  ChunksOK(s, dir, peer, first, count, size)
<1>1. PICK N : N = count * size
  OBVIOUS
<1>2. N \in Nat /\ N >= 1 /\ N = size * count
  <2>1. PICK e : e = size * count
    OBVIOUS
  <2>2. e = N /\ e \in Int
    BY <1>1, <2>1
  <2>3. e >= size
    BY <2>1, MultipleTooLarge
  <2> QED
    BY <2>1, <2>2, <2>3
<1>3. s = [k \in 1 .. N |->
            [dir |-> dir, peer |-> peer, kind |-> "data",
             owner |-> first + ((k - 1) \div size), piece |-> ((k - 1) % size) + 1]]
  BY <1>1 DEF Chunks
<1>4. Len(s) = N /\ DOMAIN s = 1 .. N
  BY <1>2, <1>3
<1>5. ASSUME NEW x \in 1 .. N
      PROVE  /\ first + ((x - 1) \div size) \in first .. first + count - 1
             /\ ((x - 1) % size) + 1 \in 1 .. size
  <2>1. PICK a, b : Divides(x - 1, size, a, b)
    BY DEF Divides
  <2>2. x - 1 = size * a + b /\ a \in Int /\ b \in 0 .. size - 1 /\ x - 1 \in 0 .. N - 1
    <3>1. x - 1 \in Int /\ x - 1 \in 0 .. N - 1
      BY <1>2
    <3> QED
      BY <2>1, <3>1, Euclid
  <2>3. a \in 0 .. count - 1
    BY <1>2, <2>2, BelowMultiple
  <2> QED
    BY <2>1, <2>2, <2>3 DEF Divides
<1>6. ASSUME NEW o \in first .. first + count - 1, NEW piece \in 1 .. size
      PROVE  Has(s, o, piece)
  <2>1. PICK a, b, y : a = o - first /\ b = piece - 1 /\ y = size * a + b
    OBVIOUS
  <2>2. a \in 0 .. count - 1 /\ a \in Int /\ b \in 0 .. size - 1
    BY <2>1
  <2>3. y \in 0 .. N - 1
    BY <1>2, <2>1, <2>2, BelowMultiple
  <2>4. Divides(y, size, a, b)
    BY <2>1, <2>2, EuclidUnique
  <2>5. PICK x : x = y + 1
    OBVIOUS
  <2>6. x \in 1 .. N /\ x - 1 = y
    BY <1>2, <2>3, <2>5
  <2>7. s[x].owner = first + a /\ s[x].piece = b + 1
    <3>1. s[x] = [dir |-> dir, peer |-> peer, kind |-> "data",
                  owner |-> first + ((x - 1) \div size), piece |-> ((x - 1) % size) + 1]
      BY <1>3, <2>6
    <3>2. (x - 1) \div size = a /\ ((x - 1) % size) = b
      BY <2>4, <2>6 DEF Divides
    <3> QED
      BY <3>1, <3>2
  <2>8. first + a = o /\ b + 1 = piece
    BY <2>1
  <2> QED
    BY <1>4, <2>6, <2>7, <2>8 DEF Has
<1> QED
  BY <1>1, <1>2, <1>3, <1>4, <1>5, <1>6 DEF ChunksOK

(* They are operations of a call.                                          *)
LEMMA ChunksOps ==
    ASSUME NEW c, NEW n, IsCall(c, n), NEW dir \in {"send", "recv"}, NEW peer \in 0 .. n - 1,
           NEW first \in Nat, NEW count \in Nat \ {0}, first + count <= n,
           NEW s, ChunksOK(s, dir, peer, first, count, c.size),
           s = Chunks(dir, peer, first, count, c.size)
    PROVE  s \in Seq(Ops(c, n))
<1>1. PICK N, size : N = count * size /\ size = c.size
  OBVIOUS
<1>2. /\ N \in Nat /\ size \in Nat \ {0} /\ n \in Nat
      /\ s = [x \in 1 .. N |-> s[x]]
      /\ \A x \in 1 .. N :
           /\ s[x] = [dir |-> dir, peer |-> peer, kind |-> "data",
                      owner |-> first + ((x - 1) \div size), piece |-> ((x - 1) % size) + 1]
           /\ first + ((x - 1) \div size) \in first .. first + count - 1
           /\ ((x - 1) % size) + 1 \in 1 .. size
  BY <1>1 DEF ChunksOK, IsCall, Chunks
<1>3. ASSUME NEW x \in 1 .. N PROVE s[x] \in Ops(c, n)
  <2>1. PICK o, b : o = first + ((x - 1) \div size) /\ b = ((x - 1) % size) + 1
    OBVIOUS
  <2>2. o \in first .. first + count - 1 /\ b \in 1 .. size
    BY <1>2, <2>1
  <2>3. o \in 0 .. n - 1 /\ b \in 0 .. size
    BY <1>2, <2>2
  <2>4. s[x] = [dir |-> dir, peer |-> peer, kind |-> "data", owner |-> o, piece |-> b]
    BY <1>2, <2>1
  <2> QED
    BY <1>1, <2>3, <2>4 DEF Ops
<1>4. PICK S : S = Ops(c, n)
  OBVIOUS
<1>5. \A x \in 1 .. N : s[x] \in S
  BY <1>3, <1>4
<1>6. s \in Seq(S)
  BY <1>2, <1>5
<1> QED
  BY <1>4, <1>6

-----------------------------------------------------------------------------
(* The tree.                                                               *)

(* The two tasks of a level, with partner q.                               *)
TreeTasks(c, n, p, L, l, q, plan) ==
    /\ TreeAt(n, L, l, p, q) /\ TreeAt(n, L, l, q, p)
    /\ Linked(c, n, p, q) /\ Level(n, p, q) = l /\ Level(n, q, p) = l
    /\ l + 1 \in 1 .. L
    /\ DOMAIN plan[l + 1] = {1, 2}
    /\ plan[l + 1][1] = Chunks("send", q, First(p, l), PartSize(l), c.size)
    /\ plan[l + 1][2] = Chunks("recv", q, First(q, l), PartSize(l), c.size)
    /\ ChunksOK(plan[l + 1][1], "send", q, First(p, l), PartSize(l), c.size)
    /\ ChunksOK(plan[l + 1][2], "recv", q, First(q, l), PartSize(l), c.size)
    /\ plan[l + 1][1] \in Seq(Ops(c, n)) /\ plan[l + 1][2] \in Seq(Ops(c, n))

(* A tree has at least one level.                                          *)
LEMMA TreeLog ==
    ASSUME NEW c, NEW n, IsCall(c, n), c.op = "tree", NEW L, L = LogN(n)
    PROVE  n \in Nat /\ n >= 2 /\ L \in Nat \ {0} /\ n = PowerOfTwo(L)
<1>1. n \in Nat /\ n >= 2 /\ \E l \in 0 .. n : PowerOfTwo(l) = n
  BY DEF IsCall
<1>2. L \in 0 .. n /\ PowerOfTwo(L) = n
  BY <1>1, LogOf
<1>3. L # 0
  BY <1>1, <1>2, PowerStep
<1> QED
  BY <1>1, <1>2, <1>3

(* A partner belongs to one level.                                         *)
LEMMA LevelIs ==
    ASSUME NEW n, NEW p \in Nat, NEW L, L = LogN(n), L \in Nat, NEW l \in 0 .. L - 1
    PROVE  Level(n, p, Partner(p, l)) = l
<1>1. \A j \in 0 .. L - 1 : Partner(p, l) = Partner(p, j) => l = j
  <2> SUFFICES ASSUME NEW j \in 0 .. L - 1, Partner(p, l) = Partner(p, j) PROVE l = j
    OBVIOUS
  <2>1. l \in Nat /\ j \in Nat
    OBVIOUS
  <2> QED
    BY <2>1, PartnersDiffer
<1> QED
  BY <1>1 DEF Level

(* The plan of a tree is its levels.                                       *)
LEMMA TreeTasksAre ==
    ASSUME NEW c, NEW n, IsCall(c, n), c.op = "tree", NEW p \in 0 .. n - 1,
           NEW L, L = LogN(n), NEW l \in 0 .. L - 1, NEW q, q = Partner(p, l),
           NEW plan, plan = Stages(c, n, p)
    PROVE  TreeTasks(c, n, p, L, l, q, plan) /\ Len(plan) = L /\ DOMAIN plan = 1 .. L
<1>1. n \in Nat /\ n >= 2 /\ L \in Nat \ {0} /\ n = PowerOfTwo(L) /\ c.size \in Nat \ {0}
  BY TreeLog DEF IsCall
<1>2. TreeAt(n, L, l, p, q)
  BY <1>1 DEF TreeAt
<1>3. /\ q \in 0 .. n - 1 /\ q # p /\ Partner(q, l) = p
      /\ PartSize(l) \in Nat \ {0}
      /\ (IF IsServer(p, l) THEN TreeStart(p, l + 1) ELSE TreeStart(p, l + 1) + PartSize(l))
            = First(p, l)
      /\ (IF IsServer(p, l) THEN TreeStart(p, l + 1) + PartSize(l) ELSE TreeStart(p, l + 1))
            = First(q, l)
      /\ First(p, l) \in Nat /\ First(p, l) + PartSize(l) <= n
      /\ First(q, l) \in Nat /\ First(q, l) + PartSize(l) <= n
  BY <1>2, TreeLevel
<1>4. TreeAt(n, L, l, q, p)
  BY <1>1, <1>3 DEF TreeAt
<1>5. Linked(c, n, p, q)
  BY <1>3 DEF Linked
<1>6. Level(n, p, q) = l /\ Level(n, q, p) = l
  BY <1>1, <1>3, LevelIs
<1>7. plan = [i \in 1 .. L |-> TreeStage(p, i - 1, c.size)]
  BY DEF Stages, TreeShare
<1>8. Len(plan) = L /\ DOMAIN plan = 1 .. L
  BY <1>1, <1>7
<1>9. l + 1 \in 1 .. L /\ (l + 1) - 1 = l
  BY <1>1
<1>10. plan[l + 1] = TreeStage(p, l, c.size)
  BY <1>7, <1>9
<1>11. plan[l + 1] = << Chunks("send", q, First(p, l), PartSize(l), c.size),
                        Chunks("recv", q, First(q, l), PartSize(l), c.size) >>
  BY <1>3, <1>10 DEF TreeStage
<1>12. PICK s, r : /\ s = Chunks("send", q, First(p, l), PartSize(l), c.size)
                   /\ r = Chunks("recv", q, First(q, l), PartSize(l), c.size)
  OBVIOUS
<1>13. plan[l + 1][1] = s /\ plan[l + 1][2] = r /\ DOMAIN plan[l + 1] = {1, 2}
  <2>1. plan[l + 1] = << s, r >>
    BY <1>11, <1>12
  <2> QED
    BY <2>1
<1>14. /\ ChunksOK(s, "send", q, First(p, l), PartSize(l), c.size)
       /\ ChunksOK(r, "recv", q, First(q, l), PartSize(l), c.size)
  BY <1>1, <1>3, <1>12, ChunksAre
<1>15. s \in Seq(Ops(c, n)) /\ r \in Seq(Ops(c, n))
  BY <1>3, <1>12, <1>14, ChunksOps
<1> QED
  BY <1>2, <1>4, <1>5, <1>6, <1>8, <1>9, <1>12, <1>13, <1>14, <1>15 DEF TreeTasks

(* A party's share in a tree is a plan.                                    *)
LEMMA TreePlan ==
    ASSUME NEW c, NEW n, IsCall(c, n), c.op = "tree", NEW p \in 0 .. n - 1,
           NEW plan, plan = Stages(c, n, p)
    PROVE  PlanOK(c, n, p, plan)
<1>1. PICK L : L = LogN(n)
  OBVIOUS
<1>2. n \in Nat /\ n >= 2 /\ L \in Nat \ {0} /\ n = PowerOfTwo(L) /\ c.size \in Nat \ {0}
  BY <1>1, TreeLog DEF IsCall
<1>3. ASSUME NEW l \in 0 .. L - 1 PROVE TreeTasks(c, n, p, L, l, Partner(p, l), plan)
  BY <1>1, TreeTasksAre
<1>4. Len(plan) = L /\ DOMAIN plan = 1 .. L
  <2>1. 0 \in 0 .. L - 1
    BY <1>2
  <2> QED
    BY <1>1, <2>1, TreeTasksAre
<1>5. ASSUME NEW s \in 1 .. L
      PROVE  s - 1 \in 0 .. L - 1 /\ (s - 1) + 1 = s
  BY <1>2
<1>6. IsPlan(c, n, p, plan)
  <2>1. ASSUME NEW s \in 1 .. L, NEW k \in DOMAIN plan[s] PROVE plan[s][k] \in Seq(Ops(c, n))
    BY <1>3, <1>5 DEF TreeTasks
  <2> QED
    BY <1>2, <1>4, <2>1 DEF IsPlan
<1>7. ASSUME NEW s \in 1 .. L, NEW k \in DOMAIN plan[s], NEW x \in 1 .. Len(plan[s][k]),
             NEW op, op = plan[s][k][x]
      PROVE  OpOK(c, n, p, s, k, x, op)
  <2>1. PICK l, q : l = s - 1 /\ q = Partner(p, l)
    OBVIOUS
  <2>2. l \in 0 .. L - 1 /\ l + 1 = s /\ TreeTasks(c, n, p, L, l, q, plan)
    BY <1>3, <1>5, <2>1
  <2>3. k \in {1, 2}
    BY <1>7, <2>2 DEF TreeTasks
  <2>4. PICK dir, from, first :
          /\ dir = (IF k = 1 THEN "send" ELSE "recv") /\ from = (IF k = 1 THEN p ELSE q)
          /\ first = First(from, l)
    OBVIOUS
  <2>5. /\ Linked(c, n, p, q) /\ Level(n, p, q) = l /\ Level(n, q, p) = l
        /\ ChunksOK(plan[s][k], dir, q, first, PartSize(l), c.size)
    BY <2>2, <2>3, <2>4 DEF TreeTasks
  <2>6. PICK a, b : a = (x - 1) \div c.size /\ b = ((x - 1) % c.size) + 1
    OBVIOUS
  <2>7. /\ op = [dir |-> dir, peer |-> q, kind |-> "data", owner |-> first + a, piece |-> b]
        /\ first + a \in first .. first + PartSize(l) - 1 /\ b \in 1 .. c.size
    BY <1>7, <2>5, <2>6 DEF ChunksOK
  <2>8. s = StageOf(c, n, p, dir, q) /\ k = TaskOf(c, n, p, dir, q)
    BY <2>2, <2>3, <2>4, <2>5 DEF StageOf, TaskOf
  <2>9. /\ Count(c, n, p, dir, q, x) = x /\ Count(c, n, p, dir, q, x - 1) = x - 1
        /\ x = (x - 1) + 1
    BY DEF Count
  <2>10. About(op.kind, op.owner, op.piece) = FlowSegment(c, n, p, dir, q, x)
    <3>1. CASE k = 1
      BY <2>4, <2>5, <2>6, <2>7, <3>1 DEF FlowSegment, Segment
    <3>2. CASE k = 2
      BY <2>4, <2>5, <2>6, <2>7, <3>2 DEF FlowSegment, Segment
    <3> QED
      BY <2>3, <3>1, <3>2
  <2>11. dir = "recv" => op.owner # p
    <3>1. CASE k = 1
      BY <2>4, <3>1
    <3>2. CASE k = 2
      <4>1. /\ p < First(q, l) \/ First(q, l) + PartSize(l) <= p
            /\ First(q, l) \in Nat /\ PartSize(l) \in Nat
        BY <2>2, TreeLevel DEF TreeTasks
      <4>2. first = First(q, l) /\ op.owner = first + a
        BY <2>4, <2>7, <3>2
      <4> QED
        BY <2>7, <4>1, <4>2
    <3> QED
      BY <2>3, <3>1, <3>2
  <2>12. ASSUME NEW d \in {"send", "recv"}, NEW r \in 0 .. n - 1,
                Linked(c, n, p, r), <<d, r>> # <<dir, q>>,
                StageOf(c, n, p, d, r) = s, TaskOf(c, n, p, d, r) = k
         PROVE  FALSE
    <3>1. d = dir
      BY <2>3, <2>4, <2>12 DEF TaskOf
    <3>2. PICK m \in 0 .. L - 1 : r = Partner(p, m)
      BY <1>1, <2>12 DEF Linked
    <3>3. Level(n, p, r) = m
      BY <1>1, <1>2, <3>2, LevelIs
    <3>4. m + 1 = l + 1
      BY <2>2, <2>12, <3>3 DEF StageOf
    <3>5. m = l
      BY <2>2, <3>4
    <3> QED
      BY <2>1, <2>12, <3>1, <3>2, <3>5
  <2>13. op.dir = dir /\ op.peer = q /\ op.piece = b /\ op.kind = "data"
    BY <2>7
  <2> QED
    BY <2>5, <2>7, <2>8, <2>9, <2>10, <2>11, <2>12, <2>13 DEF OpOK
<1>8. ASSUME NEW dir \in {"send", "recv"}, NEW q \in 0 .. n - 1, Linked(c, n, p, q)
      PROVE  FlowOK(c, n, p, dir, q, plan)
  <2>1. PICK l \in 0 .. L - 1 : q = Partner(p, l)
    BY <1>1, <1>8 DEF Linked
  <2>2. TreeTasks(c, n, p, L, l, q, plan)
    BY <1>3, <2>1
  <2>3. PICK s, k, V : s = l + 1 /\ k = (IF dir = "send" THEN 1 ELSE 2) /\ V = PartSize(l) * c.size
    OBVIOUS
  <2>4. /\ s \in 1 .. L /\ k \in DOMAIN plan[s] /\ V \in Nat /\ V >= 1 /\ Len(plan[s][k]) = V
    BY <2>2, <2>3 DEF TreeTasks, ChunksOK
  <2>5. StageOf(c, n, p, dir, q) = s /\ TaskOf(c, n, p, dir, q) = k
    BY <2>2, <2>3 DEF TreeTasks, StageOf, TaskOf
  <2>6. FlowVolume(c, n, p, dir, q) = V
    BY <2>2, <2>3 DEF TreeTasks, FlowVolume, Volume
  <2>7. \A x : Count(c, n, p, dir, q, x) = x
    BY DEF Count
  <2>8. 0 .. V \subseteq 0 .. V
    OBVIOUS
  <2> QED
    BY <1>4, <2>4, <2>5, <2>6, <2>7 DEF FlowOK
<1>9. ASSUME NEW l \in 0 .. L, NEW o \in IdRange(p, l) .. IdRange(p, l) + PowerOfTwo(l) - 1,
             o # p, NEW piece \in 1 .. c.size
      PROVE  Receives(plan, l + 1, o, piece)
  <2>1. PICK j \in 0 .. l - 1 :
          o \in First(Partner(p, j), j) .. First(Partner(p, j), j) + PartSize(j) - 1
    BY <1>2, <1>9, GotLower
  <2>2. PICK q : q = Partner(p, j)
    OBVIOUS
  <2>3. j \in 0 .. L - 1 /\ j + 1 \in 1 .. (l + 1) - 1
    BY <1>2
  <2>4. TreeTasks(c, n, p, L, j, q, plan)
    BY <1>3, <2>2, <2>3
  <2>5. /\ 2 \in DOMAIN plan[j + 1]
        /\ ChunksOK(plan[j + 1][2], "recv", q, First(q, j), PartSize(j), c.size)
    BY <2>4 DEF TreeTasks
  <2>6. PICK x \in 1 .. Len(plan[j + 1][2]) :
          plan[j + 1][2][x].owner = o /\ plan[j + 1][2][x].piece = piece
    BY <2>1, <2>2, <2>5 DEF ChunksOK, Has
  <2>7. plan[j + 1][2][x].dir = "recv" /\ plan[j + 1][2][x].kind = "data"
    <3>1. x \in 1 .. PartSize(j) * c.size
      BY <2>5, <2>6 DEF ChunksOK
    <3>2. plan[j + 1][2][x] = [dir |-> "recv", peer |-> q, kind |-> "data",
             owner |-> First(q, j) + ((x - 1) \div c.size), piece |-> ((x - 1) % c.size) + 1]
      BY <2>5, <3>1 DEF ChunksOK
    <3> QED
      BY <3>2
  <2> QED
    BY <2>3, <2>5, <2>6, <2>7 DEF Receives
<1>10. DataOK(c, n, p, plan)
  <2>1. ASSUME NEW s \in 1 .. L, NEW k \in DOMAIN plan[s], NEW x \in 1 .. Len(plan[s][k]),
               NEW op, op = plan[s][k][x], op.dir = "send", op.kind = "data", op.owner # p
        PROVE  Receives(plan, s, op.owner, op.piece)
    <3>1. PICK l, q : l = s - 1 /\ q = Partner(p, l)
      OBVIOUS
    <3>2. l \in 0 .. L - 1 /\ l + 1 = s /\ TreeTasks(c, n, p, L, l, q, plan) /\ l \in 0 .. L
      BY <1>2, <1>3, <1>5, <3>1
    <3>3. k \in {1, 2}
      BY <2>1, <3>2 DEF TreeTasks
    <3>4. k = 1
      <4>1. ASSUME k = 2 PROVE op.dir = "recv"
        <5>1. ChunksOK(plan[s][k], "recv", q, First(q, l), PartSize(l), c.size)
          BY <3>2, <4>1 DEF TreeTasks
        <5>2. PICK a, b : op = [dir |-> "recv", peer |-> q, kind |-> "data",
                                owner |-> a, piece |-> b]
          <6>1. PICK t, N : t = plan[s][k] /\ N = PartSize(l) * c.size
            OBVIOUS
          <6>2. x \in 1 .. N
            BY <2>1, <5>1, <6>1 DEF ChunksOK
          <6>3. t[x] = [dir |-> "recv", peer |-> q, kind |-> "data",
                        owner |-> First(q, l) + ((x - 1) \div c.size),
                        piece |-> ((x - 1) % c.size) + 1]
            BY <5>1, <6>1, <6>2 DEF ChunksOK
          <6> QED
            BY <2>1, <6>1, <6>3
        <5> QED
          BY <5>2
      <4> QED
        BY <2>1, <3>3, <4>1
    <3>5. ChunksOK(plan[s][k], "send", q, First(p, l), PartSize(l), c.size)
      BY <3>2, <3>4 DEF TreeTasks
    <3>6. /\ op.owner \in First(p, l) .. First(p, l) + PartSize(l) - 1
          /\ op.piece \in 1 .. c.size
      <4>1. x \in 1 .. PartSize(l) * c.size
        BY <2>1, <3>5 DEF ChunksOK
      <4>2. PICK a, b : a = First(p, l) + ((x - 1) \div c.size) /\ b = ((x - 1) % c.size) + 1
        OBVIOUS
      <4>3. /\ op = [dir |-> "send", peer |-> q, kind |-> "data", owner |-> a, piece |-> b]
            /\ a \in First(p, l) .. First(p, l) + PartSize(l) - 1 /\ b \in 1 .. c.size
        BY <2>1, <3>5, <4>1, <4>2 DEF ChunksOK
      <4> QED
        BY <4>3
    <3>7. First(p, l) = IdRange(p, l) /\ PartSize(l) = PowerOfTwo(l)
      BY <3>2, TreeLevel DEF TreeTasks, PartSize
    <3> QED
      BY <1>9, <2>1, <3>2, <3>6, <3>7
  <2>2. ASSUME NEW j \in 0 .. n - 1, j # p, NEW piece \in 1 .. c.size
        PROVE  Receives(plan, L + 1, j, piece)
    <3>1. L \in 0 .. L
      BY <1>2
    <3>2. /\ IdRange(p, L) \in Nat /\ IdRange(p, L) + PowerOfTwo(L) <= n
      BY <1>2, <3>1, RangeOf
    <3>3. j \in IdRange(p, L) .. IdRange(p, L) + PowerOfTwo(L) - 1
      BY <1>2, <3>2
    <3> QED
      BY <1>9, <2>2, <3>1, <3>3
  <2>3. Gets(c, n, p) = 0 .. n - 1
    BY DEF Gets
  <2> QED
    BY <1>4, <2>1, <2>2, <2>3 DEF DataOK
<1> QED
  BY <1>4, <1>6, <1>7, <1>8, <1>10 DEF PlanOK

-----------------------------------------------------------------------------
(* Pairwise.                                                               *)

(* Task k of a pairwise share: with q, in direction dir.                   *)
PairTask(c, n, p, k, dir, q, first, plan) ==
    /\ dir = (IF k <= n - 1 THEN "send" ELSE "recv")
    /\ q \in 0 .. n - 1 /\ q # p /\ k \in 1 .. 2 * (n - 1)
    /\ k = (IF q < p THEN q + 1 ELSE q) + (IF dir = "send" THEN 0 ELSE n - 1)
    /\ first = (IF dir = "send" THEN p ELSE q)
    /\ ChunksOK(plan[1][k], dir, q, first, 1, c.size)
    /\ plan[1][k] \in Seq(Ops(c, n))

(* The plan of a pairwise share: all sends, and all receives.              *)
LEMMA PairTasksAre ==
    ASSUME NEW c, NEW n, IsCall(c, n), c.op = "pairwise", NEW p \in 0 .. n - 1,
           NEW plan, plan = Stages(c, n, p)
    PROVE  /\ Len(plan) = 1 /\ DOMAIN plan = 1 .. 1 /\ DOMAIN plan[1] = 1 .. 2 * (n - 1)
           /\ \A k \in 1 .. 2 * (n - 1) : \E dir, q, first : PairTask(c, n, p, k, dir, q, first, plan)
<1>1. n \in Nat /\ n >= 2 /\ c.size \in Nat \ {0} /\ p \in Nat /\ p <= n - 1
  BY DEF IsCall
<1>2. PICK sends, recvs :
        /\ sends = [k \in 1 .. n - 1 |-> Chunks("send", ConnPeer(p, k - 1), p, 1, c.size)]
        /\ recvs = [k \in 1 .. n - 1 |->
                      Chunks("recv", ConnPeer(p, k - 1), RecvChunk(p, k - 1), 1, c.size)]
  OBVIOUS
<1>3. plan = << sends \o recvs >>
  BY <1>2 DEF Stages, PairWiseShare
<1>4. PICK N, S : N = n - 1 /\ S = Seq(Ops(c, n))
  OBVIOUS
<1>5. ASSUME NEW k \in 1 .. N, NEW q, q = ConnPeer(p, k - 1)
      PROVE  /\ q \in 0 .. n - 1 /\ q # p /\ k = (IF q < p THEN q + 1 ELSE q)
             /\ RecvChunk(p, k - 1) = q
             /\ ChunksOK(sends[k], "send", q, p, 1, c.size) /\ sends[k] \in S
             /\ ChunksOK(recvs[k], "recv", q, q, 1, c.size) /\ recvs[k] \in S
  <2>1. /\ q \in 0 .. n - 1 /\ q # p /\ k = (IF q < p THEN q + 1 ELSE q)
        /\ RecvChunk(p, k - 1) = q
    BY <1>1, <1>4, <1>5 DEF ConnPeer, RecvChunk
  <2>2. /\ sends[k] = Chunks("send", q, p, 1, c.size)
        /\ recvs[k] = Chunks("recv", q, q, 1, c.size)
    BY <1>2, <1>4, <1>5, <2>1
  <2>3. 1 \in Nat \ {0} /\ p + 1 <= n /\ q + 1 <= n /\ p \in Nat /\ q \in Nat
    BY <1>1, <2>1
  <2>4. /\ ChunksOK(sends[k], "send", q, p, 1, c.size)
        /\ ChunksOK(recvs[k], "recv", q, q, 1, c.size)
    BY <1>1, <2>2, <2>3, ChunksAre
  <2>5. sends[k] \in Seq(Ops(c, n)) /\ recvs[k] \in Seq(Ops(c, n))
    BY <2>1, <2>2, <2>3, <2>4, ChunksOps
  <2> QED
    BY <1>4, <2>1, <2>4, <2>5
<1>6. N \in Nat /\ N >= 1
  BY <1>1, <1>4
<1>7. sends \in Seq(S) /\ recvs \in Seq(S) /\ Len(sends) = N /\ Len(recvs) = N
  <2>1. sends = [k \in 1 .. N |-> sends[k]] /\ recvs = [k \in 1 .. N |-> recvs[k]]
    BY <1>2, <1>4
  <2>2. \A k \in 1 .. N : sends[k] \in S /\ recvs[k] \in S
    BY <1>5
  <2> QED
    BY <1>6, <2>1, <2>2
<1>8. PICK both : both = sends \o recvs
  OBVIOUS
<1>9. /\ Len(both) = N + N /\ both \in Seq(S)
      /\ \A k \in 1 .. N + N : both[k] = IF k <= N THEN sends[k] ELSE recvs[k - N]
  <2>1. /\ Len(both) = Len(sends) + Len(recvs) /\ both \in Seq(S)
        /\ \A k \in 1 .. Len(sends) + Len(recvs) :
             both[k] = IF k <= Len(sends) THEN sends[k] ELSE recvs[k - Len(sends)]
    BY <1>7, <1>8, ConcatProperties
  <2> QED
    BY <1>7, <2>1
<1>10. DOMAIN both = 1 .. 2 * (n - 1)
  <2>1. N + N = 2 * (n - 1)
    BY <1>1, <1>4
  <2> QED
    BY <1>9, <2>1
<1>11. Len(plan) = 1 /\ DOMAIN plan = 1 .. 1 /\ plan[1] = both
  BY <1>3, <1>8
<1>12. ASSUME NEW k \in 1 .. 2 * (n - 1)
       PROVE  \E dir, q, first : PairTask(c, n, p, k, dir, q, first, plan)
  <2>1. k \in 1 .. N + N
    BY <1>1, <1>4
  <2>2. CASE k <= N
    <3>1. PICK q : q = ConnPeer(p, k - 1)
      OBVIOUS
    <3>2. k \in 1 .. N /\ plan[1][k] = sends[k] /\ k <= n - 1
      BY <1>4, <1>9, <1>11, <2>1, <2>2
    <3>3. /\ q \in 0 .. n - 1 /\ q # p /\ k = (IF q < p THEN q + 1 ELSE q)
          /\ ChunksOK(plan[1][k], "send", q, p, 1, c.size) /\ plan[1][k] \in S
      BY <1>5, <3>1, <3>2
    <3>4. k = (IF q < p THEN q + 1 ELSE q) + 0
      BY <3>3
    <3>5. PairTask(c, n, p, k, "send", q, p, plan)
      BY <1>4, <3>2, <3>3, <3>4 DEF PairTask
    <3> QED
      BY <3>5
  <2>3. CASE ~(k <= N)
    <3>1. PICK j, q : j = k - N /\ q = ConnPeer(p, j - 1)
      OBVIOUS
    <3>2. j \in 1 .. N /\ plan[1][k] = recvs[j] /\ ~(k <= n - 1) /\ k = j + (n - 1)
      <4>1. j \in 1 .. N /\ ~(k <= n - 1) /\ k = j + (n - 1)
        BY <1>4, <2>1, <2>3, <3>1
      <4>2. both[k] = recvs[k - N]
        BY <1>9, <2>1, <2>3
      <4> QED
        BY <1>11, <3>1, <4>1, <4>2
    <3>3. /\ q \in 0 .. n - 1 /\ q # p /\ j = (IF q < p THEN q + 1 ELSE q)
          /\ ChunksOK(plan[1][k], "recv", q, q, 1, c.size) /\ plan[1][k] \in S
      BY <1>5, <3>1, <3>2
    <3>4. PairTask(c, n, p, k, "recv", q, q, plan)
      BY <1>4, <3>2, <3>3 DEF PairTask
    <3> QED
      BY <3>4
  <2> QED
    BY <2>2, <2>3
<1> QED
  BY <1>10, <1>11, <1>12

(* A party's pairwise share is a plan.                                     *)
LEMMA PairPlan ==
    ASSUME NEW c, NEW n, IsCall(c, n), c.op = "pairwise", NEW p \in 0 .. n - 1,
           NEW plan, plan = Stages(c, n, p)
    PROVE  PlanOK(c, n, p, plan)
<1>1. n \in Nat /\ n >= 2 /\ c.size \in Nat \ {0} /\ p \in Nat /\ p <= n - 1
  BY DEF IsCall
<1>2. /\ Len(plan) = 1 /\ DOMAIN plan = 1 .. 1 /\ DOMAIN plan[1] = 1 .. 2 * (n - 1)
      /\ \A k \in 1 .. 2 * (n - 1) : \E dir, q, first : PairTask(c, n, p, k, dir, q, first, plan)
  BY PairTasksAre
<1>3. IsPlan(c, n, p, plan)
  <2>1. ASSUME NEW k \in 1 .. 2 * (n - 1) PROVE plan[1][k] \in Seq(Ops(c, n))
    <3>1. PICK dir, q, first : PairTask(c, n, p, k, dir, q, first, plan)
      BY <1>2
    <3> QED
      BY <3>1 DEF PairTask
  <2>2. ASSUME NEW s \in 1 .. Len(plan), NEW k \in DOMAIN plan[s]
        PROVE  plan[s][k] \in Seq(Ops(c, n))
    <3>1. s = 1
      BY <1>2
    <3>2. k \in 1 .. 2 * (n - 1)
      BY <1>2, <3>1
    <3> QED
      BY <2>1, <3>1, <3>2
  <2> QED
    BY <1>2, <2>2 DEF IsPlan
<1>4. ASSUME NEW k \in 1 .. 2 * (n - 1), NEW x \in 1 .. Len(plan[1][k]),
             NEW op, op = plan[1][k][x]
      PROVE  /\ OpOK(c, n, p, 1, k, x, op)
             /\ op.dir = "send" => op.owner = p
  <2>1. PICK dir, q, first : PairTask(c, n, p, k, dir, q, first, plan)
    BY <1>2
  <2>2. /\ dir \in {"send", "recv"} /\ q \in 0 .. n - 1 /\ q # p
        /\ k = (IF q < p THEN q + 1 ELSE q) + (IF dir = "send" THEN 0 ELSE n - 1)
        /\ first = (IF dir = "send" THEN p ELSE q)
        /\ ChunksOK(plan[1][k], dir, q, first, 1, c.size)
    BY <2>1 DEF PairTask
  <2>3. PICK a, b : a = first + ((x - 1) \div c.size) /\ b = ((x - 1) % c.size) + 1
    OBVIOUS
  <2>4. /\ op = [dir |-> dir, peer |-> q, kind |-> "data", owner |-> a, piece |-> b]
        /\ a \in first .. first + 1 - 1 /\ b \in 1 .. c.size
    BY <1>4, <2>2, <2>3 DEF ChunksOK
  <2>5. a = first
    BY <1>1, <2>2, <2>4
  <2>6. op.dir = dir /\ op.peer = q /\ op.piece = b /\ op.kind = "data" /\ op.owner = first
    BY <2>4, <2>5
  <2>7. Linked(c, n, p, q)
    BY <2>2 DEF Linked
  <2>8. 1 = StageOf(c, n, p, dir, q) /\ k = TaskOf(c, n, p, dir, q)
    BY <2>2 DEF StageOf, TaskOf
  <2>9. Count(c, n, p, dir, q, x) = x /\ Count(c, n, p, dir, q, x - 1) = x - 1 /\ x = (x - 1) + 1
    BY DEF Count
  <2>10. About(op.kind, op.owner, op.piece) = FlowSegment(c, n, p, dir, q, x)
    BY <2>2, <2>3, <2>6 DEF FlowSegment, Segment
  <2>11. ASSUME NEW d \in {"send", "recv"}, NEW r \in 0 .. n - 1,
                Linked(c, n, p, r), <<d, r>> # <<dir, q>>,
                StageOf(c, n, p, d, r) = 1, TaskOf(c, n, p, d, r) = k
         PROVE  FALSE
    <3>1. r # p
      BY <2>11 DEF Linked
    <3>2. k = (IF r < p THEN r + 1 ELSE r) + (IF d = "send" THEN 0 ELSE n - 1)
      BY <2>11 DEF TaskOf
    <3>3. PICK u, v : u = (IF r < p THEN r + 1 ELSE r) /\ v = (IF q < p THEN q + 1 ELSE q)
      OBVIOUS
    <3>4. u \in 1 .. n - 1 /\ v \in 1 .. n - 1
      BY <1>1, <2>2, <3>1, <3>3
    <3>5. d = dir
      BY <1>1, <2>2, <3>2, <3>3, <3>4
    <3>6. u = v
      BY <1>1, <2>2, <3>2, <3>3, <3>4, <3>5
    <3>7. r = q
      BY <1>1, <2>2, <3>1, <3>3, <3>6
    <3> QED
      BY <2>11, <3>5, <3>7
  <2>12. dir = "recv" => op.owner # p
    BY <2>2, <2>6
  <2>13. OpOK(c, n, p, 1, k, x, op)
    BY <2>4, <2>6, <2>7, <2>8, <2>9, <2>10, <2>11, <2>12 DEF OpOK
  <2> QED
    BY <2>2, <2>6, <2>13
<1>5. ASSUME NEW dir \in {"send", "recv"}, NEW q \in 0 .. n - 1, q # p,
             NEW k, k = TaskOf(c, n, p, dir, q)
      PROVE  /\ k \in 1 .. 2 * (n - 1)
             /\ ChunksOK(plan[1][k], dir, q, IF dir = "send" THEN p ELSE q, 1, c.size)
  <2>1. k = (IF q < p THEN q + 1 ELSE q) + (IF dir = "send" THEN 0 ELSE n - 1)
    BY <1>5 DEF TaskOf
  <2>2. k \in 1 .. 2 * (n - 1) /\ (k <= n - 1 <=> dir = "send")
    BY <1>1, <1>5, <2>1
  <2>3. PICK e, r, first : PairTask(c, n, p, k, e, r, first, plan)
    BY <1>2, <2>2
  <2>4. /\ e = (IF k <= n - 1 THEN "send" ELSE "recv")
        /\ r \in 0 .. n - 1 /\ r # p
        /\ k = (IF r < p THEN r + 1 ELSE r) + (IF e = "send" THEN 0 ELSE n - 1)
        /\ first = (IF e = "send" THEN p ELSE r)
        /\ ChunksOK(plan[1][k], e, r, first, 1, c.size)
    BY <2>3 DEF PairTask
  <2>5. e = dir
    BY <2>2, <2>4
  <2>6. r = q
    BY <1>1, <1>5, <2>1, <2>4, <2>5
  <2> QED
    BY <2>2, <2>4, <2>5, <2>6
<1>6. ASSUME NEW dir \in {"send", "recv"}, NEW q \in 0 .. n - 1, Linked(c, n, p, q)
      PROVE  FlowOK(c, n, p, dir, q, plan)
  <2>1. q # p
    BY <1>6 DEF Linked
  <2>2. PICK k, V : k = TaskOf(c, n, p, dir, q) /\ V = c.size
    OBVIOUS
  <2>3. k \in DOMAIN plan[1] /\ Len(plan[1][k]) = 1 * V
    BY <1>2, <1>5, <2>1, <2>2 DEF ChunksOK
  <2>4. V \in Nat /\ V >= 1 /\ Len(plan[1][k]) = V
    BY <1>1, <2>2, <2>3
  <2>5. FlowVolume(c, n, p, dir, q) = V /\ StageOf(c, n, p, dir, q) = 1
    BY <2>2 DEF FlowVolume, Volume, StageOf
  <2>6. \A x : Count(c, n, p, dir, q, x) = x
    BY DEF Count
  <2>7. 1 \in 1 .. Len(plan)
    BY <1>2
  <2> QED
    BY <2>2, <2>3, <2>4, <2>5, <2>6, <2>7 DEF FlowOK
<1>7. DataOK(c, n, p, plan)
  <2>1. ASSUME NEW j \in 0 .. n - 1, j # p, NEW piece \in 1 .. c.size
        PROVE  Receives(plan, 2, j, piece)
    <3>1. PICK k : k = TaskOf(c, n, p, "recv", j)
      OBVIOUS
    <3>2. k \in DOMAIN plan[1] /\ ChunksOK(plan[1][k], "recv", j, j, 1, c.size)
      BY <1>2, <1>5, <2>1, <3>1
    <3>3. j \in j .. j + 1 - 1
      OBVIOUS
    <3>4. PICK x \in 1 .. Len(plan[1][k]) : plan[1][k][x].owner = j /\ plan[1][k][x].piece = piece
      BY <3>2, <3>3 DEF ChunksOK, Has
    <3>5. plan[1][k][x].dir = "recv" /\ plan[1][k][x].kind = "data"
      <4>1. x \in 1 .. 1 * c.size
        BY <3>2, <3>4 DEF ChunksOK
      <4>2. PICK a, b : plan[1][k][x] = [dir |-> "recv", peer |-> j, kind |-> "data",
                                         owner |-> a, piece |-> b]
        BY <3>2, <4>1 DEF ChunksOK
      <4> QED
        BY <4>2
    <3>6. 1 \in 1 .. 2 - 1
      OBVIOUS
    <3> QED
      BY <3>2, <3>4, <3>5, <3>6 DEF Receives
  <2>2. Gets(c, n, p) = 0 .. n - 1
    BY DEF Gets
  <2>3. ASSUME NEW s \in 1 .. Len(plan), NEW k \in DOMAIN plan[s],
               NEW x \in 1 .. Len(plan[s][k]), plan[s][k][x].dir = "send"
        PROVE  plan[s][k][x].owner = p
    <3>1. s = 1
      BY <1>2
    <3>2. k \in 1 .. 2 * (n - 1)
      BY <1>2, <3>1
    <3> QED
      BY <1>4, <2>3, <3>1, <3>2
  <2>4. Len(plan) + 1 = 2
    BY <1>2
  <2> QED
    BY <2>1, <2>2, <2>3, <2>4 DEF DataOK
<1>8. ASSUME NEW s \in 1 .. Len(plan), NEW k \in DOMAIN plan[s], NEW x \in 1 .. Len(plan[s][k])
      PROVE  OpOK(c, n, p, s, k, x, plan[s][k][x])
  <2>1. s = 1
    BY <1>2
  <2>2. k \in 1 .. 2 * (n - 1)
    BY <1>2, <2>1
  <2> QED
    BY <1>4, <2>1, <2>2
<1> QED
  BY <1>3, <1>6, <1>7, <1>8 DEF PlanOK

-----------------------------------------------------------------------------
(* Sync and collect.                                                       *)

(* One signal.                                                             *)
SignalOf(dir, peer, kind, from) ==
    [dir |-> dir, peer |-> peer, kind |-> kind, owner |-> from, piece |-> 0]

(* Sequences of one and of two elements.                                   *)
LEMMA OneTwo ==
    ASSUME NEW S, NEW a \in S, NEW b \in S
    PROVE  /\ << a >> \in Seq(S) /\ Len(<< a >>) = 1 /\ << a >>[1] = a
           /\ << a, b >> \in Seq(S) /\ Len(<< a, b >>) = 2
           /\ << a, b >>[1] = a /\ << a, b >>[2] = b
           /\ << a >> \o << b >> = << a, b >>
<1>1. PICK s, t, u : s = << a >> /\ t = << b >> /\ u = << a, b >>
  OBVIOUS
<1>2. s \in Seq(S) /\ Len(s) = 1 /\ s[1] = a
  BY <1>1
<1>3. t \in Seq(S) /\ Len(t) = 1 /\ t[1] = b
  BY <1>1
<1>4. u \in Seq(S) /\ Len(u) = 2 /\ u[1] = a /\ u[2] = b
  BY <1>1
<1>5. PICK v : v = s \o t
  OBVIOUS
<1>6. /\ v \in Seq(S) /\ Len(v) = 2
      /\ \A i \in 1 .. 2 : v[i] = IF i <= 1 THEN s[i] ELSE t[i - 1]
  <2>1. /\ v \in Seq(S) /\ Len(v) = Len(s) + Len(t)
        /\ \A i \in 1 .. Len(s) + Len(t) :
             v[i] = IF i <= Len(s) THEN s[i] ELSE t[i - Len(s)]
    BY <1>2, <1>3, <1>5, ConcatProperties
  <2> QED
    BY <1>2, <1>3, <2>1
<1>7. v[1] = a /\ v[2] = b
  BY <1>2, <1>3, <1>6
<1>8. \A i \in 1 .. Len(v) : v[i] = u[i]
  BY <1>4, <1>6, <1>7
<1>9. v = u
  BY <1>4, <1>6, <1>8, SeqEqual
<1> QED
  BY <1>1, <1>2, <1>4, <1>5, <1>9

(* The tasks of a client's sync, and of party 0's.                         *)
LEMMA SyncTasksAre ==
    ASSUME NEW c, NEW n, IsCall(c, n), c.op = "sync", NEW p \in 0 .. n - 1,
           NEW plan, plan = Stages(c, n, p)
    PROVE  /\ p # 0 => plan = << << << SignalOf("send", 0, "ready", p),
                                      SignalOf("recv", 0, "start", 0) >> >> >>
           /\ p = 0 => plan = << [k \in 1 .. n - 1 |-> << SignalOf("recv", k, "ready", k) >>],
                                 [k \in 1 .. n - 1 |-> << SignalOf("send", k, "start", 0) >>] >>
<1>1. plan = Sync(n, p)
  BY DEF Stages
<1>2. ASSUME p # 0
      PROVE  plan = << << << SignalOf("send", 0, "ready", p),
                             SignalOf("recv", 0, "start", 0) >> >> >>
  <2>1. PICK a, b : a = SignalOf("send", 0, "ready", p) /\ b = SignalOf("recv", 0, "start", 0)
    OBVIOUS
  <2>2. << a >> \o << b >> = << a, b >>
    BY OneTwo, a \in {a, b}, b \in {a, b}
  <2>3. /\ Signal("send", 0, "ready", p) = << a >>
        /\ Signal("recv", 0, "start", 0) = << b >>
    BY <2>1 DEF Signal, SignalOf
  <2>4. plan = << << Signal("send", 0, "ready", p) \o Signal("recv", 0, "start", 0) >> >>
    BY <1>1, <1>2 DEF Sync
  <2> QED
    BY <2>1, <2>2, <2>3, <2>4
<1>3. p = 0 => plan = << [k \in 1 .. n - 1 |-> << SignalOf("recv", k, "ready", k) >>],
                         [k \in 1 .. n - 1 |-> << SignalOf("send", k, "start", 0) >>] >>
  BY <1>1 DEF Sync, Signal, SignalOf
<1> QED
  BY <1>2, <1>3

(* A client's sync is a plan.                                              *)
LEMMA SyncClient ==
    ASSUME NEW c, NEW n, IsCall(c, n), c.op = "sync", NEW p \in 0 .. n - 1, p # 0,
           NEW plan, plan = Stages(c, n, p)
    PROVE  PlanOK(c, n, p, plan)
<1>1. n \in Nat /\ n >= 2 /\ c.size \in Nat \ {0} /\ p \in 1 .. n - 1 /\ 0 \in 0 .. n - 1
  BY DEF IsCall
<1>2. PICK a, b : a = SignalOf("send", 0, "ready", p) /\ b = SignalOf("recv", 0, "start", 0)
  OBVIOUS
<1>3. plan = << << << a, b >> >> >>
  BY <1>2, SyncTasksAre
<1>4. /\ Len(plan) = 1 /\ DOMAIN plan = 1 .. 1 /\ DOMAIN plan[1] = 1 .. 1
      /\ plan[1][1] = << a, b >> /\ Len(plan[1][1]) = 2
  BY <1>3
<1>5. a \in Ops(c, n) /\ b \in Ops(c, n)
  BY <1>1, <1>2 DEF Ops, SignalOf
<1>6. IsPlan(c, n, p, plan)
  <2>1. ASSUME NEW s \in 1 .. Len(plan), NEW k \in DOMAIN plan[s]
        PROVE  plan[s][k] \in Seq(Ops(c, n))
    <3>1. s = 1
      BY <1>4
    <3>2. k = 1
      BY <1>4, <3>1
    <3>3. << a, b >> \in Seq(Ops(c, n))
      BY <1>5, OneTwo
    <3> QED
      BY <1>4, <3>1, <3>2, <3>3
  <2> QED
    BY <1>4, <2>1 DEF IsPlan
<1>7. ASSUME NEW r \in 0 .. n - 1
      PROVE  Linked(c, n, p, r) <=> r = 0
  BY <1>1 DEF Linked
<1>8. ASSUME NEW d \in {"send", "recv"}
      PROVE  StageOf(c, n, p, d, 0) = 1 /\ TaskOf(c, n, p, d, 0) = 1
  BY <1>1 DEF StageOf, TaskOf
<1>9. /\ Count(c, n, p, "send", 0, 0) = 0 /\ Count(c, n, p, "recv", 0, 0) = 0
      /\ Count(c, n, p, "send", 0, 1) = 1 /\ Count(c, n, p, "recv", 0, 1) = 0
      /\ Count(c, n, p, "send", 0, 2) = 1 /\ Count(c, n, p, "recv", 0, 2) = 1
  BY <1>1 DEF Count
<1>10. /\ FlowSegment(c, n, p, "send", 0, 1) = About("ready", p, 0)
       /\ FlowSegment(c, n, p, "recv", 0, 1) = About("start", 0, 0)
       /\ FlowVolume(c, n, p, "send", 0) = 1 /\ FlowVolume(c, n, p, "recv", 0) = 1
  BY <1>1 DEF FlowSegment, Segment, FlowVolume, Volume
<1>11. OpOK(c, n, p, 1, 1, 1, a)
  <2>1. a.dir = "send" /\ a.peer = 0 /\ a.kind = "ready" /\ a.owner = p /\ a.piece = 0
    BY <1>2 DEF SignalOf
  <2>2. ASSUME NEW d \in {"send", "recv"}, NEW r \in 0 .. n - 1,
               Linked(c, n, p, r), <<d, r>> # <<"send", 0>>
        PROVE  Count(c, n, p, d, r, 1) = Count(c, n, p, d, r, 1 - 1)
    <3>1. r = 0 /\ d = "recv"
      BY <1>7, <2>2
    <3> QED
      BY <1>9, <3>1
  <2> QED
    BY <1>1, <1>7, <1>8, <1>9, <1>10, <2>1, <2>2 DEF OpOK
<1>12. OpOK(c, n, p, 1, 1, 2, b)
  <2>1. b.dir = "recv" /\ b.peer = 0 /\ b.kind = "start" /\ b.owner = 0 /\ b.piece = 0
    BY <1>2 DEF SignalOf
  <2>2. ASSUME NEW d \in {"send", "recv"}, NEW r \in 0 .. n - 1,
               Linked(c, n, p, r), <<d, r>> # <<"recv", 0>>
        PROVE  Count(c, n, p, d, r, 2) = Count(c, n, p, d, r, 2 - 1)
    <3>1. r = 0 /\ d = "send"
      BY <1>7, <2>2
    <3> QED
      BY <1>9, <3>1
  <2> QED
    BY <1>1, <1>7, <1>8, <1>9, <1>10, <2>1, <2>2 DEF OpOK
<1>13. ASSUME NEW s \in 1 .. Len(plan), NEW k \in DOMAIN plan[s], NEW x \in 1 .. Len(plan[s][k])
       PROVE  OpOK(c, n, p, s, k, x, plan[s][k][x]) /\ plan[s][k][x].kind # "data"
  <2>1. s = 1
    BY <1>4
  <2>2. k = 1
    BY <1>4, <2>1
  <2>3. x \in {1, 2}
    <3>1. Len(plan[s][k]) = 2
      BY <1>4, <2>1, <2>2
    <3>2. x \in 1 .. 2
      BY <3>1
    <3> QED
      BY <3>2
  <2>4. plan[1][1][1] = a /\ plan[1][1][2] = b
    BY <1>4
  <2>5. a.kind # "data" /\ b.kind # "data"
    BY <1>2 DEF SignalOf
  <2> QED
    BY <1>11, <1>12, <2>1, <2>2, <2>3, <2>4, <2>5
<1>14. ASSUME NEW dir \in {"send", "recv"}, NEW q \in 0 .. n - 1, Linked(c, n, p, q)
       PROVE  FlowOK(c, n, p, dir, q, plan)
  <2>1. q = 0
    BY <1>7, <1>14
  <2>2. FlowVolume(c, n, p, dir, 0) = 1
    BY <1>10
  <2>3. \A x \in 0 .. 2 : Count(c, n, p, dir, 0, x) \in 0 .. 1
    <3>1. \A x \in 0 .. 2 : x = 0 \/ x = 1 \/ x = 2
      OBVIOUS
    <3> QED
      BY <1>9, <3>1
  <2>4. Count(c, n, p, dir, 0, 0) = 0 /\ Count(c, n, p, dir, 0, 2) = 1
    BY <1>9
  <2>5. PICK s, k, V, N : s = 1 /\ k = 1 /\ V = 1 /\ N = 2
    OBVIOUS
  <2>6. /\ s = StageOf(c, n, p, dir, q) /\ k = TaskOf(c, n, p, dir, q)
        /\ V = FlowVolume(c, n, p, dir, q)
        /\ s \in 1 .. Len(plan) /\ k \in DOMAIN plan[s] /\ V \in Nat /\ V >= 1
    BY <1>4, <1>8, <2>1, <2>2, <2>5
  <2>7. Len(plan[s][k]) = N
    BY <1>4, <2>5
  <2>8. /\ Count(c, n, p, dir, q, 0) = 0 /\ Count(c, n, p, dir, q, N) = V
        /\ \A x \in 0 .. N : Count(c, n, p, dir, q, x) \in 0 .. V
    BY <2>1, <2>3, <2>4, <2>5
  <2> QED
    BY <2>6, <2>7, <2>8 DEF FlowOK
<1>15. DataOK(c, n, p, plan)
  <2>1. Gets(c, n, p) = {}
    BY DEF Gets
  <2> QED
    BY <1>13, <2>1 DEF DataOK
<1> QED
  BY <1>6, <1>13, <1>14, <1>15 DEF PlanOK

(* Party 0's sync is a plan: all are ready before anybody may start.       *)
LEMMA SyncServer ==
    ASSUME NEW c, NEW n, IsCall(c, n), c.op = "sync",
           NEW plan, plan = Stages(c, n, 0)
    PROVE  PlanOK(c, n, 0, plan)
<1>1. n \in Nat /\ n >= 2 /\ c.size \in Nat \ {0} /\ 0 \in 0 .. n - 1
  BY DEF IsCall
<1>2. plan = << [k \in 1 .. n - 1 |-> << SignalOf("recv", k, "ready", k) >>],
                [k \in 1 .. n - 1 |-> << SignalOf("send", k, "start", 0) >>] >>
  BY <1>1, SyncTasksAre
<1>3. /\ Len(plan) = 2 /\ DOMAIN plan = 1 .. 2
      /\ DOMAIN plan[1] = 1 .. n - 1 /\ DOMAIN plan[2] = 1 .. n - 1
      /\ \A k \in 1 .. n - 1 : /\ plan[1][k] = << SignalOf("recv", k, "ready", k) >>
                               /\ plan[2][k] = << SignalOf("send", k, "start", 0) >>
  <2>1. PICK u, v : /\ u = [k \in 1 .. n - 1 |-> << SignalOf("recv", k, "ready", k) >>]
                    /\ v = [k \in 1 .. n - 1 |-> << SignalOf("send", k, "start", 0) >>]
    OBVIOUS
  <2>2. plan = << u, v >>
    BY <1>2, <2>1
  <2>3. Len(plan) = 2 /\ DOMAIN plan = 1 .. 2 /\ plan[1] = u /\ plan[2] = v
    BY <2>2
  <2> QED
    BY <2>1, <2>3
<1>4. PICK kind, from, dir, S :
        /\ kind = [s \in 1 .. 2 |-> IF s = 1 THEN "ready" ELSE "start"]
        /\ from = [s \in 1 .. 2 |-> [k \in 1 .. n - 1 |-> IF s = 1 THEN k ELSE 0]]
        /\ dir  = [s \in 1 .. 2 |-> IF s = 1 THEN "recv" ELSE "send"]
        /\ S = Ops(c, n)
  OBVIOUS
<1>5. ASSUME NEW s \in 1 .. 2, NEW k \in 1 .. n - 1, NEW op,
             op = SignalOf(dir[s], k, kind[s], from[s][k])
      PROVE  /\ plan[s][k] = << op >> /\ Len(plan[s][k]) = 1 /\ plan[s][k][1] = op
             /\ op \in S /\ op.kind # "data" /\ OpOK(c, n, 0, s, k, 1, op)
  <2>1. plan[s][k] = << op >>
    <3>1. s = 1 \/ s = 2
      OBVIOUS
    <3> QED
      BY <1>3, <1>4, <1>5, <3>1
  <2>2. op \in S
    BY <1>1, <1>4, <1>5 DEF Ops, SignalOf
  <2>3. /\ op.dir = dir[s] /\ op.peer = k /\ op.kind = kind[s] /\ op.owner = from[s][k]
        /\ op.piece = 0
    BY <1>5 DEF SignalOf
  <2>4. kind[s] # "data"
    BY <1>4
  <2>5. k \in 0 .. n - 1 /\ k # 0 /\ Linked(c, n, 0, k)
    BY <1>1 DEF Linked
  <2>6. s = StageOf(c, n, 0, dir[s], k) /\ k = TaskOf(c, n, 0, dir[s], k)
    BY <1>4 DEF StageOf, TaskOf
  <2>7. Count(c, n, 0, dir[s], k, 1) = 1 /\ Count(c, n, 0, dir[s], k, 1 - 1) = 0
    BY DEF Count
  <2>8. About(op.kind, op.owner, op.piece) = FlowSegment(c, n, 0, dir[s], k, 1)
    BY <1>4, <2>3, <2>5 DEF FlowSegment, Segment
  <2>9. ASSUME NEW d \in {"send", "recv"}, NEW r \in 0 .. n - 1, <<d, r>> # <<dir[s], k>>,
               StageOf(c, n, 0, d, r) = s, TaskOf(c, n, 0, d, r) = k
        PROVE  FALSE
    <3>1. r = k
      BY <2>9 DEF TaskOf
    <3>2. s = IF d = "send" THEN 2 ELSE 1
      BY <2>9 DEF StageOf
    <3>3. d = dir[s]
      BY <1>4, <3>2
    <3> QED
      BY <2>9, <3>1, <3>3
  <2>10. OpOK(c, n, 0, s, k, 1, op)
    BY <2>3, <2>4, <2>5, <2>6, <2>7, <2>8, <2>9 DEF OpOK
  <2>11. Len(<< op >>) = 1 /\ << op >>[1] = op
    BY <2>2, OneTwo
  <2> QED
    BY <2>1, <2>2, <2>3, <2>4, <2>10, <2>11
<1>6. \A s \in 1 .. 2 : DOMAIN plan[s] = 1 .. n - 1
  BY <1>3
<1>7. IsPlan(c, n, 0, plan)
  <2>1. ASSUME NEW s \in 1 .. 2, NEW k \in 1 .. n - 1 PROVE plan[s][k] \in Seq(S)
    <3>1. PICK op : op = SignalOf(dir[s], k, kind[s], from[s][k])
      OBVIOUS
    <3>2. plan[s][k] = << op >> /\ op \in S
      BY <1>5, <3>1
    <3>3. << op >> \in Seq(S)
      BY <3>2
    <3> QED
      BY <3>2, <3>3
  <2>2. ASSUME NEW s \in 1 .. Len(plan), NEW k \in DOMAIN plan[s]
        PROVE  plan[s][k] \in Seq(Ops(c, n))
    <3>1. s \in 1 .. 2
      BY <1>3
    <3>2. k \in 1 .. n - 1
      BY <1>6, <3>1
    <3> QED
      BY <1>4, <2>1, <3>1, <3>2
  <2> QED
    BY <1>3, <2>2 DEF IsPlan
<1>8. ASSUME NEW s \in 1 .. Len(plan), NEW k \in DOMAIN plan[s], NEW x \in 1 .. Len(plan[s][k])
      PROVE  OpOK(c, n, 0, s, k, x, plan[s][k][x]) /\ plan[s][k][x].kind # "data"
  <2>1. s \in 1 .. 2
    BY <1>3
  <2>2. k \in 1 .. n - 1
    BY <1>6, <2>1
  <2>3. PICK op : op = SignalOf(dir[s], k, kind[s], from[s][k])
    OBVIOUS
  <2>4. /\ Len(plan[s][k]) = 1 /\ plan[s][k][1] = op
        /\ op.kind # "data" /\ OpOK(c, n, 0, s, k, 1, op)
    BY <1>5, <2>1, <2>2, <2>3
  <2>5. x \in 1 .. 1
    BY <2>4
  <2>6. x = 1
    BY <2>5
  <2> QED
    BY <2>4, <2>6
<1>9. ASSUME NEW d \in {"send", "recv"}, NEW q \in 0 .. n - 1, Linked(c, n, 0, q)
      PROVE  FlowOK(c, n, 0, d, q, plan)
  <2>1. q \in 1 .. n - 1
    BY <1>1, <1>9 DEF Linked
  <2>2. PICK s : s = StageOf(c, n, 0, d, q)
    OBVIOUS
  <2>3. s \in 1 .. 2 /\ TaskOf(c, n, 0, d, q) = q
    BY <2>2 DEF StageOf, TaskOf
  <2>4. PICK op : op = SignalOf(dir[s], q, kind[s], from[s][q])
    OBVIOUS
  <2>5. Len(plan[s][q]) = 1
    BY <1>5, <2>1, <2>3, <2>4
  <2>6. FlowVolume(c, n, 0, d, q) = 1
    BY DEF FlowVolume, Volume
  <2>7. \A x : Count(c, n, 0, d, q, x) = x
    BY DEF Count
  <2>8. q \in DOMAIN plan[s] /\ s \in 1 .. Len(plan)
    BY <1>3, <1>6, <2>1, <2>3
  <2>9. PICK N : N = 1
    OBVIOUS
  <2>10. /\ Count(c, n, 0, d, q, 0) = 0 /\ Count(c, n, 0, d, q, N) = N
         /\ \A x \in 0 .. N : Count(c, n, 0, d, q, x) \in 0 .. N
    BY <2>7, <2>9
  <2>11. Len(plan[s][q]) = N /\ FlowVolume(c, n, 0, d, q) = N /\ N \in Nat /\ N >= 1
    BY <2>5, <2>6, <2>9
  <2> QED
    BY <2>2, <2>3, <2>8, <2>10, <2>11 DEF FlowOK
<1>10. DataOK(c, n, 0, plan)
  <2>1. Gets(c, n, 0) = {}
    BY DEF Gets
  <2> QED
    BY <1>8, <2>1 DEF DataOK
<1> QED
  BY <1>7, <1>8, <1>9, <1>10 DEF PlanOK

-----------------------------------------------------------------------------
(* Collect.  The task of a connection goes through rounds of the data and  *)
(* its acknowledgement.                                                    *)

(* The direction of p's data and of its acknowledgements, and whose data.  *)
DataDir(p) == IF p = 0 THEN "recv" ELSE "send"
AckDir(p) == IF p = 0 THEN "send" ELSE "recv"
Client(p, q) == IF p = 0 THEN q ELSE p

(* Operation b of a round.                                                 *)
CollectOp(d, e, q, o, size, b) ==
    IF b < size THEN [dir |-> d, peer |-> q, kind |-> "data", owner |-> o, piece |-> b + 1]
    ELSE SignalOf(e, q, "ack", 0)

(* s goes through the rounds.                                              *)
CollectOK(s, d, e, q, o, size, iters) ==
    /\ iters * (size + 1) \in Nat /\ iters * (size + 1) >= size + 1
    /\ Len(s) = iters * (size + 1) /\ DOMAIN s = 1 .. iters * (size + 1)
    /\ \A x \in 1 .. iters * (size + 1) : \A a, b : Divides(x - 1, size + 1, a, b) =>
         s[x] = CollectOp(d, e, q, o, size, b)

(* The segments of data, and of acknowledgements, in x operations.         *)
DataCount(size, x) == (x \div (size + 1)) * size + (x % (size + 1))
AckCount(size, x) == x \div (size + 1)

(* What one operation adds to them.                                        *)
AddsOne(size, x, a, b) ==
    /\ a \in Int /\ b \in 0 .. size
    /\ DataCount(size, x - 1) = a * size + b /\ AckCount(size, x - 1) = a
    /\ b < size => DataCount(size, x) = a * size + (b + 1) /\ AckCount(size, x) = a
    /\ b = size => DataCount(size, x) = a * size + b /\ AckCount(size, x) = a + 1

(* It is one of either.                                                    *)
LEMMA CountStep ==
    ASSUME NEW size \in Nat \ {0}, NEW x \in Nat \ {0}, NEW a, NEW b,
           Divides(x - 1, size + 1, a, b)
    PROVE  AddsOne(size, x, a, b)
<1>1. PICK P : P = size + 1
  OBVIOUS
<1>2. P \in Nat \ {0} /\ x - 1 \in Int
  BY <1>1
<1>3. x - 1 = P * a + b /\ a \in Int /\ b \in 0 .. P - 1
  BY <1>1, <1>2, Euclid
<1>4. DataCount(size, x - 1) = a * size + b /\ AckCount(size, x - 1) = a
  BY DEF DataCount, AckCount, Divides
<1>5. ASSUME b < size
      PROVE  DataCount(size, x) = a * size + (b + 1) /\ AckCount(size, x) = a
  <2>1. PICK t, e : t = P * a /\ e = b + 1
    OBVIOUS
  <2>2. t \in Int /\ e \in 0 .. P - 1
    BY <1>1, <1>2, <1>3, <1>5, <2>1
  <2>3. x = t + e
    <3>1. x - 1 = t + b /\ b \in Int
      BY <1>3, <2>1
    <3> QED
      BY <2>1, <2>2, <3>1
  <2>4. Divides(x, P, a, e)
    BY <1>2, <1>3, <2>1, <2>2, <2>3, EuclidUnique
  <2> QED
    BY <1>1, <2>1, <2>4 DEF DataCount, AckCount, Divides
<1>6. ASSUME b = size
      PROVE  DataCount(size, x) = a * size + b /\ AckCount(size, x) = a + 1
  <2>1. PICK t, e, u : t = P * a /\ e = a + 1 /\ u = P * e
    OBVIOUS
  <2>2. t \in Int /\ e \in Int /\ u = t + P
    BY <1>2, <1>3, <2>1
  <2>3. x = u + 0
    BY <1>1, <1>2, <1>3, <1>6, <2>1, <2>2
  <2>4. 0 \in 0 .. P - 1
    BY <1>2
  <2>5. Divides(x, P, e, 0)
    BY <1>2, <2>1, <2>2, <2>3, <2>4, EuclidUnique
  <2>6. DataCount(size, x) = e * size + 0 /\ AckCount(size, x) = e
    BY <1>1, <2>5 DEF DataCount, AckCount, Divides
  <2>7. e * size + 0 = a * size + size
    <3>1. (a + 1) * size = a * size + size
      BY <1>3
    <3>2. e * size \in Int
      BY <2>2
    <3> QED
      BY <2>1, <3>1, <3>2
  <2> QED
    BY <1>6, <2>1, <2>6, <2>7
<1>7. b \in 0 .. size
  BY <1>1, <1>3
<1> QED
  BY <1>3, <1>4, <1>5, <1>6, <1>7 DEF AddsOne

(* They start with none and end with all.                                  *)
LEMMA CountBounds ==
    ASSUME NEW size \in Nat \ {0}, NEW iters \in Nat \ {0}
    PROVE  /\ iters * (size + 1) \in Nat /\ iters * (size + 1) >= size + 1
           /\ iters * size \in Nat /\ iters * size >= 1
           /\ DataCount(size, 0) = 0 /\ AckCount(size, 0) = 0
           /\ DataCount(size, iters * (size + 1)) = iters * size
           /\ AckCount(size, iters * (size + 1)) = iters
           /\ \A x \in 0 .. iters * (size + 1) :
                DataCount(size, x) \in 0 .. iters * size /\ AckCount(size, x) \in 0 .. iters
<1>1. PICK P, N, V : P = size + 1 /\ N = P * iters /\ V = size * iters
  OBVIOUS
<1>2. P \in Nat \ {0} /\ N \in Int /\ V \in Int
  BY <1>1
<1>3. N = iters * (size + 1) /\ V = iters * size
  BY <1>1
<1>4. N >= P /\ V >= size
  BY <1>1, <1>2, MultipleTooLarge
<1>5. 0 \in 0 .. P - 1
  BY <1>2
<1>6. DataCount(size, 0) = 0 /\ AckCount(size, 0) = 0
  <2>1. Divides(0, P, 0, 0)
    BY <1>2, <1>5, EuclidUnique
  <2> QED
    BY <1>1, <2>1 DEF DataCount, AckCount, Divides
<1>7. DataCount(size, N) = V /\ AckCount(size, N) = iters
  <2>1. N = P * iters + 0
    BY <1>1, <1>2
  <2>2. Divides(N, P, iters, 0)
    BY <1>2, <1>5, <2>1, EuclidUnique
  <2>3. DataCount(size, N) = iters * size + 0 /\ AckCount(size, N) = iters
    BY <1>1, <2>2 DEF DataCount, AckCount, Divides
  <2> QED
    BY <1>2, <1>3, <2>3
<1>8. ASSUME NEW x \in 0 .. N
      PROVE  DataCount(size, x) \in 0 .. V /\ AckCount(size, x) \in 0 .. iters
  <2>1. CASE x = N
    <3>1. V \in 0 .. V /\ iters \in 0 .. iters
      BY <1>2, <1>4
    <3> QED
      BY <1>7, <2>1, <3>1
  <2>2. CASE x # N
    <3>1. PICK a, b : Divides(x, P, a, b)
      BY DEF Divides
    <3>2. x = P * a + b /\ a \in Int /\ b \in 0 .. P - 1
      BY <1>2, <3>1, Euclid
    <3>3. x \in 0 .. P * iters - 1
      BY <1>1, <1>2, <2>2
    <3>4. a \in 0 .. iters - 1
      BY <1>2, <3>2, <3>3, BelowMultiple
    <3>5. DataCount(size, x) = a * size + b /\ AckCount(size, x) = a
      BY <1>1, <3>1 DEF DataCount, AckCount, Divides
    <3>6. PICK t, e, w : t = size * a /\ e = iters - a /\ w = size * e
      OBVIOUS
    <3>7. t \in Int /\ e \in Int /\ w = V - t /\ e >= 1 /\ t = a * size
      BY <1>1, <3>4, <3>6
    <3>8. w >= size
      BY <3>6, <3>7, MultipleTooLarge
    <3>9. t >= 0
      BY <3>4, <3>6
    <3>10. b >= 0 /\ b <= size
      BY <1>1, <3>2
    <3>11. t + b \in 0 .. V
      BY <1>2, <3>2, <3>7, <3>8, <3>9, <3>10
    <3> QED
      BY <3>4, <3>5, <3>7, <3>11
  <2> QED
    BY <2>1, <2>2
<1> QED
  BY <1>1, <1>2, <1>3, <1>4, <1>6, <1>7, <1>8

(* The rounds of a task.                                                   *)
LEMMA RepeatIs ==
    ASSUME NEW d, NEW e, NEW q, NEW o \in Nat, NEW size \in Nat \ {0}, NEW iters \in Nat \ {0},
           NEW s, s = Repeat(Chunks(d, q, o, 1, size) \o Signal(e, q, "ack", 0), iters)
    PROVE  CollectOK(s, d, e, q, o, size, iters)
<1>1. PICK P, N, body, ack, base :
        /\ P = size + 1 /\ N = iters * P
        /\ body = Chunks(d, q, o, 1, size) /\ ack = Signal(e, q, "ack", 0)
        /\ base = body \o ack
  OBVIOUS
<1>2. P \in Nat \ {0} /\ N \in Nat /\ N >= P
  BY <1>1, CountBounds
<1>3. /\ Len(body) = size /\ DOMAIN body = 1 .. size
      /\ \A x \in 1 .. size : body[x] = CollectOp(d, e, q, o, size, x - 1)
  <2>1. ChunksOK(body, d, q, o, 1, size)
    BY <1>1, ChunksAre, 1 \in Nat \ {0}
  <2>2. 1 * size = size
    OBVIOUS
  <2>3. Len(body) = size /\ DOMAIN body = 1 .. size
    BY <2>1, <2>2 DEF ChunksOK
  <2>4. ASSUME NEW x \in 1 .. size PROVE body[x] = CollectOp(d, e, q, o, size, x - 1)
    <3>1. body[x] = [dir |-> d, peer |-> q, kind |-> "data",
                     owner |-> o + ((x - 1) \div size), piece |-> ((x - 1) % size) + 1]
      BY <2>1, <2>2 DEF ChunksOK
    <3>2. PICK y : y = x - 1
      OBVIOUS
    <3>3. y \in 0 .. size - 1 /\ y = size * 0 + y
      BY <3>2
    <3>4. Divides(y, size, 0, y)
      BY <3>3, EuclidUnique
    <3>5. (y \div size) = 0 /\ (y % size) = y
      BY <3>4 DEF Divides
    <3>6. body[x] = [dir |-> d, peer |-> q, kind |-> "data", owner |-> o, piece |-> y + 1]
      BY <3>1, <3>2, <3>5
    <3> QED
      BY <3>2, <3>3, <3>6 DEF CollectOp
  <2> QED
    BY <2>3, <2>4
<1>4. PICK sig : sig = SignalOf(e, q, "ack", 0)
  OBVIOUS
<1>5. Len(ack) = 1 /\ ack[1] = sig /\ ack = << sig >>
  <2>1. ack = << sig >>
    BY <1>1, <1>4 DEF Signal, SignalOf
  <2> QED
    BY <2>1, OneTwo, sig \in {sig}
<1>6. /\ Len(base) = P
      /\ \A x \in 1 .. P : base[x] = CollectOp(d, e, q, o, size, x - 1)
  <2>1. PICK S : S = {body[x] : x \in 1 .. size} \cup {sig}
    OBVIOUS
  <2>2. body \in Seq(S)
    <3>1. body = [x \in 1 .. size |-> body[x]]
      <4>1. body = Chunks(d, q, o, 1, size) /\ 1 * size = size
        BY <1>1
      <4> QED
        BY <4>1 DEF Chunks
    <3>2. \A x \in 1 .. size : body[x] \in S
      BY <2>1
    <3>3. size \in Nat
      OBVIOUS
    <3> QED
      BY <3>1, <3>2, <3>3
  <2>3. ack \in Seq(S)
    BY <1>5, <2>1, OneTwo
  <2>4. /\ Len(base) = Len(body) + Len(ack)
        /\ \A x \in 1 .. Len(body) + Len(ack) :
             base[x] = IF x <= Len(body) THEN body[x] ELSE ack[x - Len(body)]
    BY <1>1, <2>2, <2>3, ConcatProperties
  <2>5. /\ Len(base) = P
        /\ \A x \in 1 .. P : base[x] = IF x <= size THEN body[x] ELSE ack[x - size]
    BY <1>1, <1>3, <1>5, <2>4
  <2>6. ASSUME NEW x \in 1 .. P PROVE base[x] = CollectOp(d, e, q, o, size, x - 1)
    <3>1. CASE x <= size
      BY <1>3, <2>5, <3>1
    <3>2. CASE ~(x <= size)
      <4>1. x - size = 1 /\ x - 1 = size
        BY <1>1, <3>2
      <4>2. base[x] = sig
        BY <1>5, <2>5, <3>2, <4>1
      <4> QED
        BY <1>4, <4>1, <4>2 DEF CollectOp
    <3> QED
      BY <3>1, <3>2
  <2> QED
    BY <2>5, <2>6
<1>7. s = [k \in 1 .. N |-> base[((k - 1) % P) + 1]]
  BY <1>1, <1>6 DEF Repeat
<1>8. Len(s) = N /\ DOMAIN s = 1 .. N
  BY <1>2, <1>7
<1>9. ASSUME NEW x \in 1 .. N, NEW a, NEW b, Divides(x - 1, P, a, b)
      PROVE  s[x] = CollectOp(d, e, q, o, size, b)
  <2>1. b \in 0 .. P - 1
    BY <1>2, <1>9, Euclid
  <2>2. s[x] = base[b + 1]
    BY <1>7, <1>9 DEF Divides
  <2>3. b + 1 \in 1 .. P /\ (b + 1) - 1 = b
    BY <1>2, <2>1
  <2> QED
    BY <1>6, <2>2, <2>3
<1> QED
  BY <1>1, <1>2, <1>8, <1>9 DEF CollectOK

(* The task of p's connection with q.                                      *)
CollectTask(c, n, p, q, k, plan) ==
    /\ k = (IF p = 0 THEN q ELSE 1)
    /\ k \in DOMAIN plan[1] /\ Client(p, q) \in 1 .. n - 1
    /\ CollectOK(plan[1][k], DataDir(p), AckDir(p), q, Client(p, q), c.size, c.iters)

(* The plan of a collect: a task for each connection.                      *)
LEMMA CollectTasksAre ==
    ASSUME NEW c, NEW n, IsCall(c, n), c.op = "collect", NEW p \in 0 .. n - 1,
           NEW plan, plan = Stages(c, n, p)
    PROVE  /\ Len(plan) = 1 /\ DOMAIN plan = 1 .. 1
           /\ \A q \in 0 .. n - 1 : Linked(c, n, p, q) =>
                CollectTask(c, n, p, q, IF p = 0 THEN q ELSE 1, plan)
           /\ \A k \in DOMAIN plan[1] : \E q \in 0 .. n - 1 :
                Linked(c, n, p, q) /\ CollectTask(c, n, p, q, k, plan)
<1>1. /\ n \in Nat /\ n >= 2 /\ c.size \in Nat \ {0} /\ c.iters \in Nat \ {0}
      /\ p \in Nat /\ p <= n - 1
  BY DEF IsCall
<1>2. plan = Collect(n, p, c.iters, c.size)
  BY DEF Stages
<1>3. CASE p = 0
  <2>1. PICK tasks :
          tasks = [k \in 1 .. n - 1 |->
                    Repeat(Chunks("recv", k, k, 1, c.size) \o Signal("send", k, "ack", 0), c.iters)]
    OBVIOUS
  <2>2. plan = << tasks >>
    BY <1>2, <1>3, <2>1 DEF Collect
  <2>3. Len(plan) = 1 /\ DOMAIN plan = 1 .. 1 /\ plan[1] = tasks
    BY <2>2
  <2>4. ASSUME NEW k \in 1 .. n - 1 PROVE CollectTask(c, n, p, k, k, plan)
    <3>1. /\ plan[1][k] = Repeat(Chunks("recv", k, k, 1, c.size) \o Signal("send", k, "ack", 0), c.iters)
          /\ k \in DOMAIN plan[1] /\ k \in Nat
      BY <2>1, <2>3
    <3>2. CollectOK(plan[1][k], "recv", "send", k, k, c.size, c.iters)
      BY <1>1, <3>1, RepeatIs
    <3> QED
      BY <1>3, <3>1, <3>2 DEF CollectTask, DataDir, AckDir, Client
  <2>5. DOMAIN plan[1] = 1 .. n - 1
    BY <2>1, <2>3
  <2>6. ASSUME NEW q \in 0 .. n - 1
        PROVE  Linked(c, n, p, q) <=> q \in 1 .. n - 1
    BY <1>1, <1>3 DEF Linked
  <2> QED
    BY <1>1, <1>3, <2>3, <2>4, <2>5, <2>6
<1>4. CASE p # 0
  <2>1. PICK task :
          task = Repeat(Chunks("send", 0, p, 1, c.size) \o Signal("recv", 0, "ack", 0), c.iters)
    OBVIOUS
  <2>2. plan = << << task >> >>
    BY <1>2, <1>4, <2>1 DEF Collect
  <2>3. /\ Len(plan) = 1 /\ DOMAIN plan = 1 .. 1 /\ DOMAIN plan[1] = 1 .. 1 /\ plan[1][1] = task
    BY <2>2
  <2>4. CollectOK(task, "send", "recv", 0, p, c.size, c.iters)
    BY <1>1, <2>1, RepeatIs
  <2>5. CollectTask(c, n, p, 0, 1, plan)
    BY <1>1, <1>4, <2>3, <2>4 DEF CollectTask, DataDir, AckDir, Client
  <2>6. ASSUME NEW q \in 0 .. n - 1
        PROVE  Linked(c, n, p, q) <=> q = 0
    BY <1>1, <1>4 DEF Linked
  <2>7. ASSUME NEW k \in DOMAIN plan[1] PROVE k = 1
    BY <2>3
  <2> QED
    BY <1>1, <1>4, <2>3, <2>5, <2>6, <2>7
<1> QED
  BY <1>3, <1>4

(* Each operation of a task is the next of its flow of data, or of its     *)
(* flow of acknowledgements.                                               *)
LEMMA CollectOpOK ==
    ASSUME NEW c, NEW n, IsCall(c, n), c.op = "collect", NEW p \in 0 .. n - 1, NEW plan,
           NEW q \in 0 .. n - 1, Linked(c, n, p, q), NEW k, CollectTask(c, n, p, q, k, plan),
           NEW x \in 1 .. Len(plan[1][k]), NEW op, op = plan[1][k][x]
    PROVE  /\ OpOK(c, n, p, 1, k, x, op) /\ op \in Ops(c, n)
           /\ op.dir = "send" /\ op.kind = "data" => op.owner = p
<1>1. /\ n \in Nat /\ n >= 2 /\ p \in 0 .. n - 1 /\ q # p /\ (p = 0 \/ q = 0)
  BY DEF IsCall, Linked
<1>2. PICK size, iters, d, e, o, s :
        /\ size = c.size /\ iters = c.iters /\ d = DataDir(p) /\ e = AckDir(p)
        /\ o = Client(p, q) /\ s = plan[1][k]
  OBVIOUS
<1>3. /\ size \in Nat \ {0} /\ iters \in Nat \ {0} /\ o \in 1 .. n - 1
      /\ k = (IF p = 0 THEN q ELSE 1) /\ CollectOK(s, d, e, q, o, size, iters)
  BY <1>2 DEF IsCall, CollectTask
<1>4. PICK a, b : Divides(x - 1, size + 1, a, b)
  BY DEF Divides
<1>5. x \in Nat \ {0} /\ x \in 1 .. iters * (size + 1)
  BY <1>2, <1>3 DEF CollectOK
<1>6. op = CollectOp(d, e, q, o, size, b)
  BY <1>2, <1>3, <1>4, <1>5 DEF CollectOK
<1>7. /\ a \in Int /\ b \in 0 .. size
      /\ DataCount(size, x - 1) = a * size + b /\ AckCount(size, x - 1) = a
      /\ b < size => DataCount(size, x) = a * size + (b + 1) /\ AckCount(size, x) = a
      /\ b = size => DataCount(size, x) = a * size + b /\ AckCount(size, x) = a + 1
  <2>1. size \in Nat \ {0} /\ x \in Nat \ {0} /\ Divides(x - 1, size + 1, a, b)
    BY <1>3, <1>4, <1>5
  <2>2. AddsOne(size, x, a, b)
    BY <2>1, CountStep
  <2> QED
    BY <2>2 DEF AddsOne
<1>8. /\ d \in {"send", "recv"} /\ e \in {"send", "recv"} /\ d # e
      /\ \A f \in {"send", "recv"} : f = d \/ f = e
  BY <1>2 DEF DataDir, AckDir
<1>9. ASSUME NEW y
      PROVE  /\ Count(c, n, p, d, q, y) = DataCount(size, y)
             /\ Count(c, n, p, e, q, y) = AckCount(size, y)
  <2>1. (p = 0) = (d = "recv") /\ (p = 0) # (e = "recv")
    BY <1>2 DEF DataDir, AckDir
  <2> QED
    BY <1>2, <2>1 DEF Count, DataCount, AckCount
<1>10. ASSUME NEW f \in {"send", "recv"}
       PROVE  1 = StageOf(c, n, p, f, q) /\ k = TaskOf(c, n, p, f, q)
  BY <1>3 DEF StageOf, TaskOf
<1>11. ASSUME NEW f \in {"send", "recv"}, NEW r \in 0 .. n - 1, Linked(c, n, p, r),
              TaskOf(c, n, p, f, r) = k
       PROVE  r = q
  <2>1. r # p /\ (p = 0 \/ r = 0)
    BY <1>11 DEF Linked
  <2>2. k = (IF p = 0 THEN r ELSE 1)
    BY <1>11 DEF TaskOf
  <2> QED
    BY <1>1, <1>3, <2>1, <2>2
<1>12. CASE b < size
  <2>1. op = [dir |-> d, peer |-> q, kind |-> "data", owner |-> o, piece |-> b + 1]
    BY <1>6, <1>12 DEF CollectOp
  <2>2. op.dir = d /\ op.peer = q /\ op.kind = "data" /\ op.owner = o /\ op.piece = b + 1
    BY <2>1
  <2>3. PICK t, z : t = a * size /\ z = t + (b + 1)
    OBVIOUS
  <2>4. t \in Int /\ b \in Int /\ b + 1 \in 1 .. size
    BY <1>3, <1>7, <1>12, <2>3
  <2>5. Count(c, n, p, d, q, x) = z /\ Count(c, n, p, d, q, x) = Count(c, n, p, d, q, x - 1) + 1
    <3>1. Count(c, n, p, d, q, x - 1) = t + b /\ Count(c, n, p, d, q, x) = t + (b + 1)
      BY <1>7, <1>9, <1>12, <2>3
    <3> QED
      BY <2>3, <2>4, <3>1
  <2>6. ((z - 1) % size) = b
    <3>1. PICK w : w = size * a
      OBVIOUS
    <3>2. w = t /\ z - 1 = w + b /\ b \in 0 .. size - 1
      <4>1. w = t
        BY <1>3, <1>7, <2>3, <3>1
      <4>2. z - 1 = t + b
        BY <2>3, <2>4
      <4>3. b \in 0 .. size - 1
        BY <1>3, <1>7, <1>12
      <4> QED
        BY <4>1, <4>2, <4>3
    <3>3. Divides(z - 1, size, a, b)
      BY <1>3, <1>7, <3>1, <3>2, EuclidUnique
    <3> QED
      BY <3>3 DEF Divides
  <2>7. FlowSegment(c, n, p, d, q, z) = About("data", o, b + 1)
    <3>1. CASE p = 0
      <4>1. FlowSegment(c, n, p, d, q, z) = Segment(c, n, q, 0, z) /\ o = q
        BY <1>2, <3>1 DEF FlowSegment, DataDir, Client
      <4> QED
        BY <1>2, <2>6, <4>1 DEF Segment
    <3>2. CASE p # 0
      <4>1. FlowSegment(c, n, p, d, q, z) = Segment(c, n, p, 0, z) /\ o = p
        BY <1>1, <1>2, <3>2 DEF FlowSegment, DataDir, Client
      <4> QED
        BY <1>2, <2>6, <4>1 DEF Segment
    <3> QED
      BY <3>1, <3>2
  <2>8. ASSUME NEW f \in {"send", "recv"}, NEW r \in 0 .. n - 1, Linked(c, n, p, r),
               <<f, r>> # <<d, q>>, TaskOf(c, n, p, f, r) = k
        PROVE  Count(c, n, p, f, r, x) = Count(c, n, p, f, r, x - 1)
    <3>1. r = q
      BY <1>11, <2>8
    <3>2. f = e
      BY <1>8, <2>8, <3>1
    <3> QED
      BY <1>7, <1>9, <1>12, <3>1, <3>2
  <2>9. op.dir = "recv" => op.owner # p
    BY <1>1, <1>2, <2>2 DEF DataDir, Client
  <2>10. op.dir = "send" => op.owner = p
    BY <1>1, <1>2, <2>2 DEF DataDir, Client
  <2>11. op \in Ops(c, n)
    <3>1. o \in 0 .. n - 1 /\ b + 1 \in 0 .. c.size
      BY <1>2, <1>3, <2>4
    <3> QED
      BY <1>8, <2>1, <3>1 DEF Ops
  <2>12. op.piece \in 1 .. c.size
    BY <1>2, <2>2, <2>4
  <2>13. OpOK(c, n, p, 1, k, x, op)
    BY <1>10, <1>8, <2>2, <2>5, <2>7, <2>8, <2>9, <2>12 DEF OpOK
  <2> QED
    BY <2>10, <2>11, <2>13
<1>13. CASE b = size
  <2>1. op = SignalOf(e, q, "ack", 0)
    BY <1>3, <1>6, <1>13 DEF CollectOp
  <2>2. op.dir = e /\ op.peer = q /\ op.kind = "ack" /\ op.owner = 0 /\ op.piece = 0
    BY <2>1 DEF SignalOf
  <2>3. PICK z : z = a + 1
    OBVIOUS
  <2>4. Count(c, n, p, e, q, x) = z /\ Count(c, n, p, e, q, x) = Count(c, n, p, e, q, x - 1) + 1
    BY <1>7, <1>9, <1>13, <2>3
  <2>5. FlowSegment(c, n, p, e, q, z) = About("ack", 0, 0)
    <3>1. CASE p = 0
      <4>1. FlowSegment(c, n, p, e, q, z) = Segment(c, n, 0, q, z) /\ q # 0
        BY <1>1, <1>2, <3>1 DEF FlowSegment, AckDir
      <4> QED
        BY <4>1 DEF Segment
    <3>2. CASE p # 0
      <4>1. FlowSegment(c, n, p, e, q, z) = Segment(c, n, 0, p, z)
        BY <1>1, <1>2, <3>2 DEF FlowSegment, AckDir
      <4> QED
        BY <3>2, <4>1 DEF Segment
    <3> QED
      BY <3>1, <3>2
  <2>6. ASSUME NEW f \in {"send", "recv"}, NEW r \in 0 .. n - 1, Linked(c, n, p, r),
               <<f, r>> # <<e, q>>, TaskOf(c, n, p, f, r) = k
        PROVE  Count(c, n, p, f, r, x) = Count(c, n, p, f, r, x - 1)
    <3>1. r = q
      BY <1>11, <2>6
    <3>2. f = d
      BY <1>8, <2>6, <3>1
    <3> QED
      BY <1>7, <1>9, <1>13, <3>1, <3>2
  <2>7. op \in Ops(c, n)
    <3>1. op = [dir |-> e, peer |-> q, kind |-> "ack", owner |-> 0, piece |-> 0]
      BY <2>1 DEF SignalOf
    <3>2. n \in Nat /\ n >= 2 /\ c.size \in Nat
      BY <1>1, <1>2, <1>3 DEF IsCall
    <3>3. q \in 0 .. n - 1 /\ 0 \in 0 .. n - 1 /\ 0 \in 0 .. c.size
      BY <1>3, <3>2
    <3> QED
      BY <1>8, <3>1, <3>3 DEF Ops
  <2>8. OpOK(c, n, p, 1, k, x, op)
    BY <1>10, <1>8, <2>2, <2>4, <2>5, <2>6 DEF OpOK
  <2> QED
    BY <2>2, <2>7, <2>8
<1>14. b < size \/ b = size
  BY <1>3, <1>7
<1> QED
  BY <1>12, <1>13, <1>14

(* A party's collect is a plan.                                            *)
LEMMA CollectPlan ==
    ASSUME NEW c, NEW n, IsCall(c, n), c.op = "collect", NEW p \in 0 .. n - 1,
           NEW plan, plan = Stages(c, n, p)
    PROVE  PlanOK(c, n, p, plan)
<1>1. /\ n \in Nat /\ n >= 2 /\ c.size \in Nat \ {0} /\ c.iters \in Nat \ {0}
      /\ p \in 0 .. n - 1
  BY DEF IsCall
<1>2. /\ Len(plan) = 1 /\ DOMAIN plan = 1 .. 1
      /\ \A q \in 0 .. n - 1 : Linked(c, n, p, q) =>
           CollectTask(c, n, p, q, IF p = 0 THEN q ELSE 1, plan)
      /\ \A k \in DOMAIN plan[1] : \E q \in 0 .. n - 1 :
           Linked(c, n, p, q) /\ CollectTask(c, n, p, q, k, plan)
  BY CollectTasksAre
<1>3. /\ c.iters * (c.size + 1) \in Nat /\ c.iters * (c.size + 1) >= c.size + 1
      /\ c.iters * c.size \in Nat /\ c.iters * c.size >= 1
      /\ DataCount(c.size, 0) = 0 /\ AckCount(c.size, 0) = 0
      /\ DataCount(c.size, c.iters * (c.size + 1)) = c.iters * c.size
      /\ AckCount(c.size, c.iters * (c.size + 1)) = c.iters
      /\ \A x \in 0 .. c.iters * (c.size + 1) :
           /\ DataCount(c.size, x) \in 0 .. c.iters * c.size
           /\ AckCount(c.size, x) \in 0 .. c.iters
  BY <1>1, CountBounds
<1>4. ASSUME NEW s \in 1 .. Len(plan), NEW k \in DOMAIN plan[s], NEW x \in 1 .. Len(plan[s][k])
      PROVE  /\ OpOK(c, n, p, s, k, x, plan[s][k][x])
             /\ plan[s][k][x].dir = "send" /\ plan[s][k][x].kind = "data"
                  => plan[s][k][x].owner = p
  <2>1. s = 1
    BY <1>2
  <2>2. PICK q \in 0 .. n - 1 : Linked(c, n, p, q) /\ CollectTask(c, n, p, q, k, plan)
    BY <1>2, <2>1
  <2>3. x \in 1 .. Len(plan[1][k])
    BY <2>1
  <2> QED
    BY <2>1, <2>2, <2>3, CollectOpOK
<1>5. IsPlan(c, n, p, plan)
  <2>1. ASSUME NEW s \in 1 .. Len(plan), NEW k \in DOMAIN plan[s]
        PROVE  plan[s][k] \in Seq(Ops(c, n))
    <3>1. s = 1
      BY <1>2
    <3>2. PICK q \in 0 .. n - 1 : Linked(c, n, p, q) /\ CollectTask(c, n, p, q, k, plan)
      BY <1>2, <3>1
    <3>3. PICK t, N : t = plan[1][k] /\ N = c.iters * (c.size + 1)
      OBVIOUS
    <3>4. Len(t) = N /\ DOMAIN t = 1 .. N /\ N \in Nat
      BY <3>2, <3>3 DEF CollectTask, CollectOK
    <3>5. \A x \in 1 .. N : t[x] \in Ops(c, n)
      BY <3>2, <3>3, <3>4, CollectOpOK
    <3>6. t = [x \in 1 .. N |-> t[x]]
      <4>1. PICK base, m : t = Repeat(base, m)
        <5>1. plan = Collect(n, p, c.iters, c.size)
          BY DEF Stages
        <5>2. k = (IF p = 0 THEN q ELSE 1) /\ k \in DOMAIN plan[1]
          BY <3>2 DEF CollectTask
        <5>3. CASE p = 0
          <6>1. PICK tasks : tasks = [j \in 1 .. n - 1 |->
                  Repeat(Chunks("recv", j, j, 1, c.size) \o Signal("send", j, "ack", 0), c.iters)]
            OBVIOUS
          <6>2. plan = << tasks >>
            BY <5>1, <5>3, <6>1 DEF Collect
          <6>3. plan[1] = tasks
            BY <6>2
          <6> QED
            BY <3>3, <5>2, <6>1, <6>3
        <5>4. CASE p # 0
          <6>1. PICK task :
              task = Repeat(Chunks("send", 0, p, 1, c.size) \o Signal("recv", 0, "ack", 0), c.iters)
            OBVIOUS
          <6>2. plan = << << task >> >>
            BY <5>1, <5>4, <6>1 DEF Collect
          <6>3. plan[1][1] = task
            BY <6>2
          <6> QED
            BY <3>3, <5>2, <5>4, <6>1, <6>3
        <5> QED
          BY <5>3, <5>4
      <4> QED
        BY <3>4, <4>1 DEF Repeat
    <3> QED
      BY <3>1, <3>3, <3>4, <3>5, <3>6
  <2> QED
    BY <1>2, <2>1 DEF IsPlan
<1>6. ASSUME NEW d \in {"send", "recv"}, NEW q \in 0 .. n - 1, Linked(c, n, p, q)
      PROVE  FlowOK(c, n, p, d, q, plan)
  <2>1. PICK k : k = TaskOf(c, n, p, d, q)
    OBVIOUS
  <2>2. k = (IF p = 0 THEN q ELSE 1) /\ StageOf(c, n, p, d, q) = 1
    BY <2>1 DEF TaskOf, StageOf
  <2>3. CollectTask(c, n, p, q, k, plan)
    BY <1>2, <1>6, <2>2
  <2>4. PICK N, V : /\ N = c.iters * (c.size + 1)
                    /\ V = IF d = DataDir(p) THEN c.iters * c.size ELSE c.iters
    OBVIOUS
  <2>5. k \in DOMAIN plan[1] /\ Len(plan[1][k]) = N
    BY <2>3, <2>4 DEF CollectTask, CollectOK
  <2>6. p # q /\ (p = 0 \/ q = 0)
    BY <1>6 DEF Linked
  <2>7. FlowVolume(c, n, p, d, q) = V /\ V \in Nat /\ V >= 1
    <3>1. V \in Nat /\ V >= 1
      BY <1>1, <1>3, <2>4
    <3>2. CASE d = "send"
      <4>1. FlowVolume(c, n, p, d, q) = IF q = 0 THEN c.iters * c.size ELSE c.iters
        BY <3>2 DEF FlowVolume, Volume
      <4>2. d = DataDir(p) <=> q = 0
        BY <2>6, <3>2 DEF DataDir
      <4> QED
        BY <2>4, <3>1, <4>1, <4>2
    <3>3. CASE d = "recv"
      <4>1. FlowVolume(c, n, p, d, q) = IF p = 0 THEN c.iters * c.size ELSE c.iters
        BY <3>3 DEF FlowVolume, Volume
      <4>2. d = DataDir(p) <=> p = 0
        BY <2>6, <3>3 DEF DataDir
      <4> QED
        BY <2>4, <3>1, <4>1, <4>2
    <3> QED
      BY <3>2, <3>3
  <2>8. ASSUME NEW y
        PROVE  Count(c, n, p, d, q, y) = IF d = DataDir(p) THEN DataCount(c.size, y)
                                         ELSE AckCount(c.size, y)
    <3>1. (p = 0) = (d = "recv") <=> d = DataDir(p)
      BY DEF DataDir
    <3> QED
      BY <3>1 DEF Count, DataCount, AckCount
  <2>9. /\ Count(c, n, p, d, q, 0) = 0 /\ Count(c, n, p, d, q, N) = V
        /\ \A x \in 0 .. N : Count(c, n, p, d, q, x) \in 0 .. V
    BY <1>3, <2>4, <2>8
  <2>10. 1 \in 1 .. Len(plan)
    BY <1>2
  <2> QED
    BY <2>1, <2>2, <2>5, <2>7, <2>9, <2>10 DEF FlowOK
<1>7. DataOK(c, n, p, plan)
  <2>1. ASSUME p = 0, NEW j \in 1 .. n - 1, NEW piece \in 1 .. c.size
        PROVE  Receives(plan, 2, j, piece)
    <3>1. j \in 0 .. n - 1 /\ Linked(c, n, p, j)
      BY <1>1, <2>1 DEF Linked
    <3>2. CollectTask(c, n, p, j, j, plan)
      BY <1>2, <2>1, <3>1
    <3>3. PICK N, b, P : N = c.iters * (c.size + 1) /\ b = piece - 1 /\ P = c.size + 1
      OBVIOUS
    <3>4. b \in 0 .. P - 1 /\ b = P * 0 + b /\ P \in Nat \ {0} /\ b < c.size /\ b + 1 = piece
      BY <1>1, <3>3
    <3>5. Divides(b, P, 0, b)
      BY <3>4, EuclidUnique
    <3>6. piece \in 1 .. N /\ piece - 1 = b
      BY <1>1, <1>3, <3>3
    <3>7. /\ j \in DOMAIN plan[1] /\ Len(plan[1][j]) = N
          /\ plan[1][j][piece] = CollectOp("recv", "send", j, j, c.size, b)
      <4>1. /\ j \in DOMAIN plan[1]
            /\ CollectOK(plan[1][j], "recv", "send", j, j, c.size, c.iters)
        BY <2>1, <3>2 DEF CollectTask, DataDir, AckDir, Client
      <4> QED
        BY <3>3, <3>5, <3>6, <4>1 DEF CollectOK
    <3>8. PICK op : op = plan[1][j][piece]
      OBVIOUS
    <3>9. op.dir = "recv" /\ op.kind = "data" /\ op.owner = j /\ op.piece = piece
      <4>1. op = [dir |-> "recv", peer |-> j, kind |-> "data", owner |-> j, piece |-> piece]
        BY <3>4, <3>7, <3>8 DEF CollectOp
      <4> QED
        BY <4>1
    <3>10. 1 \in 1 .. 2 - 1 /\ piece \in 1 .. Len(plan[1][j])
      BY <3>6, <3>7
    <3> QED
      BY <3>7, <3>8, <3>9, <3>10 DEF Receives
  <2>2. Gets(c, n, p) = IF p = 0 THEN 1 .. n - 1 ELSE {}
    BY DEF Gets
  <2>3. Len(plan) + 1 = 2
    BY <1>2
  <2> QED
    BY <1>4, <2>1, <2>2, <2>3 DEF DataOK
<1> QED
  BY <1>4, <1>5, <1>6, <1>7 DEF PlanOK

-----------------------------------------------------------------------------
(* The laws of a call.                                                     *)

(* What a party runs for a call is a plan, with all its flows.             *)
LEMMA PlanRight ==
    ASSUME NEW c, NEW n, IsCall(c, n), NEW p \in 0 .. n - 1
    PROVE  PlanOK(c, n, p, Stages(c, n, p))
<1>1. c.op \in {"tree", "pairwise", "sync", "collect"}
  BY DEF IsCall
<1>2. c.op = "sync" => PlanOK(c, n, p, Stages(c, n, p))
  BY SyncClient, SyncServer
<1> QED
  BY <1>1, <1>2, TreePlan, PairPlan, CollectPlan

(* Both ends of a flow know of it.                                         *)
LEMMA LinkedBoth ==
    ASSUME NEW c, NEW n, IsCall(c, n), NEW p \in 0 .. n - 1, NEW q \in 0 .. n - 1,
           Linked(c, n, p, q)
    PROVE  Linked(c, n, q, p)
<1>1. CASE c.op = "tree"
  <2>1. PICK l \in 0 .. LogN(n) - 1 : q = Partner(p, l)
    BY <1>1 DEF Linked
  <2>2. LogN(n) \in 0 .. n /\ PowerOfTwo(LogN(n)) = n /\ n \in Nat
    BY <1>1, LogOf DEF IsCall
  <2>3. LogN(n) \in Nat
    BY <2>2
  <2>4. Partner(q, l) = p
    BY <2>1, <2>2, <2>3, PartnerOf
  <2> QED
    BY <1>1, <2>1, <2>4 DEF Linked
<1>2. CASE c.op # "tree"
  BY <1>2 DEF Linked
<1> QED
  BY <1>1, <1>2

-----------------------------------------------------------------------------
(* The flows of a row of calls.                                            *)

(* The calls of a deployment are calls of its parties.                     *)
LEMMA CallsOK ==
    ASSUME NEW d \in DOMAIN Deployments
    PROVE  /\ Size(d) \in Nat /\ Size(d) >= 2 /\ LastCall(d) \in Nat /\ LastCall(d) >= 1
           /\ \A r \in 1 .. LastCall(d) : IsCall(Deployments[d].calls[r], Size(d))
<1> DEFINE K == [op : {"tree", "pairwise", "sync", "collect"}, size : Nat \ {0},
                 iters : Nat \ {0}]
<1>1. /\ Deployments[d].parties \in Nat /\ Deployments[d].parties >= 2
      /\ Deployments[d].calls \in Seq(K) /\ Deployments[d].calls # << >>
      /\ \A r \in 1 .. Len(Deployments[d].calls) : Deployments[d].calls[r].op = "tree" =>
           \E l \in 0 .. Deployments[d].parties : PowerOfTwo(l) = Deployments[d].parties
  BY TaskNetAssumption
<1>2. PICK cs : cs = Deployments[d].calls
  OBVIOUS
<1> HIDE DEF K
<1>3. cs \in Seq(K) /\ cs # << >>
  BY <1>1, <1>2
<1>4. Len(cs) \in Nat /\ Len(cs) >= 1 /\ \A r \in 1 .. Len(cs) : cs[r] \in K
  BY <1>3
<1> QED
  BY <1>1, <1>2, <1>4 DEF IsCall, Size, LastCall, K

(* A flow has some number of segments.                                     *)
LEMMA FlowNat ==
    ASSUME NEW c, NEW n, IsCall(c, n), NEW p \in 0 .. n - 1, NEW q \in 0 .. n - 1
    PROVE  /\ FlowOf(c, n, p, q) \in Nat
           /\ Linked(c, n, p, q) => FlowOf(c, n, p, q) = Volume(c, n, p, q)
           /\ Linked(c, n, p, q) => FlowOf(c, n, p, q) >= 1
<1>1. Linked(c, n, p, q) => FlowOK(c, n, p, "send", q, Stages(c, n, p))
  BY PlanRight DEF PlanOK
<1> QED
  BY <1>1 DEF FlowOf, FlowOK, FlowVolume

(* Before is the running total.                                            *)
IsTotal(d, p, q, r, f) == \E t : Totals(t, f, r) /\ Before(d, p, q, r) = t[r]

(* Before is defined by that recursion.                                    *)
LEMMA BeforeIs ==
    ASSUME NEW d \in DOMAIN Deployments, NEW p \in 0 .. Size(d) - 1, NEW q \in 0 .. Size(d) - 1,
           NEW r \in 0 .. LastCall(d), NEW f,
           f = [k \in 1 .. r |-> FlowOf(Deployments[d].calls[k], Size(d), p, q)]
    PROVE  IsTotal(d, p, q, r, f)
<1>1. r \in Nat /\ \A k \in 1 .. r : f[k] \in Nat
  <2>1. LastCall(d) \in Nat
    BY CallsOK
  <2>2. \A k \in 1 .. LastCall(d) :
          FlowOf(Deployments[d].calls[k], Size(d), p, q) \in Nat
    BY CallsOK, FlowNat
  <2>3. \A k \in 1 .. r : k \in 1 .. LastCall(d)
    BY <2>1
  <2> QED
    BY <2>1, <2>2, <2>3
<1> DEFINE t == CHOOSE h : h = [k \in 0 .. r |-> IF k = 0 THEN 0 ELSE h[k - 1] + f[k]]
<1>2. Before(d, p, q, r) = t[r]
  BY DEF Before
<1>3. \E h : h = [k \in 0 .. r |-> IF k = 0 THEN 0 ELSE h[k - 1] + f[k]]
  <2>1. HasTotals(f, r)
    BY <1>1, TotalsExist
  <2>2. PICK h : AddsUp(h, f, r)
    BY <2>1 DEF HasTotals
  <2> QED
    BY <2>2 DEF AddsUp
<1>4. AddsUp(t, f, r)
  BY <1>3 DEF AddsUp
<1> HIDE DEF t
<1>5. Totals(t, f, r)
  BY <1>1, <1>4, TotalsDefined
<1> QED
  BY <1>2, <1>5 DEF IsTotal

(* There is one function of all totals up to the last call.                *)
BeforeAre(d, p, q, t) ==
    /\ t \in [0 .. LastCall(d) -> Nat] /\ t[0] = 0
    /\ \A r \in 0 .. LastCall(d) : Before(d, p, q, r) = t[r]
    /\ \A r \in 1 .. LastCall(d) :
         t[r] = t[r - 1] + FlowOf(Deployments[d].calls[r], Size(d), p, q)

(* Before is that function.                                                *)
LEMMA BeforeAll ==
    ASSUME NEW d \in DOMAIN Deployments, NEW p \in 0 .. Size(d) - 1, NEW q \in 0 .. Size(d) - 1
    PROVE  \E t : BeforeAre(d, p, q, t)
<1> DEFINE F(r) == [k \in 1 .. r |-> FlowOf(Deployments[d].calls[k], Size(d), p, q)]
<1>1. PICK L \in Nat : L = LastCall(d)
  BY CallsOK
<1>2. ASSUME NEW r \in 0 .. L PROVE IsTotal(d, p, q, r, F(r))
  BY <1>1, BeforeIs
<1>3. L \in 0 .. L
  OBVIOUS
<1>4. ASSUME NEW r \in 0 .. L, NEW k \in 1 .. r PROVE F(r)[k] = F(L)[k]
  BY <1>1
<1>5. \A r \in 1 .. L : F(L)[r] = FlowOf(Deployments[d].calls[r], Size(d), p, q)
  OBVIOUS
<1> HIDE DEF F
<1>6. PICK t : Totals(t, F(L), L) /\ Before(d, p, q, L) = t[L]
  BY <1>2, <1>3 DEF IsTotal
<1>7. ASSUME NEW r \in 0 .. L PROVE Before(d, p, q, r) = t[r]
  <2>1. PICK u : Totals(u, F(r), r) /\ Before(d, p, q, r) = u[r]
    BY <1>2 DEF IsTotal
  <2>2. t[0] = u[0]
    BY <1>6, <2>1 DEF Totals
  <2>3. \A k \in 1 .. r : t[k - 1] = u[k - 1] => t[k] = u[k]
    BY <1>4, <1>6, <2>1 DEF Totals
  <2>4. r \in Nat
    OBVIOUS
  <2>5. \A k \in 0 .. r : t[k] = u[k]
    <3> DEFINE T == {k \in 0 .. r : t[k] = u[k]}
    <3>1. 0 \in T
      BY <2>2, <2>4
    <3>2. \A k \in 1 .. r : k - 1 \in T => k \in T
      BY <2>3
    <3> HIDE DEF T
    <3>3. \A k \in 0 .. r : k \in T
      BY <2>4, <3>1, <3>2, InductionUpTo
    <3> QED
      BY <3>3 DEF T
  <2> QED
    BY <2>1, <2>4, <2>5
<1> QED
  BY <1>1, <1>5, <1>6, <1>7 DEF Totals, BeforeAre

(* The totals are numbers.                                                 *)
LEMMA BeforeNat ==
    ASSUME NEW d \in DOMAIN Deployments, NEW p \in 0 .. Size(d) - 1, NEW q \in 0 .. Size(d) - 1,
           NEW r \in 1 .. LastCall(d)
    PROVE  /\ Before(d, p, q, r - 1) \in Nat
           /\ Before(d, p, q, r) = Before(d, p, q, r - 1)
                                    + FlowOf(Deployments[d].calls[r], Size(d), p, q)
           /\ Before(d, p, q, 0) = 0
<1>1. PICK t : BeforeAre(d, p, q, t)
  BY BeforeAll
<1>2. LastCall(d) \in Nat
  BY CallsOK
<1>3. r \in 0 .. LastCall(d) /\ r - 1 \in 0 .. LastCall(d) /\ 0 \in 0 .. LastCall(d)
  BY <1>2
<1> QED
  BY <1>1, <1>3 DEF BeforeAre

(* Also after the last call.                                               *)
LEMMA BeforeTyped ==
    ASSUME NEW d \in DOMAIN Deployments, NEW p \in 0 .. Size(d) - 1, NEW q \in 0 .. Size(d) - 1,
           NEW r \in 1 .. LastCall(d) + 1
    PROVE  Before(d, p, q, r - 1) \in Nat
<1>1. PICK t : BeforeAre(d, p, q, t)
  BY BeforeAll
<1>2. LastCall(d) \in Nat
  BY CallsOK
<1>3. r - 1 \in 0 .. LastCall(d)
  BY <1>2
<1> QED
  BY <1>1, <1>3 DEF BeforeAre

(* The flows of earlier calls come first.                                  *)
LEMMA BeforeGrows ==
    ASSUME NEW d \in DOMAIN Deployments, NEW p \in 0 .. Size(d) - 1, NEW q \in 0 .. Size(d) - 1,
           NEW t, BeforeAre(d, p, q, t),
           NEW r \in 0 .. LastCall(d), NEW s \in 0 .. LastCall(d), r <= s
    PROVE  t[r] <= t[s]
<1>1. LastCall(d) \in Nat
  BY CallsOK
<1> DEFINE T == {k \in 0 .. LastCall(d) : r <= k => t[r] <= t[k]}
<1>2. 0 \in T
  <2>1. 0 \in 0 .. LastCall(d) /\ t[0] \in Nat
    BY <1>1 DEF BeforeAre
  <2>2. r <= 0 => r = 0
    BY <1>1
  <2> QED
    BY <2>1, <2>2
<1>3. ASSUME NEW k \in 1 .. LastCall(d), k - 1 \in T PROVE k \in T
  <2>1. FlowOf(Deployments[d].calls[k], Size(d), p, q) \in Nat
    BY CallsOK, FlowNat
  <2>2. PICK a, b, e : /\ a = t[k - 1] /\ b = t[k] /\ e = t[r]
    OBVIOUS
  <2>3. a \in Nat /\ b \in Nat /\ e \in Nat /\ b >= a
    <3>1. k \in 0 .. LastCall(d) /\ k - 1 \in 0 .. LastCall(d)
      BY <1>1
    <3>2. t \in [0 .. LastCall(d) -> Nat]
      BY DEF BeforeAre
    <3>3. a \in Nat /\ b \in Nat /\ e \in Nat
      BY <2>2, <3>1, <3>2
    <3>4. PICK g : g = FlowOf(Deployments[d].calls[k], Size(d), p, q)
      OBVIOUS
    <3>5. b = a + g
      BY <2>2, <3>4 DEF BeforeAre
    <3> QED
      BY <2>1, <3>3, <3>4, <3>5
  <2>4. r <= k => r <= k - 1 \/ r = k
    BY <1>1
  <2>5. r <= k - 1 => e <= a
    BY <1>3, <2>2
  <2>6. r = k => e = b
    BY <2>2
  <2>7. r <= k => e <= b
    BY <2>3, <2>4, <2>5, <2>6
  <2>8. k \in 0 .. LastCall(d)
    BY <1>1
  <2> QED
    BY <2>2, <2>7, <2>8
<1> HIDE DEF T
<1>4. \A k \in 0 .. LastCall(d) : k \in T
  BY <1>1, <1>2, <1>3, InductionUpTo
<1> QED
  BY <1>4 DEF T

(* A place in the row of all segments is one of one call.                  *)
LEMMA OnePlace ==
    ASSUME NEW d \in DOMAIN Deployments, NEW p \in 0 .. Size(d) - 1, NEW q \in 0 .. Size(d) - 1,
           NEW r \in 1 .. LastCall(d), NEW s \in 1 .. LastCall(d),
           NEW i \in 1 .. FlowOf(Deployments[d].calls[r], Size(d), p, q),
           NEW j \in 1 .. FlowOf(Deployments[d].calls[s], Size(d), p, q),
           Before(d, p, q, r - 1) + i = Before(d, p, q, s - 1) + j
    PROVE  r = s /\ i = j
<1>1. PICK t : BeforeAre(d, p, q, t)
  BY BeforeAll
<1>2. LastCall(d) \in Nat
  BY CallsOK
<1>3. ASSUME NEW a \in 1 .. LastCall(d), NEW b \in 1 .. LastCall(d), a < b,
             NEW x \in 1 .. FlowOf(Deployments[d].calls[a], Size(d), p, q),
             NEW y \in Nat \ {0}
      PROVE  t[a - 1] + x # t[b - 1] + y
  <2>1. t[a] <= t[b - 1]
    <3>1. a \in 0 .. LastCall(d) /\ b - 1 \in 0 .. LastCall(d) /\ a <= b - 1
      BY <1>2, <1>3
    <3> QED
      BY <1>1, <3>1, BeforeGrows
  <2>2. PICK u, v, w, f : /\ u = t[a - 1] /\ v = t[a] /\ w = t[b - 1]
                          /\ f = FlowOf(Deployments[d].calls[a], Size(d), p, q)
    OBVIOUS
  <2>3. u \in Nat /\ v \in Nat /\ w \in Nat /\ f \in Nat /\ v = u + f
    <3>1. f \in Nat
      BY <2>2, CallsOK, FlowNat
    <3>2. a - 1 \in 0 .. LastCall(d) /\ a \in 0 .. LastCall(d) /\ b - 1 \in 0 .. LastCall(d)
      BY <1>2
    <3> QED
      BY <1>1, <2>2, <3>1, <3>2 DEF BeforeAre
  <2>4. x <= f /\ x \in Nat /\ v <= w
    BY <2>1, <2>2, <2>3
  <2>5. u + x # w + y
    BY <2>3, <2>4
  <2> QED
    BY <2>2, <2>5
<1>4. Before(d, p, q, r - 1) = t[r - 1] /\ Before(d, p, q, s - 1) = t[s - 1]
  BY <1>1, <1>2 DEF BeforeAre
<1>5. i \in Nat \ {0} /\ j \in Nat \ {0}
  BY CallsOK, FlowNat
<1>6. ~(r < s)
  BY <1>3, <1>4, <1>5
<1>7. ~(s < r)
  <2>1. s < r => t[s - 1] + j # t[r - 1] + i
    BY <1>3, <1>5
  <2> QED
    BY <1>4, <2>1
<1>8. r = s
  BY <1>2, <1>6, <1>7
<1>9. t[r - 1] \in Nat
  BY <1>1, <1>2 DEF BeforeAre
<1>10. PICK u : u = t[r - 1]
  OBVIOUS
<1>11. u + i = u + j
  BY <1>4, <1>8, <1>10
<1> QED
  BY <1>5, <1>8, <1>9, <1>10, <1>11

-----------------------------------------------------------------------------
(* One more operation of a task.                                           *)

(* The call a party is in.                                                 *)
LEMMA Here ==
    ASSUME Shapes, NEW p \in Parties, call[p] <= LastCall(net)
    PROVE  /\ M \in Nat /\ M >= 2 /\ p \in 0 .. M - 1 /\ Parties = 0 .. M - 1
           /\ call[p] \in 1 .. LastCall(net)
           /\ IsCall(CallAt(call[p]), M)
           /\ PlanOK(CallAt(call[p]), M, p, Plan(p, call[p]))
<1>1. net \in DOMAIN Deployments /\ call[p] \in 1 .. LastCall(net) + 1
  BY DEF Shapes
<1>2. /\ M \in Nat /\ M >= 2 /\ LastCall(net) \in Nat
      /\ \A r \in 1 .. LastCall(net) : IsCall(CallAt(r), M)
  BY <1>1, CallsOK DEF M, CallAt
<1>3. call[p] \in 1 .. LastCall(net)
  BY <1>1, <1>2
<1>4. Parties = 0 .. M - 1
  BY DEF Parties, M
<1>5. PlanOK(CallAt(call[p]), M, p, Stages(CallAt(call[p]), M, p))
  BY <1>2, <1>3, <1>4, PlanRight
<1> QED
  BY <1>2, <1>3, <1>4, <1>5 DEF Plan, CallAt, M

(* The operation a task is about to do.                                    *)
OpHere(p, k) ==
    LET c    == CallAt(call[p])
        task == Plan(p, call[p])[stage[p]][k]
        op   == CurrentOp(p, k)
        x    == Done(p, k)
    IN  /\ stage[p] \in 1 .. Len(Plan(p, call[p]))
        /\ k \in DOMAIN Plan(p, call[p])[stage[p]] /\ k \in DOMAIN todo[p]
        /\ x \in Nat /\ x + 1 \in 1 .. Len(task) /\ op = task[x + 1]
        /\ op \in Ops(c, M) /\ op.peer \in Parties
        /\ OpOK(c, M, p, stage[p], k, x + 1, op)

(* The next operation of a live task.                                      *)
LEMMA OpIs ==
    ASSUME IInv, NEW p \in Parties, NEW k, Live(p, k)
    PROVE  call[p] <= LastCall(net) /\ OpHere(p, k)
<1> DEFINE c    == CallAt(call[p])
           plan == Plan(p, call[p])
           task == plan[stage[p]][k]
           left == todo[p][k]
<1>1. k \in DOMAIN todo[p] /\ left # << >> /\ status[p] = "run"
  BY DEF Live, Running, Ended
<1>2. Shapes /\ TodoOK(p)
  BY DEF IInv
<1>3. LastCall(net) \in Nat
  BY <1>2, CallsOK DEF Shapes
<1>4. call[p] <= LastCall(net)
  BY <1>1, <1>2, <1>3 DEF TodoOK, Shapes
<1>5. /\ M \in Nat /\ p \in 0 .. M - 1 /\ Parties = 0 .. M - 1
      /\ PlanOK(c, M, p, plan)
  BY <1>2, <1>4, Here
<1>6. /\ stage[p] \in 1 .. Len(plan) /\ k \in DOMAIN plan[stage[p]]
      /\ left \in Seq(Ops(c, M)) /\ Len(left) <= Len(task)
      /\ \A i \in 1 .. Len(left) : left[i] = task[Done(p, k) + i]
      /\ Done(p, k) = Len(task) - Len(left)
  BY <1>1, <1>2, <1>4 DEF TodoOK, Done
<1>7. task \in Seq(Ops(c, M))
  BY <1>5, <1>6 DEF PlanOK, IsPlan
<1> HIDE DEF c, plan, task, left
<1>8. /\ Len(left) \in Nat /\ Len(left) >= 1 /\ Len(task) \in Nat
      /\ Head(left) = left[1] /\ Head(left) \in Ops(c, M)
  <2>1. PICK S : S = Ops(c, M)
    OBVIOUS
  <2>2. left \in Seq(S) /\ task \in Seq(S)
    BY <1>6, <1>7, <2>1
  <2>3. Len(left) \in Nat /\ Len(left) >= 1 /\ Head(left) = left[1] /\ Head(left) \in S
    BY <1>1, <2>2
  <2> QED
    BY <2>1, <2>2, <2>3
<1>9. Done(p, k) \in Nat /\ Done(p, k) + 1 \in 1 .. Len(task)
  BY <1>6, <1>8
<1>10. Head(left) = task[Done(p, k) + 1]
  BY <1>6, <1>8
<1>11. Head(left).peer \in 0 .. M - 1
  BY <1>8 DEF Ops
<1>12. OpOK(c, M, p, stage[p], k, Done(p, k) + 1, Head(left))
  <2>1. \A x \in 1 .. Len(task) : OpOK(c, M, p, stage[p], k, x, task[x])
    BY <1>5, <1>6 DEF PlanOK, task
  <2> QED
    BY <1>9, <1>10, <2>1
<1> QED
  BY <1>1, <1>4, <1>5, <1>6, <1>8, <1>9, <1>10, <1>11, <1>12
  DEF OpHere, CurrentOp, c, plan, task, left

(* Nothing changes for a party that does nothing.                          *)
LEMMA ProgressStays ==
    ASSUME NEW p, NEW d, NEW q, net' = net, call'[p] = call[p], stage'[p] = stage[p],
           \A k : Done(p, k)' = Done(p, k)
    PROVE  Progress(p, d, q)' = Progress(p, d, q)
BY DEF Progress, CallAt, M

(* An operation is a step of one flow.                                     *)
OneMore(p, k) ==
    /\ todo' = [todo EXCEPT ![p][k] = Tail(@)]
    /\ net' = net /\ call' = call /\ stage' = stage

(* One operation less is one more done.                                    *)
LEMMA DoneNext ==
    ASSUME IInv, NEW p \in Parties, NEW k, Live(p, k), OneMore(p, k)
    PROVE  /\ Done(p, k)' = Done(p, k) + 1
           /\ \A a \in Parties : \A j : <<a, j>> # <<p, k>> =>
                 Done(a, j)' = Done(a, j) /\ todo'[a][j] = todo[a][j]
           /\ todo'[p][k] = Tail(todo[p][k])
           /\ DOMAIN todo' = Parties
           /\ \A a \in Parties : DOMAIN todo'[a] = DOMAIN todo[a]
<1>1. OpHere(p, k) /\ Shapes /\ TodoOK(p) /\ call[p] <= LastCall(net)
  BY OpIs DEF IInv
<1>2. k \in DOMAIN todo[p] /\ todo[p][k] # << >> /\ todo[p][k] \in Seq(Ops(CallAt(call[p]), M))
  BY <1>1 DEF OpHere, TodoOK, Live, Ended
<1>3. DOMAIN todo = Parties
  BY <1>1 DEF Shapes
<1>4. /\ todo'[p][k] = Tail(todo[p][k]) /\ DOMAIN todo' = Parties
      /\ \A a \in Parties : DOMAIN todo'[a] = DOMAIN todo[a]
      /\ \A a \in Parties : \A j : <<a, j>> # <<p, k>> => todo'[a][j] = todo[a][j]
  BY <1>2, <1>3 DEF OneMore
<1>5. PICK S, t : S = Ops(CallAt(call[p]), M) /\ t = todo[p][k]
  OBVIOUS
<1>6. Len(Tail(t)) = Len(t) - 1 /\ Len(t) \in Nat
  <2>1. t \in Seq(S) /\ t # << >>
    BY <1>2, <1>5
  <2> QED
    BY <2>1
<1>7. PICK n, m : n = Len(Plan(p, call[p])[stage[p]][k]) /\ m = Len(t)
  OBVIOUS
<1>8. n \in Nat
  <2>1. Done(p, k) = n - m /\ Done(p, k) \in Nat /\ Done(p, k) + 1 \in 1 .. n
    BY <1>1, <1>5, <1>7 DEF OpHere, Done
  <2> QED
    BY <1>6, <1>7, <2>1
<1>9. Done(p, k)' = n - Len(todo'[p][k])
  BY <1>7 DEF Done, Plan, OneMore
<1>10. Done(p, k) = n - m
  BY <1>5, <1>7 DEF Done
<1>11. Done(p, k)' = Done(p, k) + 1
  <2>1. Len(todo'[p][k]) = m - 1 /\ m \in Nat
    BY <1>4, <1>5, <1>6, <1>7
  <2>2. PICK a, b, e : a = Done(p, k) /\ b = Done(p, k)' /\ e = Len(todo'[p][k])
    OBVIOUS
  <2>3. a = n - m /\ b = n - e /\ e = m - 1
    BY <1>9, <1>10, <2>1, <2>2
  <2>4. b = a + 1
    BY <1>8, <2>1, <2>3
  <2> QED
    BY <2>2, <2>4
<1>12. \A a \in Parties : \A j : <<a, j>> # <<p, k>> => Done(a, j)' = Done(a, j)
  BY <1>4 DEF Done, Plan, OneMore
<1> QED
  BY <1>4, <1>11, <1>12

(* That operation moves its flow by one, and no other.                     *)
LEMMA ProgressNext ==
    ASSUME IInv, NEW p \in Parties, NEW k, Live(p, k), OneMore(p, k),
           NEW a \in Parties, NEW d \in {"send", "recv"}, NEW b \in Parties
    PROVE  Progress(a, d, b)' =
             IF a = p /\ d = CurrentOp(p, k).dir /\ b = CurrentOp(p, k).peer
             THEN Progress(a, d, b) + 1 ELSE Progress(a, d, b)
<1>1. OpHere(p, k) /\ Shapes /\ TodoOK(p) /\ call[p] <= LastCall(net)
  BY OpIs DEF IInv
<1>2. /\ Done(p, k)' = Done(p, k) + 1
      /\ \A e \in Parties : \A j : <<e, j>> # <<p, k>> => Done(e, j)' = Done(e, j)
  BY DoneNext
<1>3. net' = net /\ call' = call /\ stage' = stage
  BY DEF OneMore
<1>4. CASE a # p
  <2>1. \A j : Done(a, j)' = Done(a, j)
    BY <1>2, <1>4
  <2> QED
    BY <1>3, <1>4, <2>1, ProgressStays
<1>5. CASE a = p
  <2>0. PICK c, n, op, x, T, S :
          /\ c = CallAt(call[p]) /\ n = M /\ op = CurrentOp(p, k) /\ x = Done(p, k)
          /\ T = TaskOf(c, n, p, d, b) /\ S = StageOf(c, n, p, d, b)
    OBVIOUS
  <2>1. /\ n \in Nat /\ b \in 0 .. n - 1 /\ IsCall(c, n)
        /\ PlanOK(c, n, p, Plan(p, call[p])) /\ call[p] \in 1 .. LastCall(net)
    BY <1>1, <2>0, Here
  <2>2. Linked(c, n, p, b) => FlowOK(c, n, p, d, b, Plan(p, call[p]))
    BY <2>1 DEF PlanOK
  <2>3. /\ OpOK(c, n, p, stage[p], k, x + 1, op)
        /\ x \in Nat /\ stage[p] \in 1 .. Len(Plan(p, call[p]))
        /\ op.dir \in {"send", "recv"} /\ op.peer \in 0 .. n - 1
    BY <1>1, <2>0 DEF OpHere, Ops
  <2>4. Progress(p, d, b) =
          IF call[p] > LastCall(net) \/ ~Linked(c, n, p, b) \/ stage[p] < S THEN 0
          ELSE IF stage[p] > S THEN FlowVolume(c, n, p, d, b)
          ELSE Count(c, n, p, d, b, Done(p, T))
    BY <2>0 DEF Progress
  <2>5. Progress(p, d, b)' =
          IF call[p] > LastCall(net) \/ ~Linked(c, n, p, b) \/ stage[p] < S THEN 0
          ELSE IF stage[p] > S THEN FlowVolume(c, n, p, d, b)
          ELSE Count(c, n, p, d, b, Done(p, T)')
    <3>1. CallAt(call[p])' = c /\ M' = n
      BY <1>3, <2>0 DEF CallAt, M
    <3> QED
      BY <1>3, <2>0, <3>1 DEF Progress
  <2>6. Linked(c, n, p, b) => S \in 1 .. Len(Plan(p, call[p]))
    BY <2>0, <2>2 DEF FlowOK
  <2>7. CASE d = op.dir /\ b = op.peer
    <3>1. /\ Linked(c, n, p, b) /\ S = stage[p] /\ T = k
          /\ Count(c, n, p, d, b, x + 1) = Count(c, n, p, d, b, (x + 1) - 1) + 1
      BY <2>0, <2>3, <2>7 DEF OpOK
    <3>2. (x + 1) - 1 = x
      BY <2>3
    <3>3. ~(call[p] > LastCall(net)) /\ ~(stage[p] < S) /\ ~(stage[p] > S)
      <4>1. LastCall(net) \in Nat
        BY <1>1, CallsOK DEF Shapes
      <4> QED
        BY <2>1, <2>3, <3>1, <4>1
    <3> QED
      BY <1>2, <1>5, <2>0, <2>4, <2>5, <2>7, <3>1, <3>2, <3>3
  <2>8. CASE ~(d = op.dir /\ b = op.peer)
    <3>1. CASE Linked(c, n, p, b) /\ S = stage[p] /\ T = k
      <4>1. <<d, b>> # <<op.dir, op.peer>>
        BY <2>8
      <4>2. Count(c, n, p, d, b, x + 1) = Count(c, n, p, d, b, (x + 1) - 1)
        <5>1. \A e \in {"send", "recv"}, r \in 0 .. n - 1 :
                /\ Linked(c, n, p, r) /\ <<e, r>> # <<op.dir, op.peer>>
                /\ StageOf(c, n, p, e, r) = stage[p] /\ TaskOf(c, n, p, e, r) = k
                => Count(c, n, p, e, r, x + 1) = Count(c, n, p, e, r, (x + 1) - 1)
          BY <2>3 DEF OpOK
        <5>2. StageOf(c, n, p, d, b) = stage[p] /\ TaskOf(c, n, p, d, b) = k
          BY <2>0, <3>1
        <5> QED
          BY <2>1, <3>1, <4>1, <5>1, <5>2
      <4>3. (x + 1) - 1 = x
        BY <2>3
      <4> QED
        BY <1>2, <1>5, <2>0, <2>4, <2>5, <2>8, <3>1, <4>2, <4>3
    <3>2. CASE Linked(c, n, p, b) /\ S = stage[p] /\ T # k
      <4>1. Done(p, T)' = Done(p, T)
        BY <1>2, <3>2
      <4> QED
        BY <1>5, <2>0, <2>4, <2>5, <2>8, <3>2, <4>1
    <3>3. CASE ~Linked(c, n, p, b) \/ S # stage[p]
      <4>1. ~Linked(c, n, p, b) \/ stage[p] < S \/ stage[p] > S
        BY <2>3, <2>6, <3>3
      <4>2. ~(stage[p] < S /\ stage[p] > S) \/ ~Linked(c, n, p, b)
        BY <2>3, <2>6
      <4>3. Progress(p, d, b)' = Progress(p, d, b)
        BY <2>4, <2>5, <4>1, <4>2
      <4> QED
        BY <1>5, <2>0, <2>8, <4>3
    <3> QED
      BY <3>1, <3>2, <3>3
  <2> QED
    BY <2>7, <2>8
<1> QED
  BY <1>4, <1>5

(* The tasks go on.                                                        *)
LEMMA TodoNext ==
    ASSUME IInv, NEW p \in Parties, NEW k, Live(p, k), OneMore(p, k),
           status' = status, broken' = broken, NEW a \in Parties
    PROVE  TodoOK(a)'
<1>1. /\ Done(p, k)' = Done(p, k) + 1
      /\ \A e \in Parties : \A j : <<e, j>> # <<p, k>> =>
            Done(e, j)' = Done(e, j) /\ todo'[e][j] = todo[e][j]
      /\ todo'[p][k] = Tail(todo[p][k])
      /\ \A e \in Parties : DOMAIN todo'[e] = DOMAIN todo[e]
  BY DoneNext
<1>2. TodoOK(a) /\ OpHere(p, k)
  BY OpIs DEF IInv
<1>3. PICK S, plan, left, L, task :
        /\ S = Ops(CallAt(call[a]), M) /\ plan = Plan(a, call[a]) /\ L = LastCall(net)
        /\ left = todo[p][k] /\ task = Plan(p, call[p])[stage[p]][k]
  OBVIOUS
<1>4. S = Ops(CallAt(call[a]), M)' /\ plan = Plan(a, call[a])' /\ L = LastCall(net)'
  BY <1>3 DEF OneMore, CallAt, M, Plan
<1>5. SUFFICES
        /\ status[a] = "done" <=> call[a] = L + 1
        /\ call[a] <= L =>
             /\ stage[a] \in 1 .. Len(plan)
             /\ DOMAIN todo'[a] = DOMAIN plan[stage[a]]
             /\ broken[a] \subseteq DOMAIN todo'[a]
             /\ \A j \in DOMAIN todo'[a] :
                  /\ todo'[a][j] \in Seq(S)
                  /\ Len(todo'[a][j]) <= Len(plan[stage[a]][j])
                  /\ \A i \in 1 .. Len(todo'[a][j]) :
                       todo'[a][j][i] = plan[stage[a]][j][Done(a, j)' + i]
  BY <1>4 DEF OneMore, TodoOK
<1>6. /\ status[a] = "done" <=> call[a] = L + 1
      /\ call[a] <= L =>
             /\ stage[a] \in 1 .. Len(plan)
             /\ DOMAIN todo[a] = DOMAIN plan[stage[a]]
             /\ broken[a] \subseteq DOMAIN todo[a]
             /\ \A j \in DOMAIN todo[a] :
                  /\ todo[a][j] \in Seq(S)
                  /\ Len(todo[a][j]) <= Len(plan[stage[a]][j])
                  /\ \A i \in 1 .. Len(todo[a][j]) :
                       todo[a][j][i] = plan[stage[a]][j][Done(a, j) + i]
  BY <1>2, <1>3 DEF TodoOK
<1>7. ASSUME call[a] <= L, NEW j \in DOMAIN todo'[a]
      PROVE  /\ todo'[a][j] \in Seq(S)
             /\ Len(todo'[a][j]) <= Len(plan[stage[a]][j])
             /\ \A i \in 1 .. Len(todo'[a][j]) :
                  todo'[a][j][i] = plan[stage[a]][j][Done(a, j)' + i]
  <2>1. j \in DOMAIN todo[a]
    BY <1>1
  <2>2. CASE <<a, j>> # <<p, k>>
    BY <1>1, <1>6, <1>7, <2>1, <2>2
  <2>3. CASE a = p /\ j = k
    <3>1. /\ left \in Seq(S) /\ Len(left) <= Len(task)
          /\ \A i \in 1 .. Len(left) : left[i] = task[Done(p, k) + i]
          /\ task = plan[stage[a]][j]
      BY <1>3, <1>6, <1>7, <2>1, <2>3
    <3>2. left # << >> /\ todo'[p][k] = Tail(left)
      BY <1>1, <1>3 DEF Live, Ended
    <3>3. PICK x : x = Done(p, k) /\ x + 1 = Done(p, k)'
      BY <1>1
    <3>4. x \in Nat /\ x + 1 \in 1 .. Len(task)
      BY <1>2, <1>3, <3>3 DEF OpHere
    <3>5. /\ Len(left) \in Nat /\ Len(Tail(left)) = Len(left) - 1 /\ Tail(left) \in Seq(S)
          /\ \A i \in 1 .. Len(left) - 1 : Tail(left)[i] = left[i + 1]
      BY <3>1, <3>2
    <3>6. ASSUME NEW i \in 1 .. Len(Tail(left)) PROVE Tail(left)[i] = task[(x + 1) + i]
      <4>1. i + 1 \in 1 .. Len(left) /\ i \in 1 .. Len(left) - 1
        BY <3>5
      <4>2. x + (i + 1) = (x + 1) + i
        BY <3>4
      <4> QED
        BY <3>1, <3>3, <3>5, <4>1, <4>2
    <3>7. Len(Tail(left)) <= Len(task)
      <4>1. PICK u, v : u = Len(left) /\ v = Len(task)
        OBVIOUS
      <4>2. u \in Nat /\ u <= v /\ v \in Int
        <5>1. Done(p, k) = Len(task) - Len(left)
          BY <1>3 DEF Done
        <5>2. v \in Nat
          <6>1. task \in Seq(Ops(CallAt(call[p]), M))
            BY <1>2, <1>3, OpIs, Here DEF IInv, PlanOK, IsPlan, OpHere
          <6> QED
            BY <4>1, <6>1
        <5> QED
          BY <3>1, <3>4, <3>5, <4>1, <5>2
      <4> QED
        BY <3>5, <4>1, <4>2
    <3> QED
      BY <2>3, <3>1, <3>2, <3>3, <3>5, <3>6, <3>7
  <2> QED
    BY <2>2, <2>3
<1> QED
  BY <1>1, <1>6, <1>7

(* How far a flow can be.                                                  *)
DirFlow(c, n, p, dir, q) == IF dir = "send" THEN FlowOf(c, n, p, q) ELSE FlowOf(c, n, q, p)

(* The progress of a flow in its task.                                     *)
LEMMA ProgressIs ==
    ASSUME IInv, NEW p \in Parties, NEW d \in {"send", "recv"}, NEW q \in Parties
    PROVE  /\ Progress(p, d, q) \in Nat
           /\ call[p] <= LastCall(net)
                 => Progress(p, d, q) <= DirFlow(CallAt(call[p]), M, p, d, q)
           /\ call[p] > LastCall(net) => Progress(p, d, q) = 0
<1>1. Shapes /\ TodoOK(p) /\ LastCall(net) \in Nat /\ call[p] \in Nat
  <2>1. Shapes /\ TodoOK(p)
    BY DEF IInv
  <2>2. LastCall(net) \in Nat
    BY <2>1, CallsOK DEF Shapes
  <2>3. call[p] \in 1 .. LastCall(net) + 1
    BY <2>1 DEF Shapes
  <2> QED
    BY <2>1, <2>2, <2>3
<1>2. CASE call[p] > LastCall(net)
  BY <1>1, <1>2 DEF Progress
<1>3. CASE call[p] <= LastCall(net)
  <2>0. PICK c, n, T, S, V :
          /\ c = CallAt(call[p]) /\ n = M /\ T = TaskOf(c, n, p, d, q)
          /\ S = StageOf(c, n, p, d, q) /\ V = FlowVolume(c, n, p, d, q)
    OBVIOUS
  <2>1. /\ n \in Nat /\ q \in 0 .. n - 1 /\ p \in 0 .. n - 1 /\ IsCall(c, n)
        /\ PlanOK(c, n, p, Plan(p, call[p])) /\ call[p] \in 1 .. LastCall(net)
    BY <1>1, <1>3, <2>0, Here
  <2>2. Progress(p, d, q) =
          IF call[p] > LastCall(net) \/ ~Linked(c, n, p, q) \/ stage[p] < S THEN 0
          ELSE IF stage[p] > S THEN V
          ELSE Count(c, n, p, d, q, Done(p, T))
    BY <2>0 DEF Progress
  <2>3. FlowOf(c, n, p, q) \in Nat /\ FlowOf(c, n, q, p) \in Nat
    BY <2>1, FlowNat
  <2>4. CASE ~Linked(c, n, p, q)
    BY <1>1, <1>3, <2>0, <2>2, <2>3, <2>4 DEF DirFlow
  <2>5. CASE Linked(c, n, p, q)
    <3>1. FlowOK(c, n, p, d, q, Plan(p, call[p]))
      BY <2>1, <2>5 DEF PlanOK
    <3>2. /\ S \in 1 .. Len(Plan(p, call[p])) /\ T \in DOMAIN Plan(p, call[p])[S] /\ V \in Nat
          /\ \A x \in 0 .. Len(Plan(p, call[p])[S][T]) : Count(c, n, p, d, q, x) \in 0 .. V
      BY <2>0, <3>1 DEF FlowOK
    <3>3. V = DirFlow(c, n, p, d, q)
      <4>1. Linked(c, n, q, p)
        BY <2>1, <2>5, LinkedBoth
      <4> QED
        BY <2>0, <2>5, <4>1 DEF DirFlow, FlowOf, FlowVolume
    <3>4. ASSUME stage[p] = S PROVE Count(c, n, p, d, q, Done(p, T)) \in 0 .. V
      <4>1. PICK u, v : u = Len(todo[p][T]) /\ v = Len(Plan(p, call[p])[S][T])
        OBVIOUS
      <4>2. T \in DOMAIN todo[p] /\ todo[p][T] \in Seq(Ops(c, n)) /\ u <= v
        BY <1>1, <1>3, <2>0, <3>2, <3>4, <4>1 DEF TodoOK
      <4>3. Plan(p, call[p])[S][T] \in Seq(Ops(c, n))
        BY <2>1, <3>2 DEF PlanOK, IsPlan
      <4>4. u \in Nat /\ v \in Nat
        BY <4>1, <4>2, <4>3
      <4>5. Done(p, T) = v - u
        BY <3>4, <4>1 DEF Done
      <4>6. Done(p, T) \in 0 .. v
        BY <4>2, <4>4, <4>5
      <4> QED
        BY <3>2, <4>1, <4>6
    <3>5. stage[p] \in Nat /\ S \in Nat /\ ~(call[p] > LastCall(net))
      <4>1. Len(Plan(p, call[p])) \in Nat
        BY <2>1 DEF PlanOK, IsPlan
      <4> QED
        BY <1>1, <1>3, <3>2, <4>1 DEF Shapes
    <3>6. Progress(p, d, q) \in 0 .. V
      <4>1. CASE stage[p] < S
        BY <2>2, <3>2, <4>1
      <4>2. CASE stage[p] > S
        BY <2>2, <2>5, <3>2, <3>5, <4>2
      <4>3. CASE stage[p] = S
        BY <2>2, <2>5, <3>4, <3>5, <4>3
      <4> QED
        BY <3>5, <4>1, <4>2, <4>3
    <3> QED
      BY <1>3, <2>0, <3>2, <3>3, <3>5, <3>6
  <2> QED
    BY <2>4, <2>5
<1> QED
  BY <1>1, <1>2, <1>3

(* The next segment of a flow, and its place among those of all calls.     *)
LEMMA NextSegment ==
    ASSUME IInv, NEW p \in Parties, NEW k, Live(p, k), NEW op, op = CurrentOp(p, k),
           NEW c, c = CallAt(call[p]), NEW i, i = Progress(p, op.dir, op.peer) + 1
    PROVE  /\ i \in Nat /\ i >= 1
           /\ op.dir = "send" =>
                /\ i \in 1 .. FlowOf(c, M, p, op.peer)
                /\ About(op.kind, op.owner, op.piece) = Segment(c, M, p, op.peer, i)
                /\ Written(p, op.peer) + 1 = Before(net, p, op.peer, call[p] - 1) + i
           /\ op.dir = "recv" =>
                /\ i \in 1 .. FlowOf(c, M, op.peer, p)
                /\ About(op.kind, op.owner, op.piece) = Segment(c, M, op.peer, p, i)
                /\ Taken(p, op.peer) + 1 = Before(net, op.peer, p, call[p] - 1) + i
<1>1. OpHere(p, k) /\ call[p] <= LastCall(net) /\ Shapes
  BY OpIs DEF IInv
<1>2. PICK n, x, q, d :
        n = M /\ x = Done(p, k) /\ q = op.peer /\ d = op.dir
  OBVIOUS
<1>3. /\ n \in Nat /\ q \in 0 .. n - 1 /\ p \in 0 .. n - 1 /\ IsCall(c, n)
      /\ PlanOK(c, n, p, Plan(p, call[p])) /\ call[p] \in 1 .. LastCall(net)
  BY <1>1, <1>2, Here DEF OpHere
<1>4. OpOK(c, n, p, stage[p], k, x + 1, op) /\ x \in Nat /\ d \in {"send", "recv"}
  BY <1>1, <1>2 DEF OpHere, Ops
<1>5. /\ Linked(c, n, p, q) /\ stage[p] = StageOf(c, n, p, d, q) /\ k = TaskOf(c, n, p, d, q)
      /\ Count(c, n, p, d, q, x + 1) = Count(c, n, p, d, q, (x + 1) - 1) + 1
      /\ About(op.kind, op.owner, op.piece)
           = FlowSegment(c, n, p, d, q, Count(c, n, p, d, q, x + 1))
  BY <1>2, <1>4 DEF OpOK
<1>6. (x + 1) - 1 = x
  BY <1>4
<1>7. Progress(p, d, q) = Count(c, n, p, d, q, x)
  <2>1. ~(call[p] > LastCall(net)) /\ ~(stage[p] < stage[p]) /\ ~(stage[p] > stage[p])
    <3>1. LastCall(net) \in Nat
      BY <1>1, CallsOK DEF Shapes
    <3>2. stage[p] \in Nat
      BY <1>1 DEF Shapes
    <3> QED
      BY <1>3, <3>1, <3>2
  <2> QED
    BY <1>2, <1>5, <2>1 DEF Progress
<1>8. i = Count(c, n, p, d, q, x + 1)
  BY <1>2, <1>5, <1>6, <1>7
<1>9. Progress(p, d, q) \in Nat
  BY <1>1, <1>2, <1>4, ProgressIs DEF OpHere
<1>10. i \in Nat /\ i >= 1
  BY <1>2, <1>9
<1>11. Linked(c, n, q, p)
  BY <1>3, <1>5, LinkedBoth
<1>12. i <= FlowVolume(c, n, p, d, q)
  <2>1. FlowOK(c, n, p, d, q, Plan(p, call[p]))
    BY <1>3, <1>4, <1>5 DEF PlanOK
  <2>2. PICK V, t : V = FlowVolume(c, n, p, d, q) /\ t = Len(Plan(p, call[p])[stage[p]][k])
    OBVIOUS
  <2>3. V \in Nat /\ \A y \in 0 .. t : Count(c, n, p, d, q, y) \in 0 .. V
    BY <1>5, <2>1, <2>2 DEF FlowOK
  <2>4. x + 1 \in 1 .. t
    BY <1>1, <1>2, <2>2 DEF OpHere
  <2>5. x + 1 \in 0 .. t
    BY <1>4, <2>4
  <2> QED
    BY <1>8, <2>2, <2>3, <2>5
<1>13. net \in DOMAIN Deployments /\ LastCall(net) \in Nat
  BY <1>1, CallsOK DEF Shapes
<1>14. ASSUME d = "send"
       PROVE  /\ i \in 1 .. FlowOf(c, n, p, q)
              /\ About(op.kind, op.owner, op.piece) = Segment(c, n, p, q, i)
              /\ Written(p, q) + 1 = Before(net, p, q, call[p] - 1) + i
  <2>1. FlowVolume(c, n, p, d, q) = FlowOf(c, n, p, q) /\ FlowOf(c, n, p, q) \in Nat
    BY <1>3, <1>5, <1>14, FlowNat DEF FlowVolume, FlowOf
  <2>2. About(op.kind, op.owner, op.piece) = Segment(c, n, p, q, i)
    BY <1>5, <1>8, <1>14 DEF FlowSegment
  <2>3. Before(net, p, q, call[p] - 1) \in Nat
    BY <1>2, <1>3, <1>13, BeforeNat DEF M
  <2>4. PICK w, b : w = Progress(p, d, q) /\ b = Before(net, p, q, call[p] - 1)
    OBVIOUS
  <2>5. Written(p, q) = b + w
    BY <1>14, <2>4 DEF Written
  <2>6. (b + w) + 1 = b + (w + 1)
    BY <1>9, <2>3, <2>4
  <2>7. i = w + 1
    BY <1>2, <2>4
  <2> QED
    BY <1>10, <1>12, <2>1, <2>2, <2>4, <2>5, <2>6, <2>7
<1>15. ASSUME d = "recv"
       PROVE  /\ i \in 1 .. FlowOf(c, n, q, p)
              /\ About(op.kind, op.owner, op.piece) = Segment(c, n, q, p, i)
              /\ Taken(p, q) + 1 = Before(net, q, p, call[p] - 1) + i
  <2>1. FlowVolume(c, n, p, d, q) = FlowOf(c, n, q, p) /\ FlowOf(c, n, q, p) \in Nat
    BY <1>3, <1>11, <1>15, FlowNat DEF FlowVolume, FlowOf
  <2>2. About(op.kind, op.owner, op.piece) = Segment(c, n, q, p, i)
    BY <1>5, <1>8, <1>15 DEF FlowSegment
  <2>3. Before(net, q, p, call[p] - 1) \in Nat
    BY <1>2, <1>3, <1>13, BeforeNat DEF M
  <2>4. PICK w, b : w = Progress(p, d, q) /\ b = Before(net, q, p, call[p] - 1)
    OBVIOUS
  <2>5. Taken(p, q) = b + w
    BY <1>15, <2>4 DEF Taken
  <2>6. (b + w) + 1 = b + (w + 1)
    BY <1>9, <2>3, <2>4
  <2>7. i = w + 1
    BY <1>2, <2>4
  <2> QED
    BY <1>10, <1>12, <2>1, <2>2, <2>4, <2>5, <2>6, <2>7
<1> QED
  BY <1>2, <1>10, <1>14, <1>15

(* What the operation op of p adds to what a has written to b, and taken.  *)
TotalsMove(p, op, a, b) ==
    /\ Written(a, b) \in Nat /\ Taken(a, b) \in Nat
    /\ Written(a, b)' = IF a = p /\ op.dir = "send" /\ b = op.peer
                        THEN Written(a, b) + 1 ELSE Written(a, b)
    /\ Taken(a, b)' = IF a = p /\ op.dir = "recv" /\ b = op.peer
                      THEN Taken(a, b) + 1 ELSE Taken(a, b)

(* So does what has been written, or taken.                                *)
LEMMA TotalsNext ==
    ASSUME IInv, NEW p \in Parties, NEW k, Live(p, k), OneMore(p, k),
           NEW a \in Parties, NEW b \in Parties, NEW op, op = CurrentOp(p, k)
    PROVE  TotalsMove(p, op, a, b)
<1>1. PICK u, v, w, x, y, z :
        /\ u = Before(net, a, b, call[a] - 1) /\ v = Before(net, b, a, call[a] - 1)
        /\ w = Progress(a, "send", b) /\ x = Progress(a, "recv", b)
        /\ y = Progress(a, "send", b)' /\ z = Progress(a, "recv", b)'
  OBVIOUS
<1>2. u \in Nat /\ v \in Nat
  <2>1. net \in DOMAIN Deployments /\ call[a] \in 1 .. LastCall(net) + 1
    BY DEF IInv, Shapes
  <2>2. a \in 0 .. Size(net) - 1 /\ b \in 0 .. Size(net) - 1
    BY DEF Parties
  <2> QED
    BY <1>1, <2>1, <2>2, BeforeTyped
<1>3. w \in Nat /\ x \in Nat
  BY <1>1, ProgressIs
<1>4. /\ y = IF a = p /\ "send" = op.dir /\ b = op.peer THEN w + 1 ELSE w
      /\ z = IF a = p /\ "recv" = op.dir /\ b = op.peer THEN x + 1 ELSE x
  BY <1>1, ProgressNext
<1>5. Written(a, b) = u + w /\ Taken(a, b) = v + x
  BY <1>1 DEF Written, Taken
<1>6. Written(a, b)' = u + y /\ Taken(a, b)' = v + z
  BY <1>1 DEF Written, Taken, OneMore
<1>7. u + (w + 1) = (u + w) + 1 /\ v + (x + 1) = (v + x) + 1
  BY <1>2, <1>3
<1>8. u + w \in Nat /\ v + x \in Nat
  BY <1>2, <1>3
<1> QED
  BY <1>4, <1>5, <1>6, <1>7, <1>8 DEF TotalsMove

(* A channel stays as it is if its ends do.                                *)
LEMMA ChanStays ==
    ASSUME NEW p, NEW q, ChanOK(p, q), net' = net, chan'[p][q] = chan[p][q],
           Written(p, q)' = Written(p, q), Taken(q, p)' = Taken(q, p)
    PROVE  ChanOK(p, q)'
BY DEF ChanOK, CallAt, M

(* The tag of an operation is that of its segment.                         *)
LEMMA IntendedIs ==
    ASSUME NEW c, NEW n, NEW p, NEW q, NEW i, NEW r, NEW op,
           About(op.kind, op.owner, op.piece) = Segment(c, n, p, q, i)
    PROVE  Intended(op, r) = Tagged(c, n, p, q, i, r)
<1>1. PICK s : s = Segment(c, n, p, q, i)
  OBVIOUS
<1>2. s.kind = op.kind /\ s.owner = op.owner /\ s.piece = op.piece
  BY <1>1 DEF About
<1> QED
  BY <1>1, <1>2 DEF Intended, Tagged

(* A task sends what it is meant to send.                                  *)
LEMMA SendsRight ==
    ASSUME IInv, NEW p \in Parties, NEW k, Live(p, k), NEW op, op = CurrentOp(p, k),
           op.dir = "send", op.kind = "data"
    PROVE  mem[p][op.owner][op.piece] = Intended(op, call[p])
<1>1. OpHere(p, k) /\ call[p] <= LastCall(net) /\ Shapes /\ MemOK(p)
  BY OpIs DEF IInv
<1>2. PICK plan, n, c, x : plan = Plan(p, call[p]) /\ n = M /\ c = CallAt(call[p]) /\ x = Done(p, k)
  OBVIOUS
<1>3. PlanOK(c, n, p, plan)
  BY <1>1, <1>2, Here
<1>4. /\ stage[p] \in 1 .. Len(plan) /\ k \in DOMAIN plan[stage[p]]
      /\ x + 1 \in 1 .. Len(plan[stage[p]][k]) /\ op = plan[stage[p]][k][x + 1]
      /\ OpOK(c, n, p, stage[p], k, x + 1, op)
  BY <1>1, <1>2 DEF OpHere
<1>5. op.piece \in 1 .. c.size
  BY <1>4 DEF OpOK
<1>6. Right(p, op.owner, op.piece)
  <2>1. CASE op.owner = p
    BY <1>1, <1>2, <1>5, <2>1 DEF MemOK
  <2>2. CASE op.owner # p
    <3>1. Receives(plan, stage[p], op.owner, op.piece)
      BY <1>3, <1>4, <2>2 DEF PlanOK, DataOK
    <3>2. PICK t, j, y :
            /\ t \in 1 .. stage[p] - 1 /\ j \in DOMAIN plan[t] /\ y \in 1 .. Len(plan[t][j])
            /\ plan[t][j][y].dir = "recv" /\ plan[t][j][y].kind = "data"
            /\ plan[t][j][y].owner = op.owner /\ plan[t][j][y].piece = op.piece
      BY <3>1 DEF Receives
    <3>3. t \in 1 .. stage[p] /\ t < stage[p]
      <4>1. stage[p] \in Nat
        BY <1>1 DEF Shapes
      <4> QED
        BY <3>2, <4>1
    <3> QED
      BY <1>1, <1>2, <3>2, <3>3 DEF MemOK
  <2> QED
    BY <2>1, <2>2
<1> QED
  BY <1>6 DEF Right, Intended

(* What a task is about to read is what it is meant to read.               *)
LEMMA HeadIs ==
    ASSUME IInv, NEW p \in Parties, NEW k, Live(p, k), NEW op, op = CurrentOp(p, k),
           op.dir = "recv", chan[op.peer][p] # << >>
    PROVE  Head(chan[op.peer][p]) = Intended(op, call[p])
<1>1. OpHere(p, k) /\ call[p] <= LastCall(net) /\ Shapes
  BY OpIs DEF IInv
<1>2. PICK n, c, q, r, i :
        /\ n = M /\ c = CallAt(call[p]) /\ q = op.peer /\ r = call[p]
        /\ i = Progress(p, op.dir, op.peer) + 1
  OBVIOUS
<1>3. q \in Parties /\ r \in 1 .. LastCall(net)
  BY <1>1, <1>2, Here DEF OpHere
<1>4. /\ i \in 1 .. FlowOf(c, n, q, p)
      /\ About(op.kind, op.owner, op.piece) = Segment(c, n, q, p, i)
      /\ Taken(p, q) + 1 = Before(net, q, p, r - 1) + i
  BY <1>2, NextSegment
<1>5. ChanOK(q, p)
  BY <1>3 DEF IInv
<1>6. 1 \in 1 .. Len(chan[q][p]) /\ Head(chan[q][p]) = chan[q][p][1]
  <2>1. chan[q][p] \in Seq(Segments)
    BY <1>1, <1>3 DEF Shapes
  <2>2. chan[q][p] # << >>
    BY <1>2
  <2> QED
    BY <2>1, <2>2
<1>7. chan[q][p][1] = Tagged(c, n, q, p, i, r)
  <2>1. \A s \in 1 .. LastCall(net) : \A j \in 1 .. FlowOf(CallAt(s), M, q, p) :
            Taken(p, q) + 1 = Before(net, q, p, s - 1) + j
              => chan[q][p][1] = Tagged(CallAt(s), M, q, p, j, s)
    BY <1>5, <1>6 DEF ChanOK
  <2> QED
    BY <1>2, <1>3, <1>4, <2>1
<1> QED
  BY <1>2, <1>4, <1>6, <1>7, IntendedIs

(* One more segment behind those of a channel.                             *)
LEMMA ChanAppends ==
    ASSUME IInv, NEW p \in Parties, NEW k, Live(p, k), OneMore(p, k),
           NEW op, op = CurrentOp(p, k), op.dir = "send", Len(chan[p][op.peer]) < Window,
           chan' = [chan EXCEPT ![p][op.peer] = Append(@, Intended(op, call[p]))],
           NEW a \in Parties, NEW b \in Parties
    PROVE  ChanOK(a, b)' /\ chan'[a][b] \in Seq(Segments)
<1>1. OpHere(p, k) /\ call[p] <= LastCall(net) /\ Shapes /\ ChanOK(a, b)
  BY OpIs DEF IInv
<1>2. PICK n, c, q, r, i, s :
        /\ n = M /\ c = CallAt(call[p]) /\ q = op.peer /\ r = call[p]
        /\ i = Progress(p, op.dir, op.peer) + 1 /\ s = Intended(op, r)
  OBVIOUS
<1>3. /\ q \in Parties /\ r \in 1 .. LastCall(net) /\ Parties = 0 .. n - 1
      /\ op \in Ops(c, n) /\ IsCall(c, n) /\ c.size \in Nat
  BY <1>1, <1>2, Here DEF OpHere, IsCall
<1>4. /\ i \in 1 .. FlowOf(c, n, p, q)
      /\ About(op.kind, op.owner, op.piece) = Segment(c, n, p, q, i)
      /\ Written(p, q) + 1 = Before(net, p, q, r - 1) + i
  BY <1>2, NextSegment
<1>5. s \in Segments
  <2>1. r \in Nat
    BY <1>1, <1>3, CallsOK DEF Shapes
  <2>2. op.piece \in Nat
    BY <1>3 DEF Ops
  <2> QED
    BY <1>2, <1>3, <2>1, <2>2 DEF Segments, Intended, Ops
<1>6. /\ Written(a, b) \in Nat /\ Taken(b, a) \in Nat
      /\ Written(a, b)' = IF a = p /\ b = q THEN Written(a, b) + 1 ELSE Written(a, b)
      /\ Taken(b, a)' = Taken(b, a)
  <2>0. TotalsMove(p, op, a, b) /\ TotalsMove(p, op, b, a)
    BY TotalsNext
  <2>1. /\ Written(a, b) \in Nat /\ Taken(b, a) \in Nat
        /\ Written(a, b)' = IF a = p /\ op.dir = "send" /\ b = op.peer
                            THEN Written(a, b) + 1 ELSE Written(a, b)
    BY <2>0 DEF TotalsMove
  <2>2. Taken(b, a)' = IF b = p /\ op.dir = "recv" /\ a = op.peer
                       THEN Taken(b, a) + 1 ELSE Taken(b, a)
    BY <2>0 DEF TotalsMove
  <2>3. Taken(b, a)' = Taken(b, a)
    BY <2>2
  <2> QED
    BY <1>2, <2>1, <2>3
<1>7. PICK ch : ch = chan[a][b]
  OBVIOUS
<1>8. ch \in Seq(Segments)
  BY <1>1, <1>7 DEF Shapes
<1>9. CASE ~(a = p /\ b = q)
  <2>1. chan'[a][b] = chan[a][b]
    BY <1>1, <1>2, <1>9 DEF Shapes
  <2> QED
    BY <1>1, <1>6, <1>7, <1>8, <1>9, <2>1, ChanStays DEF OneMore
<1>10. CASE a = p /\ b = q
  <2>1. chan'[a][b] = Append(ch, s)
    BY <1>1, <1>2, <1>7, <1>10 DEF Shapes
  <2>2. /\ Append(ch, s) \in Seq(Segments) /\ Len(ch) \in Nat
        /\ Len(Append(ch, s)) = Len(ch) + 1 /\ Append(ch, s)[Len(ch) + 1] = s
        /\ \A j \in 1 .. Len(ch) : Append(ch, s)[j] = ch[j]
    BY <1>5, <1>8
  <2>3. PICK m, w, t, v : /\ m = Len(ch) /\ w = Written(a, b) /\ t = Taken(b, a)
                          /\ v = Written(a, b)'
    OBVIOUS
  <2>4. m = w - t /\ m \in Nat /\ w \in Nat /\ t \in Nat /\ v = w + 1
    BY <1>1, <1>6, <1>7, <1>10, <2>2, <2>3 DEF ChanOK
  <2>5. m + 1 = v - t /\ t + (m + 1) = w + 1
    BY <2>4
  <2>6. ASSUME NEW j \in 1 .. m + 1, NEW e \in 1 .. LastCall(net),
               NEW f \in 1 .. FlowOf(CallAt(e), n, a, b),
               t + j = Before(net, a, b, e - 1) + f
        PROVE  Append(ch, s)[j] = Tagged(CallAt(e), n, a, b, f, e)
    <3>1. CASE j = m + 1
      <4>1. Before(net, a, b, e - 1) + f = Before(net, a, b, r - 1) + i
        BY <1>4, <1>10, <2>3, <2>5, <2>6, <3>1
      <4>2. e = r /\ f = i
        <5>1. net \in DOMAIN Deployments /\ a \in 0 .. Size(net) - 1 /\ b \in 0 .. Size(net) - 1
          BY <1>1 DEF Shapes, Parties
        <5>2. /\ f \in 1 .. FlowOf(Deployments[net].calls[e], Size(net), a, b)
              /\ i \in 1 .. FlowOf(Deployments[net].calls[r], Size(net), a, b)
          BY <1>2, <1>4, <1>10 DEF CallAt, M
        <5> QED
          <6>1. r \in 1 .. LastCall(net) /\ e \in 1 .. LastCall(net)
            BY <1>3, <2>6
          <6> QED
            BY <4>1, <5>1, <5>2, <6>1, OnePlace, SMTT(30)
      <4>3. s = Tagged(c, n, p, q, i, r)
        BY <1>2, <1>4, IntendedIs
      <4> QED
        BY <1>2, <1>10, <2>2, <2>3, <3>1, <4>2, <4>3
    <3>2. CASE j # m + 1
      <4>1. j \in 1 .. Len(ch)
        BY <2>3, <2>4, <3>2
      <4>2. ch[j] = Tagged(CallAt(e), n, a, b, f, e)
        BY <1>1, <1>2, <1>7, <2>3, <2>6, <4>1 DEF ChanOK
      <4> QED
        BY <2>2, <4>1, <4>2
    <3> QED
      BY <3>1, <3>2
  <2>7. m + 1 <= Window
    <3>1. m < Window /\ Window \in Nat
      BY <1>2, <1>7, <1>10, <2>3, TaskNetAssumption
    <3> QED
      BY <2>4, <3>1
  <2>8. /\ net' = net /\ LastCall(net)' = LastCall(net) /\ M' = n
        /\ \A e : CallAt(e)' = CallAt(e)
    BY <1>2 DEF OneMore, M, CallAt
  <2>9. PICK new, T, W : new = chan'[a][b] /\ T = Taken(b, a)' /\ W = Written(a, b)'
    OBVIOUS
  <2>10. Len(new) = m + 1 /\ T = t /\ W = v /\ new = Append(ch, s)
    BY <1>6, <2>1, <2>2, <2>3, <2>9
  <2>11. Len(new) <= Window /\ Len(new) = W - T
    BY <2>5, <2>7, <2>10
  <2>12. \A j \in 1 .. Len(new), e \in 1 .. LastCall(net) :
           \A f \in 1 .. FlowOf(CallAt(e), n, a, b) :
              T + j = Before(net, a, b, e - 1) + f
                => new[j] = Tagged(CallAt(e), n, a, b, f, e)
    BY <2>6, <2>10
  <2>13. ChanOK(a, b)'
    BY <2>8, <2>9, <2>11, <2>12 DEF ChanOK
  <2> QED
    BY <2>1, <2>2, <2>13
<1> QED
  BY <1>9, <1>10

(* One segment less in front of those of a channel.                        *)
LEMMA ChanShifts ==
    ASSUME IInv, NEW p \in Parties, NEW k, Live(p, k), OneMore(p, k),
           NEW op, op = CurrentOp(p, k), op.dir = "recv", chan[op.peer][p] # << >>,
           chan' = [chan EXCEPT ![op.peer][p] = Tail(@)],
           NEW a \in Parties, NEW b \in Parties
    PROVE  ChanOK(a, b)' /\ chan'[a][b] \in Seq(Segments)
<1>1. OpHere(p, k) /\ call[p] <= LastCall(net) /\ Shapes /\ ChanOK(a, b)
  BY OpIs DEF IInv
<1>2. PICK n, q : n = M /\ q = op.peer
  OBVIOUS
<1>3. q \in Parties
  BY <1>1, <1>2, Here DEF OpHere
<1>4. /\ Written(a, b) \in Nat /\ Taken(b, a) \in Nat
      /\ Written(a, b)' = Written(a, b)
      /\ Taken(b, a)' = IF a = q /\ b = p THEN Taken(b, a) + 1 ELSE Taken(b, a)
  <2>0. TotalsMove(p, op, a, b) /\ TotalsMove(p, op, b, a)
    BY TotalsNext
  <2>1. Written(a, b) \in Nat /\ Written(a, b)' = Written(a, b)
    BY <2>0 DEF TotalsMove
  <2>2. /\ Taken(b, a) \in Nat
        /\ Taken(b, a)' = IF b = p /\ op.dir = "recv" /\ a = op.peer
                          THEN Taken(b, a) + 1 ELSE Taken(b, a)
    BY <2>0 DEF TotalsMove
  <2> QED
    BY <1>2, <2>1, <2>2
<1>5. PICK ch : ch = chan[a][b]
  OBVIOUS
<1>6. ch \in Seq(Segments)
  BY <1>1, <1>5 DEF Shapes
<1>7. CASE ~(a = q /\ b = p)
  <2>1. chan'[a][b] = chan[a][b]
    <3>1. DOMAIN chan = Parties /\ DOMAIN chan[q] = Parties
      BY <1>1, <1>3 DEF Shapes
    <3>2. chan'[a] = IF a = q THEN [chan[q] EXCEPT ![p] = Tail(chan[q][p])] ELSE chan[a]
      BY <1>2, <3>1
    <3> QED
      BY <1>7, <3>1, <3>2
  <2> QED
    BY <1>1, <1>4, <1>5, <1>6, <1>7, <2>1, ChanStays DEF OneMore
<1>8. CASE a = q /\ b = p
  <2>1. chan'[a][b] = Tail(ch) /\ ch # << >>
    BY <1>1, <1>2, <1>5, <1>8 DEF Shapes
  <2>2. /\ Tail(ch) \in Seq(Segments) /\ Len(ch) \in Nat
        /\ Len(Tail(ch)) = Len(ch) - 1
        /\ \A j \in 1 .. Len(ch) - 1 : Tail(ch)[j] = ch[j + 1]
    BY <1>6, <2>1
  <2>3. PICK m, w, t, v : /\ m = Len(ch) /\ w = Written(a, b) /\ t = Taken(b, a)
                          /\ v = Taken(b, a)'
    OBVIOUS
  <2>4. /\ m = w - t /\ m \in Nat /\ w \in Nat /\ t \in Nat /\ v = t + 1 /\ m <= Window
        /\ Window \in Nat
    BY <1>1, <1>4, <1>5, <1>8, <2>2, <2>3, TaskNetAssumption DEF ChanOK
  <2>5. m - 1 = w - v /\ m - 1 <= Window
    BY <2>4
  <2>6. ASSUME NEW j \in 1 .. m - 1, NEW e \in 1 .. LastCall(net),
               NEW f \in 1 .. FlowOf(CallAt(e), n, a, b),
               v + j = Before(net, a, b, e - 1) + f
        PROVE  Tail(ch)[j] = Tagged(CallAt(e), n, a, b, f, e)
    <3>1. j + 1 \in 1 .. Len(ch) /\ t + (j + 1) = v + j
      <4>1. j \in Int /\ 1 <= j /\ j <= m - 1
        BY <2>4
      <4>2. j + 1 \in 1 .. m /\ t + (j + 1) = v + j
        <5>1. m \in Int /\ t \in Int /\ v = t + 1
          BY <2>4
        <5> QED
          BY <4>1, <5>1
      <4> QED
        BY <2>3, <4>2
    <3>2. t + (j + 1) = Before(net, a, b, e - 1) + f
      BY <2>6, <3>1
    <3>3. ch[j + 1] = Tagged(CallAt(e), n, a, b, f, e)
      BY <1>1, <1>2, <1>5, <2>3, <3>1, <3>2 DEF ChanOK
    <3> QED
      BY <2>2, <2>3, <3>3
  <2>7. /\ net' = net /\ LastCall(net)' = LastCall(net) /\ M' = n
        /\ \A e : CallAt(e)' = CallAt(e)
    BY <1>2 DEF OneMore, M, CallAt
  <2>8. PICK new, T, W : new = chan'[a][b] /\ T = Taken(b, a)' /\ W = Written(a, b)'
    OBVIOUS
  <2>9. Len(new) = m - 1 /\ T = v /\ W = w /\ new = Tail(ch)
    BY <1>4, <2>1, <2>2, <2>3, <2>8
  <2>10. Len(new) <= Window /\ Len(new) = W - T
    BY <2>5, <2>9
  <2>11. \A j \in 1 .. Len(new), e \in 1 .. LastCall(net) :
           \A f \in 1 .. FlowOf(CallAt(e), n, a, b) :
              T + j = Before(net, a, b, e - 1) + f
                => new[j] = Tagged(CallAt(e), n, a, b, f, e)
    BY <2>6, <2>9
  <2>12. ChanOK(a, b)'
    <3>1. Len(chan'[a][b]) <= Window /\ Len(chan'[a][b]) = Written(a, b)' - Taken(b, a)'
      BY <2>8, <2>10
    <3>2. \A j \in 1 .. Len(chan'[a][b]), e \in 1 .. LastCall(net') :
            \A f \in 1 .. FlowOf(CallAt(e)', M', a, b) :
               Taken(b, a)' + j = Before(net', a, b, e - 1) + f
                 => chan'[a][b][j] = Tagged(CallAt(e)', M', a, b, f, e)
      BY <2>7, <2>8, <2>11
    <3> QED
      BY <3>1, <3>2 DEF ChanOK
  <2> QED
    BY <2>1, <2>2, <2>12
<1> QED
  BY <1>7, <1>8

-----------------------------------------------------------------------------
(* The steps.                                                              *)

(* What a task that writes does to a buffer: nothing.                      *)
LEMMA MemAfterWrite ==
    ASSUME IInv, NEW p \in Parties, NEW k, Live(p, k), OneMore(p, k),
           CurrentOp(p, k).dir = "send", mem' = mem, NEW a \in Parties
    PROVE  MemOK(a)'
<1>1. /\ Done(p, k)' = Done(p, k) + 1
      /\ \A e \in Parties : \A j : <<e, j>> # <<p, k>> => Done(e, j)' = Done(e, j)
  BY DoneNext
<1>2. MemOK(a) /\ OpHere(p, k) /\ Shapes
  BY OpIs DEF IInv
<1>3. PICK plan, L, c : plan = Plan(a, call[a]) /\ L = LastCall(net) /\ c = CallAt(call[a])
  OBVIOUS
<1>4. plan = Plan(a, call[a])' /\ L = LastCall(net)' /\ c = CallAt(call[a])' /\ Parties' = Parties
  BY <1>3 DEF OneMore, CallAt, M, Plan, Parties
<1>5. \A o, piece : Right(a, o, piece)' <=> Right(a, o, piece)
  BY DEF Right, OneMore
<1>6. call[a] <= L =>
        /\ \A j \in Parties : DOMAIN mem[a][j] = 1 .. c.size
        /\ \A piece \in 1 .. c.size : Right(a, a, piece)
        /\ \A s \in 1 .. stage[a] : \A j \in DOMAIN plan[s] : \A x \in 1 .. Len(plan[s][j]) :
             LET op == plan[s][j][x]
             IN  op.dir = "recv" /\ op.kind = "data" /\ (s < stage[a] \/ x <= Done(a, j))
                   => Right(a, op.owner, op.piece)
  BY <1>2, <1>3 DEF MemOK
<1>7. ASSUME call[a] <= L, NEW s \in 1 .. stage[a], NEW j \in DOMAIN plan[s],
             NEW x \in 1 .. Len(plan[s][j]), NEW op, op = plan[s][j][x],
             op.dir = "recv", op.kind = "data", s < stage[a] \/ x <= Done(a, j)'
      PROVE  Right(a, op.owner, op.piece)
  <2>1. CASE s < stage[a] \/ x <= Done(a, j)
    BY <1>6, <1>7, <2>1
  <2>2. CASE ~(s < stage[a]) /\ ~(x <= Done(a, j))
    <3>1. <<a, j>> = <<p, k>>
      BY <1>1, <1>7, <2>2
    <3>2. Done(a, j) \in Nat /\ x <= Done(a, j) + 1 /\ x \in Int
      BY <1>1, <1>2, <1>7, <2>2, <3>1 DEF OpHere
    <3>3. x = Done(a, j) + 1
      BY <2>2, <3>2
    <3>4. s = stage[p]
      <4>1. stage[p] \in Nat
        BY <1>2 DEF Shapes
      <4> QED
        BY <2>2, <3>1, <4>1
    <3>5. op = CurrentOp(p, k)
      BY <1>2, <1>3, <1>7, <3>1, <3>3, <3>4 DEF OpHere
    <3> QED
      BY <1>7, <3>5
  <2> QED
    BY <2>1, <2>2
<1>8. call'[a] <= L =>
        /\ \A j \in Parties : DOMAIN mem'[a][j] = 1 .. c.size
        /\ \A piece \in 1 .. c.size : Right(a, a, piece)'
        /\ \A s \in 1 .. stage'[a] : \A j \in DOMAIN plan[s] : \A x \in 1 .. Len(plan[s][j]) :
             LET op == plan[s][j][x]
             IN  op.dir = "recv" /\ op.kind = "data" /\ (s < stage'[a] \/ x <= Done(a, j)')
                   => Right(a, op.owner, op.piece)'
  BY <1>5, <1>6, <1>7 DEF OneMore
<1> QED
  BY <1>3, <1>4, <1>8 DEF MemOK

(* What a task that reads does to it: what is read is right, and the rest  *)
(* stays right.                                                            *)
LEMMA MemAfterRead ==
    ASSUME IInv, NEW p \in Parties, NEW k, Live(p, k), OneMore(p, k),
           NEW op, op = CurrentOp(p, k), op.dir = "recv", chan[op.peer][p] # << >>,
           mem' = IF op.kind = "data"
                  THEN [mem EXCEPT ![p][op.owner][op.piece] = Head(chan[op.peer][p])]
                  ELSE mem,
           NEW a \in Parties
    PROVE  MemOK(a)' /\ DOMAIN mem' = Parties /\ DOMAIN mem'[a] = Parties
<1>1. /\ Done(p, k)' = Done(p, k) + 1
      /\ \A e \in Parties : \A j : <<e, j>> # <<p, k>> => Done(e, j)' = Done(e, j)
  BY DoneNext
<1>2. MemOK(a) /\ OpHere(p, k) /\ Shapes /\ call[p] <= LastCall(net)
  BY OpIs DEF IInv
<1>3. PICK plan, L, c : plan = Plan(a, call[a]) /\ L = LastCall(net) /\ c = CallAt(call[a])
  OBVIOUS
<1>4. plan = Plan(a, call[a])' /\ L = LastCall(net)' /\ c = CallAt(call[a])' /\ Parties' = Parties
  BY <1>3 DEF OneMore, CallAt, M, Plan, Parties
<1>5. Head(chan[op.peer][p]) = Intended(op, call[p])
  BY HeadIs
<1>6. op.kind = "data" =>
        /\ op.owner \in Parties /\ op.owner # p
        /\ op.piece \in 1 .. CallAt(call[p]).size
  <2>1. op \in Ops(CallAt(call[p]), M) /\ OpOK(CallAt(call[p]), M, p, stage[p], k, Done(p, k) + 1, op)
    BY <1>2 DEF OpHere
  <2>2. op.owner \in Parties
    BY <1>2, <2>1, Here DEF Ops
  <2> QED
    BY <2>1, <2>2 DEF OpOK
<1>7. DOMAIN mem' = Parties /\ DOMAIN mem'[a] = Parties
  BY <1>2 DEF Shapes
<1>8. call[a] <= L =>
        /\ \A j \in Parties : DOMAIN mem[a][j] = 1 .. c.size
        /\ \A piece \in 1 .. c.size : Right(a, a, piece)
        /\ \A s \in 1 .. stage[a] : \A j \in DOMAIN plan[s] : \A x \in 1 .. Len(plan[s][j]) :
             LET o == plan[s][j][x]
             IN  o.dir = "recv" /\ o.kind = "data" /\ (s < stage[a] \/ x <= Done(a, j))
                   => Right(a, o.owner, o.piece)
  BY <1>2, <1>3 DEF MemOK
<1>9. call[a] <= L => \A j \in Parties : DOMAIN mem'[a][j] = 1 .. c.size
  BY <1>2, <1>8 DEF Shapes
<1>10. a = p /\ op.kind = "data" => Right(a, op.owner, op.piece)'
  <2>1. ASSUME op.kind = "data" PROVE mem'[p][op.owner][op.piece] = Intended(op, call[p])
    <3>1. op.piece \in DOMAIN mem[p][op.owner]
      <4>1. \A j \in Parties : DOMAIN mem[p][j] = 1 .. CallAt(call[p]).size
        BY <1>2 DEF IInv, MemOK
      <4> QED
        BY <1>6, <2>1, <4>1
    <3>2. op.owner \in DOMAIN mem[p] /\ p \in DOMAIN mem
      BY <1>2, <1>6, <2>1 DEF Shapes
    <3> QED
      BY <1>5, <2>1, <3>1, <3>2
  <2> QED
    BY <2>1 DEF Right, Intended, OneMore
<1>11. ASSUME call[a] <= L, NEW o \in Parties, NEW piece \in 1 .. c.size, Right(a, o, piece)
       PROVE  Right(a, o, piece)'
  <2>1. CASE a = p /\ op.kind = "data" /\ o = op.owner /\ piece = op.piece
    BY <1>10, <2>1
  <2>2. CASE ~(a = p /\ op.kind = "data" /\ o = op.owner /\ piece = op.piece)
    <3>0. a \in DOMAIN mem /\ o \in DOMAIN mem[a] /\ piece \in DOMAIN mem[a][o]
      BY <1>2, <1>8, <1>11 DEF Shapes
    <3>1. mem'[a][o][piece] = mem[a][o][piece]
      <4>1. CASE op.kind # "data" \/ a # p
        BY <3>0, <4>1
      <4>2. CASE op.kind = "data" /\ a = p
        <5>1. PICK f, h : f = mem[p] /\ h = Head(chan[op.peer][p])
          OBVIOUS
        <5>2. mem'[p] = [f EXCEPT ![op.owner][op.piece] = h]
          BY <3>0, <4>2, <5>1
        <5>3. [f EXCEPT ![op.owner][op.piece] = h][o][piece] = f[o][piece]
          <6>1. CASE o # op.owner
            BY <3>0, <4>2, <5>1, <6>1
          <6>2. CASE o = op.owner
            BY <2>2, <3>0, <4>2, <5>1, <6>2
          <6> QED
            BY <6>1, <6>2
        <5> QED
          BY <4>2, <5>1, <5>2, <5>3
      <4> QED
        BY <4>1, <4>2
    <3> QED
      BY <1>11, <3>1 DEF Right, OneMore
  <2> QED
    BY <2>1, <2>2
<1>12. ASSUME call[a] <= L, NEW s \in 1 .. stage[a], NEW j \in DOMAIN plan[s],
              NEW x \in 1 .. Len(plan[s][j]), NEW o, o = plan[s][j][x],
              o.dir = "recv", o.kind = "data", s < stage[a] \/ x <= Done(a, j)'
       PROVE  Right(a, o.owner, o.piece)'
  <2>0. o.owner \in Parties /\ o.piece \in 1 .. c.size
    <3>1. PlanOK(c, M, a, plan) /\ s \in 1 .. Len(plan) /\ Parties = 0 .. M - 1
      <4>1. PlanOK(c, M, a, plan) /\ Parties = 0 .. M - 1
        BY <1>2, <1>3, <1>12, Here
      <4>2. stage[a] \in 1 .. Len(plan) /\ stage[a] \in Nat
        BY <1>3, <1>12, <1>2 DEF IInv, TodoOK, Shapes
      <4>3. Len(plan) \in Nat
        BY <4>1 DEF PlanOK, IsPlan
      <4> QED
        BY <4>1, <4>2, <4>3
    <3>2. plan[s][j] \in Seq(Ops(c, M))
      BY <3>1, <1>12 DEF PlanOK, IsPlan
    <3>3. PICK T, u : T = Ops(c, M) /\ u = plan[s][j]
      OBVIOUS
    <3>4. u \in Seq(T) /\ x \in 1 .. Len(u)
      BY <1>12, <3>2, <3>3
    <3>5. o \in Ops(c, M)
      BY <1>12, <3>3, <3>4
    <3>6. OpOK(c, M, a, s, j, x, o)
      BY <1>12, <3>1 DEF PlanOK
    <3> QED
      BY <1>12, <3>1, <3>5, <3>6 DEF Ops, OpOK
  <2>1. CASE s < stage[a] \/ x <= Done(a, j)
    BY <1>8, <1>11, <1>12, <2>0, <2>1
  <2>2. CASE ~(s < stage[a]) /\ ~(x <= Done(a, j))
    <3>1. <<a, j>> = <<p, k>>
      BY <1>1, <1>12, <2>2
    <3>2. Done(a, j) \in Nat /\ x <= Done(a, j) + 1 /\ x \in Int
      <4>1. a = p /\ j = k /\ ~(s < stage[a])
        BY <2>2, <3>1
      <4>2. x <= Done(p, k)'
        BY <1>12, <4>1
      <4>3. PICK y, z : y = Done(p, k) /\ z = Done(p, k)'
        OBVIOUS
      <4>4. y \in Nat /\ z = y + 1
        BY <1>1, <1>2, <4>3 DEF OpHere
      <4>5. x <= y + 1
        BY <4>2, <4>3, <4>4
      <4> QED
        BY <4>1, <4>3, <4>4, <4>5
    <3>3. x = Done(a, j) + 1
      BY <2>2, <3>2
    <3>4. s = stage[p]
      <4>1. stage[p] \in Nat
        BY <1>2 DEF Shapes
      <4> QED
        BY <2>2, <3>1, <4>1
    <3>5. o = op
      BY <1>2, <1>3, <1>12, <3>1, <3>3, <3>4 DEF OpHere
    <3> QED
      BY <1>10, <1>12, <3>1, <3>5
  <2> QED
    BY <2>1, <2>2
<1>13. call[a] <= L => \A piece \in 1 .. c.size : Right(a, a, piece)'
  BY <1>8, <1>11
<1>14. call'[a] <= L =>
        /\ \A j \in Parties : DOMAIN mem'[a][j] = 1 .. c.size
        /\ \A piece \in 1 .. c.size : Right(a, a, piece)'
        /\ \A s \in 1 .. stage'[a] : \A j \in DOMAIN plan[s] : \A x \in 1 .. Len(plan[s][j]) :
             LET o == plan[s][j][x]
             IN  o.dir = "recv" /\ o.kind = "data" /\ (s < stage'[a] \/ x <= Done(a, j)')
                   => Right(a, o.owner, o.piece)'
  BY <1>9, <1>12, <1>13 DEF OneMore
<1>15. MemOK(a)'
  BY <1>3, <1>4, <1>14 DEF MemOK
<1> QED
  BY <1>7, <1>15

(* The steps preserve the invariant.                                       *)
LEMMA WriteStep ==
    ASSUME IInv, NEW p \in Parties, NEW k, Write(p, k)
    PROVE  IInv'
<1>1. PICK op : op = CurrentOp(p, k)
  OBVIOUS
<1>2. /\ Live(p, k) /\ OneMore(p, k) /\ op.dir = "send" /\ Len(chan[p][op.peer]) < Window
      /\ chan' = [chan EXCEPT ![p][op.peer] = Append(@, Intended(op, call[p]))]
      /\ status' = status /\ broken' = broken /\ mem' = mem /\ gathered' = gathered
      /\ net' = net /\ call' = call /\ stage' = stage
  <2>1. /\ Live(p, k) /\ OneMore(p, k) /\ op.dir = "send" /\ Len(chan[p][op.peer]) < Window
        /\ chan' = [chan EXCEPT ![p][op.peer] =
             Append(@, IF op.kind = "data" THEN mem[p][op.owner][op.piece]
                       ELSE Intended(op, call[p]))]
        /\ UNCHANGED <<net, status, call, stage, broken, mem, gathered>>
    BY <1>1 DEF Write, OneMore
  <2>2. op.kind = "data" => mem[p][op.owner][op.piece] = Intended(op, call[p])
    BY <1>1, <2>1, SendsRight
  <2> QED
    BY <2>1, <2>2
<1>3. Parties' = Parties
  BY <1>2 DEF Parties
<1>4. \A a, b \in Parties : ChanOK(a, b)' /\ chan'[a][b] \in Seq(Segments)
  BY <1>1, <1>2, ChanAppends
<1>5. \A a \in Parties : TodoOK(a)' /\ MemOK(a)'
  BY <1>1, <1>2, TodoNext, MemAfterWrite
<1>6. Shapes'
  <2>1. Shapes
    BY DEF IInv
  <2>2. DOMAIN todo' = Parties
    BY <1>2, <2>1 DEF Shapes, OneMore
  <2>3. chan' \in [Parties -> [Parties -> Seq(Segments)]]
    BY <1>2, <1>4, <2>1 DEF Shapes
  <2>4. Segments' = Segments /\ LastCall(net)' = LastCall(net)
    BY <1>2, <1>3 DEF Segments
  <2> QED
    BY <1>2, <1>3, <2>1, <2>2, <2>3, <2>4 DEF Shapes
<1> QED
  BY <1>3, <1>4, <1>5, <1>6 DEF IInv

(* Read preserves the invariant.                                           *)
LEMMA ReadStep ==
    ASSUME IInv, NEW p \in Parties, NEW k, Read(p, k)
    PROVE  IInv'
<1>1. PICK op : op = CurrentOp(p, k)
  OBVIOUS
<1>2. /\ Live(p, k) /\ OneMore(p, k) /\ op.dir = "recv" /\ chan[op.peer][p] # << >>
      /\ chan' = [chan EXCEPT ![op.peer][p] = Tail(@)]
      /\ mem' = IF op.kind = "data"
                THEN [mem EXCEPT ![p][op.owner][op.piece] = Head(chan[op.peer][p])]
                ELSE mem
      /\ status' = status /\ broken' = broken /\ gathered' = gathered
      /\ net' = net /\ call' = call /\ stage' = stage
  BY <1>1 DEF Read, OneMore
<1>3. Parties' = Parties
  BY <1>2 DEF Parties
<1>4. \A a, b \in Parties : ChanOK(a, b)' /\ chan'[a][b] \in Seq(Segments)
  BY <1>1, <1>2, ChanShifts
<1>5. \A a \in Parties : TodoOK(a)'
  BY <1>1, <1>2, TodoNext
<1>6. \A a \in Parties : MemOK(a)' /\ DOMAIN mem' = Parties /\ DOMAIN mem'[a] = Parties
  BY <1>1, <1>2, MemAfterRead
<1>7. Shapes'
  <2>1. Shapes
    BY DEF IInv
  <2>2. DOMAIN todo' = Parties
    BY <1>2, <2>1 DEF Shapes, OneMore
  <2>3. chan' \in [Parties -> [Parties -> Seq(Segments)]]
    BY <1>2, <1>4, <2>1 DEF Shapes
  <2>4. Segments' = Segments /\ LastCall(net)' = LastCall(net)
    BY <1>2, <1>3 DEF Segments
  <2> QED
    BY <1>2, <1>3, <1>6, <2>1, <2>2, <2>3, <2>4 DEF Shapes
<1> QED
  BY <1>3, <1>4, <1>5, <1>6, <1>7 DEF IInv

(* A party that has not begun with the tasks of its stage.                 *)
Fresh(p) ==
    /\ net \in DOMAIN Deployments /\ p \in Parties
    /\ call[p] \in 1 .. LastCall(net) /\ stage[p] \in 1 .. Len(Plan(p, call[p]))
    /\ todo[p] = Plan(p, call[p])[stage[p]]

(* No operation of p's stage is done.                                      *)
FreshTasks(p) ==
    /\ DOMAIN todo[p] = DOMAIN Plan(p, call[p])[stage[p]]
    /\ \A k \in DOMAIN todo[p] :
        /\ Done(p, k) = 0
        /\ todo[p][k] \in Seq(Ops(CallAt(call[p]), M))
        /\ Len(todo[p][k]) <= Len(Plan(p, call[p])[stage[p]][k])
        /\ \A i \in 1 .. Len(todo[p][k]) :
              todo[p][k][i] = Plan(p, call[p])[stage[p]][k][Done(p, k) + i]

(* The flows of p when its stage is fresh.                                 *)
FreshProgress(p) ==
    \A d \in {"send", "recv"}, q \in Parties :
        Progress(p, d, q) =
            IF /\ Linked(CallAt(call[p]), M, p, q)
               /\ StageOf(CallAt(call[p]), M, p, d, q) < stage[p]
            THEN DirFlow(CallAt(call[p]), M, p, d, q) ELSE 0

(* What a plan says of a flow.                                             *)
LEMMA FlowIs ==
    ASSUME NEW c, NEW n, IsCall(c, n), NEW p \in 0 .. n - 1, NEW q \in 0 .. n - 1,
           NEW d \in {"send", "recv"}, Linked(c, n, p, q), NEW plan, PlanOK(c, n, p, plan)
    PROVE  /\ FlowOK(c, n, p, d, q, plan)
           /\ FlowVolume(c, n, p, d, q) = DirFlow(c, n, p, d, q)
<1>1. Linked(c, n, q, p)
  BY LinkedBoth
<1> QED
  BY <1>1 DEF PlanOK, FlowVolume, DirFlow, FlowOf

(* What a fresh stage is.                                                  *)
LEMMA FreshIs ==
    ASSUME NEW p
    PROVE  Fresh(p) => FreshTasks(p) /\ FreshProgress(p)
<1> SUFFICES ASSUME Fresh(p) PROVE FreshTasks(p) /\ FreshProgress(p)
  OBVIOUS
<1>1. PICK n, r, c, plan, s : /\ n = M /\ r = call[p] /\ c = CallAt(r)
                              /\ plan = Plan(p, r) /\ s = stage[p]
  OBVIOUS
<1>2. /\ n \in Nat /\ p \in 0 .. n - 1 /\ Parties = 0 .. n - 1 /\ IsCall(c, n)
      /\ LastCall(net) \in Nat
  BY <1>1, CallsOK DEF Fresh, M, Parties, CallAt
<1>3. PlanOK(c, n, p, plan)
  <2>1. PlanOK(c, n, p, Stages(c, n, p))
    BY <1>2, PlanRight
  <2> QED
    BY <1>1, <2>1 DEF Plan, CallAt, M
<1>4. todo[p] = plan[s] /\ s \in 1 .. Len(plan) /\ Len(plan) \in Nat
  BY <1>1, <1>3 DEF Fresh, PlanOK, IsPlan
<1>5. ASSUME NEW k \in DOMAIN plan[s]
      PROVE  /\ todo[p][k] = plan[s][k] /\ plan[s][k] \in Seq(Ops(c, n))
             /\ Len(plan[s][k]) \in Nat /\ Done(p, k) = 0
  <2>1. plan[s][k] \in Seq(Ops(c, n))
    BY <1>3, <1>4 DEF PlanOK, IsPlan
  <2>2. PICK S, u : S = Ops(c, n) /\ u = plan[s][k]
    OBVIOUS
  <2>3. Len(u) \in Nat
    <3>1. u \in Seq(S)
      BY <2>1, <2>2
    <3> QED
      BY <3>1
  <2>4. Done(p, k) = Len(u) - Len(u)
    BY <1>1, <1>4, <2>2 DEF Done
  <2>5. PICK m \in Nat : m = Len(u)
    BY <2>3
  <2> QED
    BY <1>4, <2>1, <2>2, <2>4, <2>5
<1>6. FreshTasks(p)
  <2>1. DOMAIN todo[p] = DOMAIN plan[s]
    BY <1>4
  <2>2. ASSUME NEW k \in DOMAIN plan[s]
        PROVE  /\ Done(p, k) = 0
               /\ todo[p][k] \in Seq(Ops(c, n))
               /\ Len(todo[p][k]) <= Len(plan[s][k])
               /\ \A i \in 1 .. Len(todo[p][k]) : todo[p][k][i] = plan[s][k][Done(p, k) + i]
    <3>1. \A i \in 1 .. Len(plan[s][k]) : 0 + i = i
      BY <1>5
    <3> QED
      BY <1>5, <3>1
  <2> QED
    BY <1>1, <2>1, <2>2 DEF FreshTasks
<1>7. ASSUME NEW d \in {"send", "recv"}, NEW q \in Parties
      PROVE  Progress(p, d, q) = IF Linked(c, n, p, q) /\ StageOf(c, n, p, d, q) < s
                                 THEN DirFlow(c, n, p, d, q) ELSE 0
  <2>1. PICK S, T, V : /\ S = StageOf(c, n, p, d, q) /\ T = TaskOf(c, n, p, d, q)
                       /\ V = FlowVolume(c, n, p, d, q)
    OBVIOUS
  <2>2. ~(r > LastCall(net))
    BY <1>1, <1>2 DEF Fresh
  <2>3. Progress(p, d, q) =
          IF ~Linked(c, n, p, q) \/ s < S THEN 0
          ELSE IF s > S THEN V
          ELSE Count(c, n, p, d, q, Done(p, T))
    BY <1>1, <2>1, <2>2 DEF Progress
  <2>4. CASE Linked(c, n, p, q)
    <3>1. FlowOK(c, n, p, d, q, plan) /\ V = DirFlow(c, n, p, d, q)
      BY <1>2, <1>3, <2>1, <2>4, FlowIs
    <3>2. /\ S \in 1 .. Len(plan) /\ T \in DOMAIN plan[S]
          /\ Count(c, n, p, d, q, 0) = 0
      BY <2>1, <3>1 DEF FlowOK
    <3>3. CASE s < S
      <4>1. ~(S < s)
        BY <1>4, <3>2, <3>3
      <4> QED
        BY <2>1, <2>3, <3>3, <4>1
    <3>4. CASE s > S
      <4>1. S < s /\ ~(s < S)
        BY <1>4, <3>2, <3>4
      <4> QED
        BY <2>1, <2>3, <2>4, <3>1, <3>4, <4>1
    <3>5. CASE s = S
      <4>1. ~(S < s) /\ ~(s < S) /\ ~(s > S)
        BY <1>4, <3>5
      <4>2. Done(p, T) = 0
        BY <1>5, <3>2, <3>5
      <4> QED
        BY <2>1, <2>3, <2>4, <3>2, <4>1, <4>2
    <3> QED
      BY <1>4, <3>2, <3>3, <3>4, <3>5
  <2> QED
    BY <2>3, <2>4
<1>8. FreshProgress(p)
  BY <1>1, <1>7 DEF FreshProgress
<1> QED
  BY <1>6, <1>8

(* A fresh stage, of a call, and the first one of a call.                  *)
FreshRuns(p) == Fresh(p) /\ status[p] # "done" /\ broken[p] = {}

FreshCall(p) == Fresh(p) /\ stage[p] = 1 /\ mem[p] = Buffer(p, call[p])

(* p's buffer has room for all.                                            *)
MemShape(p) == DOMAIN mem[p] = Parties

(* So all is right with its tasks, and with a buffer it calls with.        *)
LEMMA FreshOK ==
    ASSUME NEW p
    PROVE  /\ FreshRuns(p) => TodoOK(p)
           /\ FreshCall(p) => MemOK(p) /\ MemShape(p)
<1> SUFFICES ASSUME Fresh(p)
    PROVE  /\ status[p] # "done" /\ broken[p] = {} => TodoOK(p)
           /\ stage[p] = 1 /\ mem[p] = Buffer(p, call[p]) => MemOK(p) /\ DOMAIN mem[p] = Parties
  BY DEF FreshRuns, FreshCall, MemShape
<1>1. FreshTasks(p)
  BY FreshIs
<1>2. LastCall(net) \in Nat /\ call[p] \in 1 .. LastCall(net) /\ p \in Parties
  BY CallsOK DEF Fresh
<1>3. ASSUME status[p] # "done", broken[p] = {} PROVE TodoOK(p)
  <2>1. call[p] # LastCall(net) + 1
    BY <1>2
  <2>2. stage[p] \in 1 .. Len(Plan(p, call[p]))
    BY DEF Fresh
  <2> QED
    BY <1>1, <1>3, <2>1, <2>2 DEF TodoOK, FreshTasks
<1>4. ASSUME stage[p] = 1, mem[p] = Buffer(p, call[p])
      PROVE  MemOK(p) /\ DOMAIN mem[p] = Parties
  <2>1. PICK r, c, plan : r = call[p] /\ c = CallAt(r) /\ plan = Plan(p, r)
    OBVIOUS
  <2>2. \A j \in Parties : mem[p][j] = Chunk(j, r, IF j = p THEN r ELSE 0)
    BY <1>4, <2>1 DEF Buffer
  <2>3. \A j \in Parties : DOMAIN mem[p][j] = 1 .. c.size
    BY <2>1, <2>2 DEF Chunk, CallAt
  <2>4. \A piece \in 1 .. c.size : Right(p, p, piece)
    <3>1. PICK m : m = mem[p][p]
      OBVIOUS
    <3>2. p \in Parties /\ m = Chunk(p, r, r)
      BY <1>2, <2>2, <3>1
    <3>3. \A piece \in 1 .. c.size : m[piece] = [kind |-> "data", owner |-> p, piece |-> piece, call |-> r]
      BY <2>1, <3>2 DEF Chunk, CallAt
    <3> QED
      BY <2>1, <3>1, <3>3 DEF Right
  <2>5. ASSUME NEW s \in 1 .. stage[p], NEW k \in DOMAIN plan[s],
               NEW x \in 1 .. Len(plan[s][k]), s < stage[p] \/ x <= Done(p, k)
        PROVE  FALSE
    <3>1. s = 1
      BY <1>4
    <3>2. k \in DOMAIN todo[p]
      BY <1>1, <1>4, <2>1, <3>1 DEF FreshTasks
    <3>3. Done(p, k) = 0
      BY <1>1, <3>2 DEF FreshTasks
    <3>4. x <= 0
      BY <1>4, <2>5, <3>1, <3>3
    <3>5. x >= 1
      OBVIOUS
    <3> QED
      BY <3>4, <3>5
  <2>6. MemOK(p)
    BY <2>1, <2>3, <2>4, <2>5 DEF MemOK
  <2>7. DOMAIN mem[p] = Parties
    BY <1>4 DEF Buffer
  <2> QED
    BY <2>6, <2>7
<1> QED
  BY <1>3, <1>4

(* The same in the next state.                                             *)
LEMMA FreshNext ==
    ASSUME NEW p
    PROVE  /\ Fresh(p)' => FreshTasks(p)' /\ FreshProgress(p)'
           /\ FreshRuns(p)' => TodoOK(p)'
           /\ FreshCall(p)' => MemOK(p)' /\ MemShape(p)'
<1>1. Fresh(p) => FreshTasks(p) /\ FreshProgress(p)
  BY FreshIs
<1>2. FreshRuns(p) => TodoOK(p)
  BY FreshOK
<1>3. FreshCall(p) => MemOK(p) /\ MemShape(p)
  BY FreshOK
<1> QED
  BY <1>1, <1>2, <1>3, PTL

(* A party whose tasks, buffer and call stay as they are.                  *)
LEMMA PartyStays ==
    ASSUME NEW a \in Parties, net' = net, call'[a] = call[a], stage'[a] = stage[a],
           todo'[a] = todo[a], mem'[a] = mem[a], status'[a] = "done" <=> status[a] = "done",
           broken'[a] \subseteq broken[a] \cup DOMAIN todo[a], TodoOK(a), MemOK(a)
    PROVE  /\ TodoOK(a)' /\ MemOK(a)'
           /\ \A b : Written(a, b)' = Written(a, b) /\ Taken(a, b)' = Taken(a, b)
<1>1. \A k : Done(a, k)' = Done(a, k)
  BY DEF Done, Plan
<1>2. \A d, q : Progress(a, d, q)' = Progress(a, d, q)
  BY <1>1, ProgressStays
<1>3. \A b : Written(a, b)' = Written(a, b) /\ Taken(a, b)' = Taken(a, b)
  BY <1>2 DEF Written, Taken
<1>4. PICK L, plan, S, c : /\ L = LastCall(net) /\ plan = Plan(a, call[a])
                           /\ S = Ops(CallAt(call[a]), M) /\ c = CallAt(call[a])
  OBVIOUS
<1>5. /\ L = LastCall(net)' /\ plan = Plan(a, call[a])' /\ S = Ops(CallAt(call[a]), M)'
      /\ c = CallAt(call[a])' /\ Parties' = Parties
  BY <1>4 DEF Plan, CallAt, M, Parties
<1>6. TodoOK(a)'
  <2>1. /\ status[a] = "done" <=> call[a] = L + 1
        /\ call[a] <= L =>
             /\ stage[a] \in 1 .. Len(plan)
             /\ DOMAIN todo[a] = DOMAIN plan[stage[a]]
             /\ broken[a] \subseteq DOMAIN todo[a]
             /\ \A k \in DOMAIN todo[a] :
                  /\ todo[a][k] \in Seq(S)
                  /\ Len(todo[a][k]) <= Len(plan[stage[a]][k])
                  /\ \A i \in 1 .. Len(todo[a][k]) :
                       todo[a][k][i] = plan[stage[a]][k][Done(a, k) + i]
    BY <1>4 DEF TodoOK
  <2>2. /\ status'[a] = "done" <=> call'[a] = L + 1
        /\ call'[a] <= L =>
             /\ stage'[a] \in 1 .. Len(plan)
             /\ DOMAIN todo'[a] = DOMAIN plan[stage'[a]]
             /\ broken'[a] \subseteq DOMAIN todo'[a]
             /\ \A k \in DOMAIN todo'[a] :
                  /\ todo'[a][k] \in Seq(S)
                  /\ Len(todo'[a][k]) <= Len(plan[stage'[a]][k])
                  /\ \A i \in 1 .. Len(todo'[a][k]) :
                       todo'[a][k][i] = plan[stage'[a]][k][Done(a, k)' + i]
    BY <1>1, <2>1
  <2> QED
    BY <1>5, <2>2 DEF TodoOK
<1>7. MemOK(a)'
  <2>1. \A o, piece : Right(a, o, piece)' <=> Right(a, o, piece)
    BY DEF Right
  <2>2. call'[a] <= L =>
        /\ \A j \in Parties : DOMAIN mem'[a][j] = 1 .. c.size
        /\ \A piece \in 1 .. c.size : Right(a, a, piece)'
        /\ \A s \in 1 .. stage'[a] : \A j \in DOMAIN plan[s] : \A x \in 1 .. Len(plan[s][j]) :
             LET op == plan[s][j][x]
             IN  op.dir = "recv" /\ op.kind = "data" /\ (s < stage'[a] \/ x <= Done(a, j)')
                   => Right(a, op.owner, op.piece)'
    BY <1>1, <1>4, <2>1 DEF MemOK
  <2> QED
    BY <1>4, <1>5, <2>2 DEF MemOK
<1> QED
  BY <1>3, <1>6, <1>7

(* Steps that only change whether a party runs, or which tasks failed.     *)
LEMMA StatusStep ==
    ASSUME IInv, NEW p \in Parties,
           UNCHANGED <<net, call, stage, todo, chan, mem, gathered>>,
           \/ status' = [status EXCEPT ![p] = "failed"] /\ Running(p) /\ broken' = broken
           \/ \E k \in DOMAIN todo[p] :
                status' = status /\ broken' = [broken EXCEPT ![p] = @ \cup {k}]
           \/ status' = status /\ broken' = broken
    PROVE  IInv'
<1>1. Shapes
  BY DEF IInv
<1>2. /\ status' \in [Parties -> {"run", "done", "failed"}]
      /\ DOMAIN broken' = Parties
  BY <1>1 DEF Shapes
<1>3. \A a \in Parties : /\ status'[a] = "done" <=> status[a] = "done"
                         /\ broken'[a] \subseteq broken[a] \cup DOMAIN todo[a]
  <2>1. ASSUME NEW a \in Parties PROVE status'[a] = "done" <=> status[a] = "done"
    <3>1. CASE status' = [status EXCEPT ![p] = "failed"] /\ Running(p)
      BY <1>1, <3>1 DEF Shapes, Running
    <3>2. CASE status' = status
      BY <3>2
    <3> QED
      BY <3>1, <3>2
  <2>2. ASSUME NEW a \in Parties PROVE broken'[a] \subseteq broken[a] \cup DOMAIN todo[a]
    <3>1. CASE broken' = broken
      BY <3>1
    <3>2. CASE \E k \in DOMAIN todo[p] : broken' = [broken EXCEPT ![p] = @ \cup {k}]
      <4>1. PICK k \in DOMAIN todo[p] : broken' = [broken EXCEPT ![p] = @ \cup {k}]
        BY <3>2
      <4>2. CASE a = p
        <5>1. broken'[a] = broken[a] \cup {k}
          BY <1>1, <4>1, <4>2 DEF Shapes
        <5> QED
          BY <4>2, <5>1
      <4>3. CASE a # p
        <5>1. broken'[a] = broken[a]
          BY <1>1, <4>1, <4>3 DEF Shapes
        <5> QED
          BY <5>1
      <4> QED
        BY <4>2, <4>3
    <3> QED
      BY <3>1, <3>2
  <2> QED
    BY <2>1, <2>2
<1>4. Parties' = Parties /\ Segments' = Segments /\ LastCall(net)' = LastCall(net)
  BY DEF Parties, Segments
<1>5. Shapes'
  BY <1>1, <1>2, <1>4 DEF Shapes
<1>6. \A a \in Parties : TodoOK(a) /\ MemOK(a)
  BY DEF IInv
<1>7. \A a \in Parties :
        /\ TodoOK(a)' /\ MemOK(a)'
        /\ \A b : Written(a, b)' = Written(a, b) /\ Taken(a, b)' = Taken(a, b)
  BY <1>3, <1>6, PartyStays
<1>8. \A a, b \in Parties : ChanOK(a, b)'
  BY <1>7, ChanStays DEF IInv
<1> QED
  BY <1>4, <1>5, <1>7, <1>8 DEF IInv

(* All tasks of a stage are through.                                       *)
LEMMA AllDone ==
    ASSUME IInv, NEW p \in Parties, StageDone(p)
    PROVE  /\ call[p] <= LastCall(net)
           /\ \A k \in DOMAIN todo[p] : Done(p, k) = Len(Plan(p, call[p])[stage[p]][k])
           /\ \A d \in {"send", "recv"}, q \in Parties :
                Progress(p, d, q) =
                    IF /\ Linked(CallAt(call[p]), M, p, q)
                       /\ StageOf(CallAt(call[p]), M, p, d, q) <= stage[p]
                    THEN DirFlow(CallAt(call[p]), M, p, d, q) ELSE 0
<1>1. Shapes /\ TodoOK(p) /\ status[p] = "run" /\ \A k \in DOMAIN todo[p] : todo[p][k] = << >>
  BY DEF IInv, StageDone, Running, Ended
<1>2. LastCall(net) \in Nat /\ call[p] \in 1 .. LastCall(net) + 1
  BY <1>1, CallsOK DEF Shapes
<1>3. call[p] <= LastCall(net)
  BY <1>1, <1>2 DEF TodoOK
<1>4. PICK n, r, c, plan, s : /\ n = M /\ r = call[p] /\ c = CallAt(r)
                              /\ plan = Plan(p, r) /\ s = stage[p]
  OBVIOUS
<1>5. /\ n \in Nat /\ p \in 0 .. n - 1 /\ Parties = 0 .. n - 1 /\ IsCall(c, n)
      /\ PlanOK(c, n, p, plan)
  BY <1>1, <1>3, <1>4, Here
<1>6. /\ s \in 1 .. Len(plan) /\ Len(plan) \in Nat /\ DOMAIN todo[p] = DOMAIN plan[s]
  BY <1>1, <1>3, <1>4, <1>5 DEF TodoOK, PlanOK, IsPlan
<1>7. ASSUME NEW k \in DOMAIN plan[s] PROVE Done(p, k) = Len(plan[s][k])
  <2>1. plan[s][k] \in Seq(Ops(c, n))
    BY <1>5, <1>6 DEF PlanOK, IsPlan
  <2>2. PICK S, u : S = Ops(c, n) /\ u = plan[s][k]
    OBVIOUS
  <2>3. Len(u) \in Nat
    <3>1. u \in Seq(S)
      BY <2>1, <2>2
    <3> QED
      BY <3>1
  <2>4. Done(p, k) = Len(u) - Len(<< >>)
    BY <1>1, <1>4, <1>6, <2>2 DEF Done
  <2>5. PICK m \in Nat : m = Len(u)
    BY <2>3
  <2>6. Done(p, k) = m - 0
    BY <2>4, <2>5
  <2> QED
    BY <2>2, <2>5, <2>6
<1>8. ASSUME NEW d \in {"send", "recv"}, NEW q \in Parties
      PROVE  Progress(p, d, q) = IF Linked(c, n, p, q) /\ StageOf(c, n, p, d, q) <= s
                                 THEN DirFlow(c, n, p, d, q) ELSE 0
  <2>1. PICK S, T, V : /\ S = StageOf(c, n, p, d, q) /\ T = TaskOf(c, n, p, d, q)
                       /\ V = FlowVolume(c, n, p, d, q)
    OBVIOUS
  <2>2. ~(r > LastCall(net))
    BY <1>2, <1>3, <1>4
  <2>3. Progress(p, d, q) =
          IF ~Linked(c, n, p, q) \/ s < S THEN 0
          ELSE IF s > S THEN V
          ELSE Count(c, n, p, d, q, Done(p, T))
    BY <1>4, <2>1, <2>2 DEF Progress
  <2>4. CASE Linked(c, n, p, q)
    <3>1. FlowOK(c, n, p, d, q, plan) /\ V = DirFlow(c, n, p, d, q)
      BY <1>5, <2>1, <2>4, FlowIs
    <3>2. /\ S \in 1 .. Len(plan) /\ T \in DOMAIN plan[S]
          /\ Count(c, n, p, d, q, Len(plan[S][T])) = V
      BY <2>1, <3>1 DEF FlowOK
    <3>3. CASE s < S
      <4>1. ~(S <= s)
        BY <1>6, <3>2, <3>3
      <4> QED
        BY <2>1, <2>3, <3>3, <4>1
    <3>4. CASE s > S
      <4>1. S <= s /\ ~(s < S)
        BY <1>6, <3>2, <3>4
      <4> QED
        BY <2>1, <2>3, <2>4, <3>1, <3>4, <4>1
    <3>5. CASE s = S
      <4>1. S <= s /\ ~(s < S) /\ ~(s > S)
        BY <1>6, <3>5
      <4>2. Done(p, T) = Len(plan[S][T])
        BY <1>7, <3>2, <3>5
      <4> QED
        BY <2>1, <2>3, <2>4, <3>1, <3>2, <4>1, <4>2
    <3> QED
      BY <1>6, <3>2, <3>3, <3>4, <3>5
  <2> QED
    BY <2>3, <2>4
<1>9. \A k \in DOMAIN todo[p] : Done(p, k) = Len(plan[s][k])
  BY <1>6, <1>7
<1> QED
  BY <1>3, <1>4, <1>8, <1>9

(* NextStage preserves the invariant.                                      *)
LEMMA NextStageStep ==
    ASSUME IInv, NEW p \in Parties, NextStage(p)
    PROVE  IInv'
<1>1. /\ StageDone(p) /\ stage[p] < Len(Plan(p, call[p]))
      /\ stage' = [stage EXCEPT ![p] = @ + 1]
      /\ todo' = [todo EXCEPT ![p] = Plan(p, call[p])[stage[p] + 1]]
      /\ broken' = [broken EXCEPT ![p] = {}]
      /\ net' = net /\ status' = status /\ call' = call /\ chan' = chan /\ mem' = mem
      /\ gathered' = gathered
  BY DEF NextStage
<1>2. /\ Shapes /\ TodoOK(p) /\ MemOK(p) /\ status[p] = "run"
  BY <1>1 DEF IInv, StageDone, Running
<1>3. /\ call[p] <= LastCall(net)
      /\ \A k \in DOMAIN todo[p] : Done(p, k) = Len(Plan(p, call[p])[stage[p]][k])
      /\ \A d \in {"send", "recv"}, q \in Parties :
            Progress(p, d, q) =
                IF /\ Linked(CallAt(call[p]), M, p, q)
                   /\ StageOf(CallAt(call[p]), M, p, d, q) <= stage[p]
                THEN DirFlow(CallAt(call[p]), M, p, d, q) ELSE 0
  BY <1>1, AllDone
<1>4. PICK n, r, c, plan, s : /\ n = M /\ r = call[p] /\ c = CallAt(r)
                              /\ plan = Plan(p, r) /\ s = stage[p]
  OBVIOUS
<1>5. /\ n \in Nat /\ p \in 0 .. n - 1 /\ Parties = 0 .. n - 1 /\ IsCall(c, n)
      /\ PlanOK(c, n, p, plan) /\ r \in 1 .. LastCall(net)
  BY <1>2, <1>3, <1>4, Here
<1>6. /\ s \in 1 .. Len(plan) /\ Len(plan) \in Nat /\ DOMAIN todo[p] = DOMAIN plan[s]
  BY <1>2, <1>3, <1>4, <1>5 DEF TodoOK, PlanOK, IsPlan
<1>7. s + 1 \in 1 .. Len(plan)
  BY <1>1, <1>4, <1>6
<1>8. /\ n = M' /\ r = call'[p] /\ c = CallAt(call[p])' /\ plan = Plan(p, call[p])'
      /\ s + 1 = stage'[p] /\ todo'[p] = plan[s + 1] /\ broken'[p] = {}
      /\ Parties' = Parties /\ Segments' = Segments /\ LastCall(net)' = LastCall(net)
  BY <1>1, <1>2, <1>4 DEF M, CallAt, Plan, Parties, Segments, Shapes
<1>9. Fresh(p)' /\ FreshRuns(p)'
  <2>1. Fresh(p)'
    BY <1>1, <1>2, <1>4, <1>5, <1>7, <1>8 DEF Fresh, Shapes
  <2> QED
    BY <1>1, <1>2, <1>8, <2>1 DEF FreshRuns
<1>10. TodoOK(p)' /\ FreshTasks(p)' /\ FreshProgress(p)'
  BY <1>9, FreshNext
<1>11. ASSUME NEW d \in {"send", "recv"}, NEW q \in Parties
       PROVE  Progress(p, d, q)' = Progress(p, d, q)
  <2>1. Progress(p, d, q) = IF Linked(c, n, p, q) /\ StageOf(c, n, p, d, q) <= s
                            THEN DirFlow(c, n, p, d, q) ELSE 0
    BY <1>3, <1>4
  <2>2. Progress(p, d, q)' = IF Linked(c, n, p, q) /\ StageOf(c, n, p, d, q) < s + 1
                             THEN DirFlow(c, n, p, d, q) ELSE 0
    BY <1>8, <1>10 DEF FreshProgress
  <2>3. Linked(c, n, p, q) => StageOf(c, n, p, d, q) \in Nat
    BY <1>5, <1>6, FlowIs DEF FlowOK
  <2>4. Linked(c, n, p, q) =>
          (StageOf(c, n, p, d, q) < s + 1 <=> StageOf(c, n, p, d, q) <= s)
    BY <1>6, <2>3
  <2> QED
    BY <2>1, <2>2, <2>4
<1>12. \A a \in Parties :
         /\ TodoOK(a)'
         /\ \A b \in Parties : Written(a, b)' = Written(a, b) /\ Taken(a, b)' = Taken(a, b)
         /\ a # p => MemOK(a)'
  <2> SUFFICES ASSUME NEW a \in Parties
        PROVE  /\ TodoOK(a)'
               /\ \A b \in Parties : Written(a, b)' = Written(a, b) /\ Taken(a, b)' = Taken(a, b)
               /\ a # p => MemOK(a)'
    OBVIOUS
  <2>1. CASE a # p
    <3>1. /\ stage'[a] = stage[a] /\ todo'[a] = todo[a] /\ broken'[a] = broken[a]
          /\ TodoOK(a) /\ MemOK(a)
      BY <1>1, <1>2, <2>1 DEF Shapes, IInv
    <3> QED
      BY <1>1, <3>1, PartyStays
  <2>2. CASE a = p
    BY <1>1, <1>10, <1>11, <2>2 DEF Written, Taken
  <2> QED
    BY <2>1, <2>2
<1>13. MemOK(p)'
  <2>1. \A o, piece : Right(p, o, piece)' <=> Right(p, o, piece)
    BY <1>1 DEF Right
  <2>2. /\ \A j \in Parties : DOMAIN mem[p][j] = 1 .. c.size
        /\ \A piece \in 1 .. c.size : Right(p, p, piece)
        /\ \A t \in 1 .. s : \A k \in DOMAIN plan[t] : \A x \in 1 .. Len(plan[t][k]) :
             LET op == plan[t][k][x]
             IN  op.dir = "recv" /\ op.kind = "data" /\ (t < s \/ x <= Done(p, k))
                   => Right(p, op.owner, op.piece)
    BY <1>2, <1>3, <1>4 DEF MemOK
  <2>3. ASSUME NEW t \in 1 .. s + 1, NEW k \in DOMAIN plan[t],
               NEW x \in 1 .. Len(plan[t][k]), NEW op, op = plan[t][k][x],
               op.dir = "recv", op.kind = "data", t < s + 1 \/ x <= Done(p, k)'
        PROVE  Right(p, op.owner, op.piece)
    <3>1. CASE t = s + 1
      <4>1. k \in DOMAIN todo'[p]
        BY <1>8, <3>1
      <4>2. Done(p, k)' = 0
        BY <1>10, <4>1 DEF FreshTasks
      <4>3. ~(t < s + 1)
        BY <1>6, <3>1
      <4>4. x <= 0
        BY <2>3, <4>2, <4>3
      <4> QED
        BY <4>4
    <3>2. CASE t = s
      <4>1. Done(p, k) = Len(plan[s][k])
        BY <1>3, <1>4, <1>6, <3>2
      <4>2. x <= Done(p, k) /\ t \in 1 .. s
        BY <1>6, <3>2, <4>1
      <4> QED
        BY <2>2, <2>3, <4>2
    <3>3. CASE t # s + 1 /\ t # s
      <4>1. t < s /\ t \in 1 .. s
        BY <1>6, <3>3
      <4> QED
        BY <2>2, <2>3, <4>1
    <3> QED
      BY <3>1, <3>2, <3>3
  <2> QED
    BY <1>1, <1>4, <1>8, <2>1, <2>2, <2>3 DEF MemOK
<1>14. \A a, b \in Parties : ChanOK(a, b)'
  BY <1>1, <1>12, ChanStays DEF IInv
<1>15. Shapes'
  <2>1. stage' \in [Parties -> Nat] /\ DOMAIN todo' = Parties /\ DOMAIN broken' = Parties
    BY <1>1, <1>2 DEF Shapes
  <2> QED
    BY <1>1, <1>2, <1>8, <2>1 DEF Shapes
<1> QED
  BY <1>8, <1>12, <1>13, <1>14, <1>15 DEF IInv

(* Return preserves the invariant.                                         *)
LEMMA ReturnStep ==
    ASSUME IInv, NEW p \in Parties, Return(p)
    PROVE  IInv'
<1>1. PICK r : r = call[p] + 1
  OBVIOUS
<1> DEFINE more == r <= LastCall(net)
<1>2. /\ StageDone(p) /\ stage[p] = Len(Plan(p, call[p]))
      /\ call' = [call EXCEPT ![p] = r]
      /\ gathered' = [gathered EXCEPT ![p] = Append(@, Gathered(p, r - 1))]
      /\ stage' = [stage EXCEPT ![p] = 1]
      /\ todo' = [todo EXCEPT ![p] = IF more THEN Plan(p, r)[1] ELSE << >>]
      /\ mem' = [mem EXCEPT ![p] = IF more THEN Buffer(p, r) ELSE @]
      /\ status' = [status EXCEPT ![p] = IF more THEN "run" ELSE "done"]
      /\ broken' = [broken EXCEPT ![p] = {}]
      /\ net' = net /\ chan' = chan
  BY <1>1 DEF Return
<1>3. /\ Shapes /\ TodoOK(p) /\ MemOK(p) /\ status[p] = "run"
  BY <1>2 DEF IInv, StageDone, Running
<1>4. /\ call[p] <= LastCall(net)
      /\ \A d \in {"send", "recv"}, q \in Parties :
            Progress(p, d, q) =
                IF /\ Linked(CallAt(call[p]), M, p, q)
                   /\ StageOf(CallAt(call[p]), M, p, d, q) <= stage[p]
                THEN DirFlow(CallAt(call[p]), M, p, d, q) ELSE 0
  BY <1>2, AllDone
<1>5. PICK n, c, plan : n = M /\ c = CallAt(call[p]) /\ plan = Plan(p, call[p])
  OBVIOUS
<1>6. /\ n \in Nat /\ p \in 0 .. n - 1 /\ Parties = 0 .. n - 1 /\ IsCall(c, n)
      /\ PlanOK(c, n, p, plan) /\ call[p] \in 1 .. LastCall(net)
      /\ LastCall(net) \in Nat /\ net \in DOMAIN Deployments
  BY <1>3, <1>4, <1>5, Here, CallsOK DEF Shapes
<1>7. r \in 1 .. LastCall(net) + 1 /\ r - 1 = call[p]
  BY <1>1, <1>6
<1>8. /\ call'[p] = r /\ stage'[p] = 1 /\ broken'[p] = {}
      /\ todo'[p] = (IF more THEN Plan(p, r)[1] ELSE << >>)
      /\ mem'[p] = (IF more THEN Buffer(p, r) ELSE mem[p])
      /\ status'[p] = (IF more THEN "run" ELSE "done")
      /\ Parties' = Parties /\ Segments' = Segments /\ LastCall(net)' = LastCall(net)
  BY <1>2, <1>3 DEF Parties, Segments, Shapes
<1>9. ASSUME more PROVE Fresh(p)' /\ FreshRuns(p)' /\ FreshCall(p)'
  <2>1. r \in 1 .. LastCall(net)
    BY <1>1, <1>7, <1>9, <1>6
  <2>2. Plan(p, call[p])' = Plan(p, r) /\ Buffer(p, call[p])' = Buffer(p, r)
    BY <1>2, <1>8 DEF Plan, Buffer, Chunk
  <2>3. Len(Plan(p, r)) \in Nat /\ Len(Plan(p, r)) >= 1
    <3>1. IsCall(CallAt(r), n)
      BY <1>5, <1>6, <2>1, CallsOK DEF CallAt, M
    <3>2. PlanOK(CallAt(r), n, p, Stages(CallAt(r), n, p))
      BY <1>6, <3>1, PlanRight
    <3> QED
      BY <1>5, <3>2 DEF Plan, CallAt, M, PlanOK, IsPlan
  <2>4. Fresh(p)'
    <3>1. 1 \in 1 .. Len(Plan(p, r))
      BY <2>3
    <3> QED
      BY <1>2, <1>6, <1>8, <1>9, <2>1, <2>2, <3>1 DEF Fresh
  <2> QED
    BY <1>8, <1>9, <2>2, <2>4 DEF FreshRuns, FreshCall
<1>10. TodoOK(p)' /\ MemOK(p)' /\ DOMAIN mem'[p] = Parties
  <2>1. CASE more
    BY <1>8, <1>9, <2>1, FreshNext DEF MemShape
  <2>2. CASE ~more
    <3>1. r = LastCall(net) + 1 /\ ~(r <= LastCall(net))
      BY <1>1, <1>6, <1>7, <2>2
    <3>2. TodoOK(p)'
      BY <1>8, <2>2, <3>1 DEF TodoOK
    <3>3. MemOK(p)'
      BY <1>8, <3>1 DEF MemOK
    <3> QED
      BY <1>3, <1>8, <2>2, <3>2, <3>3 DEF Shapes
  <2> QED
    BY <2>1, <2>2
<1>11. ASSUME NEW d \in {"send", "recv"}, NEW q \in Parties
       PROVE  Progress(p, d, q) = DirFlow(c, n, p, d, q)
  <2>1. Progress(p, d, q) = IF Linked(c, n, p, q) /\ StageOf(c, n, p, d, q) <= Len(plan)
                            THEN DirFlow(c, n, p, d, q) ELSE 0
    BY <1>2, <1>4, <1>5
  <2>2. Linked(c, n, p, q) => StageOf(c, n, p, d, q) <= Len(plan)
    <3>1. Len(plan) \in Nat
      BY <1>6 DEF PlanOK, IsPlan
    <3> QED
      BY <1>6, <3>1, FlowIs DEF FlowOK
  <2>3. ~Linked(c, n, p, q) => DirFlow(c, n, p, d, q) = 0
    BY <1>6, LinkedBoth DEF DirFlow, FlowOf
  <2> QED
    BY <2>1, <2>2, <2>3
<1>12. ASSUME NEW d \in {"send", "recv"}, NEW q \in Parties
       PROVE  Progress(p, d, q)' = 0
  <2>1. CASE more
    <3>1. FreshProgress(p)' /\ FreshTasks(p)'
      BY <1>9, <2>1, FreshNext
    <3>2. PICK cc, nn, S, D :
            /\ cc = CallAt(call[p])' /\ nn = M' /\ S = StageOf(cc, nn, p, d, q)
            /\ D = DirFlow(cc, nn, p, d, q)
      OBVIOUS
    <3>3. Progress(p, d, q)' = IF Linked(cc, nn, p, q) /\ S < 1 THEN D ELSE 0
      BY <1>8, <3>1, <3>2 DEF FreshProgress
    <3>4. Linked(cc, nn, p, q) => ~(S < 1)
      <4>1. nn = n /\ cc = CallAt(r)
        BY <1>2, <1>5, <1>8, <3>2 DEF M, CallAt
      <4>2. r \in 1 .. LastCall(net)
        BY <1>1, <1>6, <1>7, <2>1
      <4>3. IsCall(cc, n)
        BY <1>5, <1>6, <4>1, <4>2, CallsOK DEF CallAt, M
      <4>4. PICK pl : pl = Stages(cc, n, p)
        OBVIOUS
      <4>5. PlanOK(cc, n, p, pl)
        BY <1>6, <4>3, <4>4, PlanRight
      <4>6. Linked(cc, n, p, q) => S \in 1 .. Len(pl)
        BY <1>6, <3>2, <4>1, <4>3, <4>5, FlowIs DEF FlowOK
      <4>7. Len(pl) \in Nat
        BY <4>5 DEF PlanOK, IsPlan
      <4> QED
        BY <4>1, <4>6, <4>7
    <3> QED
      BY <3>3, <3>4
  <2>2. CASE ~more
    <3>1. call'[p] > LastCall(net)'
      BY <1>1, <1>6, <1>7, <1>8, <2>2
    <3> QED
      BY <3>1 DEF Progress
  <2> QED
    BY <2>1, <2>2
<1>13. ASSUME NEW q \in Parties
       PROVE  Written(p, q)' = Written(p, q) /\ Taken(p, q)' = Taken(p, q)
  <2>1. PICK a, b, e, f : /\ a = Before(net, p, q, call[p] - 1) /\ b = Before(net, p, q, call[p])
                          /\ e = Before(net, q, p, call[p] - 1) /\ f = Before(net, q, p, call[p])
    OBVIOUS
  <2>2. Written(p, q) = a + FlowOf(c, n, p, q) /\ Taken(p, q) = e + FlowOf(c, n, q, p)
    BY <1>11, <2>1 DEF Written, Taken, DirFlow
  <2>3. Written(p, q)' = b + 0 /\ Taken(p, q)' = f + 0
    BY <1>2, <1>7, <1>8, <1>12, <2>1 DEF Written, Taken
  <2>4. b = a + FlowOf(c, n, p, q) /\ f = e + FlowOf(c, n, q, p) /\ a \in Nat /\ e \in Nat
    BY <1>5, <1>6, <2>1, BeforeNat DEF CallAt, M
  <2>5. FlowOf(c, n, p, q) \in Nat /\ FlowOf(c, n, q, p) \in Nat
    BY <1>6, FlowNat
  <2> QED
    BY <2>2, <2>3, <2>4, <2>5
<1>14. \A a \in Parties :
         /\ TodoOK(a)' /\ MemOK(a)' /\ DOMAIN mem'[a] = Parties
         /\ \A b \in Parties : Written(a, b)' = Written(a, b) /\ Taken(a, b)' = Taken(a, b)
  <2> SUFFICES ASSUME NEW a \in Parties
        PROVE  /\ TodoOK(a)' /\ MemOK(a)' /\ DOMAIN mem'[a] = Parties
               /\ \A b \in Parties : Written(a, b)' = Written(a, b) /\ Taken(a, b)' = Taken(a, b)
    OBVIOUS
  <2>1. CASE a # p
    <3>1. /\ stage'[a] = stage[a] /\ todo'[a] = todo[a] /\ broken'[a] = broken[a]
          /\ call'[a] = call[a] /\ mem'[a] = mem[a] /\ status'[a] = status[a]
          /\ TodoOK(a) /\ MemOK(a) /\ DOMAIN mem[a] = Parties
      BY <1>2, <1>3, <2>1 DEF Shapes, IInv
    <3> QED
      BY <1>2, <3>1, PartyStays
  <2>2. CASE a = p
    BY <1>10, <1>13, <2>2
  <2> QED
    BY <2>1, <2>2
<1>15. \A a, b \in Parties : ChanOK(a, b)'
  BY <1>2, <1>14, ChanStays DEF IInv
<1>16. Shapes'
  <2>1. /\ status' \in [Parties -> {"run", "done", "failed"}]
        /\ call' \in [Parties -> 1 .. LastCall(net) + 1]
        /\ stage' \in [Parties -> Nat]
        /\ DOMAIN todo' = Parties /\ DOMAIN broken' = Parties /\ DOMAIN mem' = Parties
    BY <1>2, <1>3, <1>7 DEF Shapes
  <2>2. gathered' \in [Parties -> Seq(SUBSET Parties)]
    <3>1. PICK G : G = Gathered(p, r - 1)
      OBVIOUS
    <3>2. G \in SUBSET Parties
      BY <1>5, <1>6, <1>7, <3>1 DEF Gathered, WaitsFor, Size, M, Parties
    <3>3. \A a \in Parties : gathered[a] \in Seq(SUBSET Parties)
      BY <1>3 DEF Shapes
    <3>4. \A a \in Parties : gathered'[a] \in Seq(SUBSET Parties)
      BY <1>2, <1>3, <3>1, <3>2, <3>3 DEF Shapes
    <3>5. gathered' = [a \in Parties |-> gathered'[a]]
      BY <1>2, <1>3 DEF Shapes
    <3> QED
      BY <3>4, <3>5
  <2> QED
    BY <1>2, <1>3, <1>8, <1>14, <2>1, <2>2 DEF Shapes
<1> QED
  BY <1>8, <1>14, <1>15, <1>16 DEF IInv

(* The invariant holds at first.                                           *)
LEMMA InitIInv ==
    ASSUME Init
    PROVE  IInv
<1>1. /\ net \in DOMAIN Deployments
      /\ status = [p \in Parties |-> "run"] /\ call = [p \in Parties |-> 1]
      /\ stage = [p \in Parties |-> 1] /\ todo = [p \in Parties |-> Plan(p, 1)[1]]
      /\ broken = [p \in Parties |-> {}]
      /\ chan = [p \in Parties |-> [q \in Parties |-> << >>]]
      /\ mem = [p \in Parties |-> Buffer(p, 1)]
      /\ gathered = [p \in Parties |-> << >>]
  BY DEF Init
<1>2. /\ M \in Nat /\ M >= 2 /\ LastCall(net) \in Nat /\ LastCall(net) >= 1
      /\ Parties = 0 .. M - 1 /\ \A r \in 1 .. LastCall(net) : IsCall(CallAt(r), M)
  BY <1>1, CallsOK DEF M, Parties, CallAt
<1>3. ASSUME NEW p \in Parties
      PROVE  /\ Fresh(p) /\ FreshRuns(p) /\ FreshCall(p)
             /\ \A d \in {"send", "recv"}, q \in Parties : Progress(p, d, q) = 0
  <2>1. PICK c, n, pl : c = CallAt(1) /\ n = M /\ pl = Plan(p, 1)
    OBVIOUS
  <2>2. 1 \in 1 .. LastCall(net) /\ p \in 0 .. n - 1 /\ n \in Nat /\ IsCall(c, n)
    BY <1>2, <2>1
  <2>3. PlanOK(c, n, p, pl)
    <3>1. PlanOK(c, n, p, Stages(c, n, p))
      BY <2>2, PlanRight
    <3> QED
      BY <2>1, <3>1 DEF Plan, CallAt, M
  <2>4. Len(pl) \in Nat /\ 1 \in 1 .. Len(pl)
    BY <2>3 DEF PlanOK, IsPlan
  <2>5. Fresh(p)
    BY <1>1, <2>1, <2>2, <2>4 DEF Fresh
  <2>6. FreshRuns(p) /\ FreshCall(p)
    BY <1>1, <2>5 DEF FreshRuns, FreshCall
  <2>7. ASSUME NEW d \in {"send", "recv"}, NEW q \in Parties PROVE Progress(p, d, q) = 0
    <3>1. FreshProgress(p)
      BY <2>5, FreshIs
    <3>2. Progress(p, d, q) = IF Linked(c, n, p, q) /\ StageOf(c, n, p, d, q) < 1
                              THEN DirFlow(c, n, p, d, q) ELSE 0
      BY <1>1, <2>1, <3>1 DEF FreshProgress
    <3>3. Linked(c, n, p, q) => StageOf(c, n, p, d, q) \in 1 .. Len(pl)
      BY <1>2, <2>1, <2>2, <2>3, FlowIs DEF FlowOK
    <3>4. Linked(c, n, p, q) => ~(StageOf(c, n, p, d, q) < 1)
      BY <2>4, <3>3
    <3> QED
      BY <3>2, <3>4
  <2> QED
    BY <2>5, <2>6, <2>7
<1>4. \A p \in Parties : TodoOK(p) /\ MemOK(p) /\ DOMAIN mem[p] = Parties
  BY <1>3, FreshOK DEF MemShape
<1>5. ASSUME NEW p \in Parties, NEW q \in Parties PROVE ChanOK(p, q)
  <2>1. Before(net, p, q, 0) = 0
    BY <1>1, <1>2, BeforeNat DEF M
  <2>2. Written(p, q) = 0 /\ Taken(q, p) = 0
    <3>1. call[p] - 1 = 0 /\ call[q] - 1 = 0
      BY <1>1
    <3>2. Progress(p, "send", q) = 0 /\ Progress(q, "recv", p) = 0
      BY <1>3
    <3> QED
      BY <2>1, <3>1, <3>2 DEF Written, Taken
  <2>3. chan[p][q] = << >>
    BY <1>1
  <2>4. Window \in Nat
    BY TaskNetAssumption
  <2> QED
    BY <2>2, <2>3, <2>4 DEF ChanOK
<1>6. Shapes
  <2>1. call \in [Parties -> 1 .. LastCall(net) + 1]
    BY <1>1, <1>2
  <2>2. gathered \in [Parties -> Seq(SUBSET Parties)]
    <3>1. PICK S : S = SUBSET Parties
      OBVIOUS
    <3>2. << >> \in Seq(S)
      OBVIOUS
    <3> QED
      BY <1>1, <3>1, <3>2
  <2>3. chan \in [Parties -> [Parties -> Seq(Segments)]]
    BY <1>1
  <2> QED
    BY <1>1, <1>4, <2>1, <2>2, <2>3 DEF Shapes
<1> QED
  BY <1>4, <1>5, <1>6 DEF IInv

(* Every step preserves it.                                                *)
LEMMA NextIInv == IInv /\ [Next]_vars => IInv'
<1> SUFFICES ASSUME IInv, [Next]_vars PROVE IInv'
  OBVIOUS
<1>1. ASSUME NEW p \in Parties, PartyStep(p) PROVE IInv'
  <2>1. ASSUME NEW k \in DOMAIN todo[p], TaskStep(p, k) PROVE IInv'
    <3>1. CASE Write(p, k)
      BY <3>1, WriteStep
    <3>2. CASE Read(p, k)
      BY <3>2, ReadStep
    <3>3. CASE TaskError(p, k)
      BY <3>3, StatusStep DEF TaskError
    <3> QED
      BY <2>1, <3>1, <3>2, <3>3 DEF TaskStep
  <2>2. CASE NextStage(p)
    BY <2>2, NextStageStep
  <2>3. CASE Return(p)
    BY <2>3, ReturnStep
  <2>4. CASE CallError(p)
    BY <2>4, StatusStep DEF CallError
  <2> QED
    BY <1>1, <2>1, <2>2, <2>3, <2>4 DEF PartyStep
<1>2. ASSUME NEW p \in Parties, Kill(p) PROVE IInv'
  BY <1>2, StatusStep DEF Kill
<1>3. CASE UNCHANGED vars
  <2>1. CASE Parties # {}
    BY <1>3, <2>1, StatusStep DEF vars
  <2>2. 0 \in Parties
    BY CallsOK DEF IInv, Shapes, Parties
  <2> QED
    BY <2>1, <2>2
<1> QED
  BY <1>1, <1>2, <1>3 DEF Next, Finished

(* The invariant holds in every reachable state.                           *)
THEOREM Invariance == Spec => []IInv
<1>1. Init => IInv
  BY InitIInv
<1>2. IInv /\ [Next]_vars => IInv'
  BY NextIInv
<1> QED
  BY <1>1, <1>2, PTL DEF Spec

(* What a task is about to read is what it is meant to read, of this very  *)
(* call, however far ahead the writer is (read_exact of the topologies).   *)
THEOREM ReadsRightBytes == Spec => []RightBytes
<1>1. IInv => RightBytes
  <2> SUFFICES ASSUME IInv, NEW p \in Parties, NEW k \in DOMAIN todo[p],
                      Live(p, k), CurrentOp(p, k).dir = "recv",
                      chan[CurrentOp(p, k).peer][p] # << >>
               PROVE  Head(chan[CurrentOp(p, k).peer][p]) = Intended(CurrentOp(p, k), call[p])
    BY DEF RightBytes
  <2> QED
    BY HeadIs
<1> QED
  BY <1>1, Invariance, PTL

(* A party that closes its connections has read all there was, and nobody  *)
(* sends it more: the flows of all calls to it end with its last call.     *)
THEOREM ClosesClean == Spec => []CleanClose
<1>1. IInv => CleanClose
  <2> SUFFICES ASSUME IInv, NEW p \in Parties, NEW q \in Parties, status[p] = "done"
               PROVE  chan[q][p] = << >>
    BY DEF CleanClose
  <2>1. /\ Shapes /\ TodoOK(p) /\ TodoOK(q) /\ ChanOK(q, p)
    BY DEF IInv
  <2>2. /\ LastCall(net) \in Nat /\ LastCall(net) >= 1 /\ net \in DOMAIN Deployments
        /\ p \in 0 .. Size(net) - 1 /\ q \in 0 .. Size(net) - 1
        /\ call[p] \in 1 .. LastCall(net) + 1 /\ call[q] \in 1 .. LastCall(net) + 1
    BY <2>1, CallsOK DEF Shapes, Parties
  <2>3. PICK L : L = LastCall(net)
    OBVIOUS
  <2>4. PICK t : BeforeAre(net, q, p, t)
    BY <2>2, BeforeAll
  <2>5. call[p] = L + 1
    BY <2>1, <2>3 DEF TodoOK
  <2>6. PICK a, b, w : a = t[L] /\ b = t[call[q] - 1] /\ w = Progress(q, "send", p)
    OBVIOUS
  <2>7. /\ call[q] - 1 \in 0 .. L /\ L \in 0 .. L
        /\ a \in Nat /\ b \in Nat /\ a = Before(net, q, p, L)
        /\ b = Before(net, q, p, call[q] - 1)
    BY <2>2, <2>3, <2>4, <2>6 DEF BeforeAre
  <2>8. Taken(p, q) = a
    <3>1. Progress(p, "recv", q) = 0
      BY <2>2, <2>3, <2>5, ProgressIs
    <3>2. call[p] - 1 = L
      BY <2>2, <2>3, <2>5
    <3> QED
      BY <2>7, <3>1, <3>2 DEF Taken
  <2>9. Written(q, p) = b + w /\ w \in Nat
    BY <2>6, <2>7, ProgressIs DEF Written
  <2>10. b + w <= a
    <3>1. CASE call[q] <= L
      <4>1. call[q] \in 1 .. L /\ call[q] \in 0 .. L
        BY <2>2, <2>3, <3>1
      <4>2. PICK f, e : f = FlowOf(CallAt(call[q]), M, q, p) /\ e = t[call[q]]
        OBVIOUS
      <4>3. w <= f
        <5>1. w <= DirFlow(CallAt(call[q]), M, q, "send", p)
          BY <2>3, <2>6, <3>1, ProgressIs
        <5> QED
          BY <4>2, <5>1 DEF DirFlow
      <4>4. e = b + f /\ e \in Nat /\ f \in Nat
        <5>1. f \in Nat
          BY <2>2, <2>3, <4>1, <4>2, CallsOK, FlowNat DEF CallAt, M
        <5>2. e = b + f /\ e \in Nat
          BY <2>3, <2>4, <2>6, <4>1, <4>2 DEF BeforeAre, CallAt, M
        <5> QED
          BY <5>1, <5>2
      <4>5. e <= a
        BY <2>2, <2>3, <2>4, <2>6, <2>7, <3>1, <4>1, <4>2, BeforeGrows
      <4> QED
        BY <2>7, <2>9, <4>3, <4>4, <4>5
    <3>2. CASE ~(call[q] <= L)
      <4>1. call[q] - 1 = L /\ call[q] > LastCall(net)
        BY <2>2, <2>3, <3>2
      <4>2. w = 0
        BY <2>6, <4>1, ProgressIs
      <4> QED
        BY <2>6, <2>7, <4>1, <4>2
    <3> QED
      BY <3>1, <3>2
  <2>11. PICK ch : ch = chan[q][p]
    OBVIOUS
  <2>12. ch \in Seq(Segments) /\ Len(ch) = Written(q, p) - Taken(p, q)
    BY <2>1, <2>11 DEF ChanOK, Shapes
  <2>13. Len(ch) \in Nat
    BY <2>12
  <2>14. Len(ch) = 0
    BY <2>7, <2>8, <2>9, <2>10, <2>12, <2>13
  <2> QED
    BY <2>11, <2>12, <2>14
<1> QED
  BY <1>1, Invariance, PTL

(* Where the i-th element from the end is, of m and of the last m of n.    *)
LEMMA FromTheEnd ==
    ASSUME NEW m \in Nat, NEW n \in Nat, m <= n, NEW i \in 1 .. m
    PROVE  (m - i) + 1 \in 1 .. m /\ (n - m) + ((m - i) + 1) = (n - i) + 1 /\ i \in 1 .. n
  OBVIOUS

(* What is left to do is the end of the plan.                              *)
LEMMA SuffixOf ==
    ASSUME NEW S, NEW s \in Seq(S), NEW t \in Seq(S), Len(s) <= Len(t),
           \A i \in 1 .. Len(s) : s[i] = t[(Len(t) - Len(s)) + i]
    PROVE  IsSuffix(s, t)
<1>1. PICK a, b, m, n : /\ a = Reverse(s) /\ b = Reverse(t) /\ m = Len(s) /\ n = Len(t)
  OBVIOUS
<1>2. m \in Nat /\ n \in Nat /\ m <= n
  BY <1>1
<1>3. a = [i \in 1 .. m |-> s[(m - i) + 1]] /\ b = [i \in 1 .. n |-> t[(n - i) + 1]]
  BY <1>1 DEF Reverse
<1>4. \A i \in 1 .. m : s[i] \in S
  BY <1>1
<1>5. \A i \in 1 .. n : t[i] \in S
  BY <1>1
<1>6. a \in Seq(S) /\ Len(a) = m
  <2>1. \A i \in 1 .. m : (m - i) + 1 \in 1 .. m
    BY <1>2
  <2> QED
    BY <1>2, <1>3, <1>4, <2>1
<1>7. b \in Seq(S) /\ Len(b) = n
  <2>1. \A i \in 1 .. n : (n - i) + 1 \in 1 .. n
    BY <1>2
  <2> QED
    BY <1>2, <1>3, <1>5, <2>1
<1>8. ASSUME NEW i \in 1 .. m PROVE a[i] = b[i]
  <2>1. (m - i) + 1 \in 1 .. m /\ (n - m) + ((m - i) + 1) = (n - i) + 1 /\ i \in 1 .. n
    BY <1>2, FromTheEnd
  <2>2. s[(m - i) + 1] = t[(n - m) + ((m - i) + 1)]
    BY <1>1, <2>1
  <2> QED
    BY <1>3, <2>1, <2>2
<1>9. SubSeq(a, 1, m) = SubSeq(b, 1, m)
  <2>1. PICK u, v : u = SubSeq(a, 1, m) /\ v = SubSeq(b, 1, m)
    OBVIOUS
  <2>2. \A i \in 1 .. m : a[i] \in S /\ b[i] \in S
    BY <1>2, <1>6, <1>7
  <2>3. /\ u \in Seq(S) /\ v \in Seq(S)
        /\ Len(u) = IF 1 <= m THEN m - 1 + 1 ELSE 0
        /\ Len(v) = IF 1 <= m THEN m - 1 + 1 ELSE 0
        /\ \A i \in 1 .. m - 1 + 1 : u[i] = a[1 + i - 1] /\ v[i] = b[1 + i - 1]
    BY <1>2, <2>1, <2>2, SubSeqProperties
  <2>4. Len(u) = m /\ Len(v) = m
    BY <1>2, <2>3
  <2>5. \A i \in 1 .. m : u[i] = v[i]
    <3> SUFFICES ASSUME NEW i \in 1 .. m PROVE u[i] = v[i]
      OBVIOUS
    <3>1. i \in 1 .. m - 1 + 1 /\ 1 + i - 1 = i
      BY <1>2
    <3> QED
      BY <1>8, <2>3, <3>1
  <2> QED
    BY <2>1, <2>3, <2>4, <2>5, SeqEqual
<1> QED
  BY <1>1, <1>2, <1>6, <1>7, <1>9 DEF IsSuffix, IsPrefix

(* Every task has the end of its plan left to do, and no connection holds  *)
(* more than it can.                                                       *)
THEOREM TypeCorrect == Spec => []TypeOK
<1>1. IInv => TypeOK
  <2> SUFFICES ASSUME IInv PROVE TypeOK
    OBVIOUS
  <2>1. Shapes
    BY DEF IInv
  <2>2. ASSUME NEW p \in Parties, Running(p)
        PROVE  /\ stage[p] \in DOMAIN Plan(p, call[p])
               /\ \A k \in DOMAIN todo[p] : IsSuffix(todo[p][k], Plan(p, call[p])[stage[p]][k])
               /\ broken[p] \subseteq DOMAIN todo[p]
    <3>1. call[p] <= LastCall(net) /\ TodoOK(p)
      <4>1. LastCall(net) \in Nat /\ call[p] \in 1 .. LastCall(net) + 1
        BY <2>1, CallsOK DEF Shapes
      <4> QED
        BY <2>2, <4>1 DEF IInv, TodoOK, Running
    <3>2. PICK plan, n, c : plan = Plan(p, call[p]) /\ n = M /\ c = CallAt(call[p])
      OBVIOUS
    <3>3. PlanOK(c, n, p, plan)
      BY <2>1, <3>1, <3>2, Here
    <3>4. /\ stage[p] \in 1 .. Len(plan) /\ DOMAIN plan = 1 .. Len(plan)
          /\ DOMAIN todo[p] = DOMAIN plan[stage[p]] /\ broken[p] \subseteq DOMAIN todo[p]
      BY <3>1, <3>2, <3>3 DEF TodoOK, PlanOK, IsPlan
    <3>5. ASSUME NEW k \in DOMAIN todo[p] PROVE IsSuffix(todo[p][k], plan[stage[p]][k])
      <4>1. PICK S, s, t : S = Ops(c, n) /\ s = todo[p][k] /\ t = plan[stage[p]][k]
        OBVIOUS
      <4>2. t \in Seq(S)
        BY <3>3, <3>4, <4>1 DEF PlanOK, IsPlan
      <4>3. /\ s \in Seq(S) /\ Len(s) <= Len(t)
            /\ \A i \in 1 .. Len(s) : s[i] = t[(Len(t) - Len(s)) + i]
        BY <3>1, <3>2, <4>1 DEF TodoOK, Done
      <4> QED
        BY <4>1, <4>2, <4>3, SuffixOf
    <3> QED
      BY <3>2, <3>4, <3>5
  <2>3. call \in [Parties -> 1 .. LastCall(net) + 1] /\ net \in DOMAIN Deployments
        /\ status \in [Parties -> {"run", "done", "failed"}]
    BY <2>1 DEF Shapes
  <2>4. \A p, q \in Parties : Len(chan[p][q]) <= Window
    BY DEF IInv, ChanOK
  <2> QED
    BY <2>2, <2>3, <2>4 DEF TypeOK
<1> QED
  BY <1>1, Invariance, PTL

-----------------------------------------------------------------------------
(* Errors.                                                                 *)

(* Nobody writes, or takes, more than what belongs to the calls up to that *)
(* it is in; after the last call that is everything.                       *)
LEMMA NotBeyond ==
    ASSUME IInv, NEW p \in Parties, NEW q \in Parties,
           NEW r \in 0 .. LastCall(net), call[p] <= r \/ r = LastCall(net)
    PROVE  /\ Written(p, q) <= Before(net, p, q, r)
           /\ Taken(p, q) <= Before(net, q, p, r)
           /\ Written(p, q) \in Nat /\ Taken(p, q) \in Nat
<1>1. /\ Shapes /\ net \in DOMAIN Deployments /\ LastCall(net) \in Nat
      /\ p \in 0 .. Size(net) - 1 /\ q \in 0 .. Size(net) - 1
      /\ call[p] \in 1 .. LastCall(net) + 1
  BY CallsOK DEF IInv, Shapes, Parties
<1>2. PICK L, s : L = LastCall(net) /\ s = call[p]
  OBVIOUS
<1>3. ASSUME NEW a \in 0 .. Size(net) - 1, NEW b \in 0 .. Size(net) - 1, NEW w \in Nat,
             s <= L => w <= FlowOf(CallAt(s), M, a, b), s > L => w = 0
      PROVE  Before(net, a, b, s - 1) + w <= Before(net, a, b, r) /\ Before(net, a, b, s - 1) + w \in Nat
  <2>1. PICK t : BeforeAre(net, a, b, t)
    BY <1>1, BeforeAll
  <2>2. PICK u, v : u = t[s - 1] /\ v = t[r]
    OBVIOUS
  <2>3. s - 1 \in 0 .. L /\ r \in 0 .. L /\ L \in Nat /\ s \in Nat
    BY <1>1, <1>2
  <2>4. /\ u \in Nat /\ v \in Nat
        /\ Before(net, a, b, s - 1) = u /\ Before(net, a, b, r) = v
    BY <1>2, <2>1, <2>2, <2>3 DEF BeforeAre
  <2>5. CASE s <= L
    <3>1. s \in 1 .. L /\ s \in 0 .. L /\ s <= r
      BY <1>1, <1>2, <2>3, <2>5
    <3>2. PICK e, f : e = t[s] /\ f = FlowOf(CallAt(s), M, a, b)
      OBVIOUS
    <3>3. f \in Nat
      BY <1>1, <1>2, <3>1, <3>2, CallsOK, FlowNat DEF CallAt, M
    <3>4. e = u + f
      BY <1>2, <2>1, <2>2, <3>1, <3>2 DEF BeforeAre, CallAt, M
    <3>5. e <= v
      BY <1>1, <1>2, <2>1, <2>2, <2>3, <3>1, <3>2, BeforeGrows
    <3>6. w <= f
      BY <1>3, <2>5, <3>2
    <3> QED
      BY <2>4, <3>3, <3>4, <3>5, <3>6
  <2>6. CASE s > L
    <3>1. w = 0 /\ r = L /\ s - 1 = L
      BY <1>1, <1>2, <1>3, <2>3, <2>6
    <3> QED
      BY <2>2, <2>4, <3>1
  <2> QED
    BY <2>3, <2>5, <2>6
<1>4. PICK w, x : w = Progress(p, "send", q) /\ x = Progress(p, "recv", q)
  OBVIOUS
<1>5. /\ w \in Nat /\ x \in Nat
      /\ s <= L => w <= FlowOf(CallAt(s), M, p, q) /\ x <= FlowOf(CallAt(s), M, q, p)
      /\ s > L => w = 0 /\ x = 0
  <2>1. w \in Nat /\ x \in Nat /\ (s > L => w = 0 /\ x = 0)
    BY <1>2, <1>4, ProgressIs
  <2>2. s <= L => /\ w <= DirFlow(CallAt(s), M, p, "send", q)
                  /\ x <= DirFlow(CallAt(s), M, p, "recv", q)
    BY <1>2, <1>4, ProgressIs
  <2> QED
    BY <2>1, <2>2 DEF DirFlow
<1>6. /\ Before(net, p, q, s - 1) + w <= Before(net, p, q, r)
      /\ Before(net, p, q, s - 1) + w \in Nat
  BY <1>1, <1>3, <1>5
<1>7. /\ Before(net, q, p, s - 1) + x <= Before(net, q, p, r)
      /\ Before(net, q, p, s - 1) + x \in Nat
  BY <1>1, <1>3, <1>5
<1> QED
  BY <1>2, <1>4, <1>6, <1>7 DEF Written, Taken

(* Nor less than what belongs to the calls before.                         *)
LEMMA NotBehind ==
    ASSUME IInv, NEW p \in Parties, NEW q \in Parties, NEW r \in 0 .. LastCall(net), r < call[p]
    PROVE  /\ Before(net, p, q, r) <= Written(p, q)
           /\ Before(net, q, p, r) <= Taken(p, q)
<1>1. /\ Shapes /\ net \in DOMAIN Deployments /\ LastCall(net) \in Nat
      /\ p \in 0 .. Size(net) - 1 /\ q \in 0 .. Size(net) - 1
      /\ call[p] \in 1 .. LastCall(net) + 1
  BY CallsOK DEF IInv, Shapes, Parties
<1>2. PICK s : s = call[p] - 1
  OBVIOUS
<1>3. s \in 0 .. LastCall(net) /\ r <= s
  BY <1>1, <1>2
<1>4. ASSUME NEW a \in 0 .. Size(net) - 1, NEW b \in 0 .. Size(net) - 1, NEW w \in Nat
      PROVE  Before(net, a, b, r) <= Before(net, a, b, s) + w
  <2>1. PICK t : BeforeAre(net, a, b, t)
    BY <1>1, BeforeAll
  <2>2. PICK u, v : u = t[r] /\ v = t[s]
    OBVIOUS
  <2>3. u \in Nat /\ v \in Nat /\ Before(net, a, b, r) = u /\ Before(net, a, b, s) = v
    BY <1>3, <2>1, <2>2 DEF BeforeAre
  <2>4. u <= v
    BY <1>1, <1>3, <2>1, <2>2, BeforeGrows
  <2> QED
    BY <2>3, <2>4
<1>5. PICK w, x : w = Progress(p, "send", q) /\ x = Progress(p, "recv", q)
  OBVIOUS
<1>6. w \in Nat /\ x \in Nat
  BY <1>5, ProgressIs
<1>7. /\ Before(net, p, q, r) <= Before(net, p, q, s) + w
      /\ Before(net, q, p, r) <= Before(net, q, p, s) + x
  BY <1>1, <1>4, <1>6
<1> QED
  BY <1>2, <1>5, <1>7 DEF Written, Taken

(* Nothing is taken that has not been written.                             *)
LEMMA TakenIsWritten ==
    ASSUME IInv, NEW p \in Parties, NEW q \in Parties
    PROVE  /\ Taken(p, q) <= Written(q, p)
           /\ Len(chan[q][p]) = Written(q, p) - Taken(p, q)
           /\ Taken(p, q) = Written(q, p) => chan[q][p] = << >>
<1>1. PICK ch, w, t : ch = chan[q][p] /\ w = Written(q, p) /\ t = Taken(p, q)
  OBVIOUS
<1>2. ch \in Seq(Segments) /\ Len(ch) = w - t
  BY <1>1 DEF IInv, Shapes, ChanOK
<1>3. w \in Nat /\ t \in Nat
  <2>1. LastCall(net) \in 0 .. LastCall(net)
    BY CallsOK DEF IInv, Shapes
  <2> QED
    BY <1>1, <2>1, NotBeyond
<1>4. Len(ch) \in Nat
  BY <1>2
<1>5. t <= w /\ (t = w => Len(ch) = 0)
  BY <1>2, <1>3, <1>4
<1>6. Len(ch) = 0 => ch = << >>
  BY <1>2
<1> QED
  BY <1>1, <1>2, <1>5, <1>6

(* A task with something left to read from a party that has closed finds   *)
(* it in the channel, and none has anything left to write to it.           *)
LEMMA ClosedPeer ==
    ASSUME IInv, NEW p \in Parties, NEW k, Live(p, k), NEW op, op = CurrentOp(p, k),
           status[op.peer] = "done"
    PROVE  op.dir = "recv" /\ chan[op.peer][p] # << >>
<1>1. OpHere(p, k) /\ call[p] <= LastCall(net) /\ Shapes
  BY OpIs DEF IInv
<1>2. PICK q, L, r, i : /\ q = op.peer /\ L = LastCall(net) /\ r = call[p]
                        /\ i = Progress(p, op.dir, q) + 1
  OBVIOUS
<1>3. /\ q \in Parties /\ L \in Nat /\ r \in 1 .. L /\ r - 1 \in 0 .. L /\ L \in 0 .. L
      /\ op.dir \in {"send", "recv"} /\ net \in DOMAIN Deployments
      /\ p \in 0 .. Size(net) - 1 /\ q \in 0 .. Size(net) - 1
  <2>1. q \in Parties /\ op.dir \in {"send", "recv"}
    BY <1>1, <1>2 DEF OpHere, Ops
  <2>2. L \in Nat /\ r \in 1 .. L + 1 /\ r <= L /\ net \in DOMAIN Deployments
    BY <1>1, <1>2, CallsOK DEF Shapes
  <2> QED
    BY <2>1, <2>2 DEF Parties
<1>4. call[q] = L + 1
  BY <1>2, <1>3 DEF IInv, TodoOK
<1>5. ASSUME NEW a \in 0 .. Size(net) - 1, NEW b \in 0 .. Size(net) - 1,
             NEW x, x + 1 = Before(net, a, b, r - 1) + i,
             i \in 1 .. FlowOf(CallAt(r), M, a, b), x \in Nat
      PROVE  x + 1 <= Before(net, a, b, L) /\ Before(net, a, b, L) \in Nat
  <2>1. PICK t : BeforeAre(net, a, b, t)
    BY <1>3, BeforeAll
  <2>2. PICK u, v, e, f : u = t[r - 1] /\ v = t[r] /\ e = t[L] /\ f = FlowOf(CallAt(r), M, a, b)
    OBVIOUS
  <2>3. f \in Nat
    BY <1>2, <1>3, <2>2, CallsOK, FlowNat DEF CallAt, M
  <2>4. r \in 0 .. L /\ r <= L
    BY <1>3
  <2>5. u \in Nat /\ v \in Nat /\ e \in Nat
    BY <1>2, <1>3, <2>1, <2>2, <2>4 DEF BeforeAre
  <2>6. Before(net, a, b, r - 1) = u /\ Before(net, a, b, L) = e
    BY <1>2, <1>3, <2>1, <2>2 DEF BeforeAre
  <2>7. v = u + f
    BY <1>2, <1>3, <2>1, <2>2 DEF BeforeAre, CallAt, M
  <2>8. v <= e
    BY <1>2, <1>3, <2>1, <2>2, <2>4, BeforeGrows
  <2>9. i <= f /\ i \in Nat
    BY <1>5, <2>2, <2>3
  <2>10. x + 1 = u + i
    BY <1>5, <2>6
  <2> QED
    BY <2>3, <2>5, <2>6, <2>7, <2>8, <2>9, <2>10
<1>6. PICK a, b, e, f : /\ a = Before(net, p, q, L) /\ b = Before(net, q, p, L)
                        /\ e = Written(p, q) /\ f = Taken(p, q)
  OBVIOUS
<1>7. /\ Taken(q, p) = a /\ Written(q, p) = b /\ e \in Nat /\ f \in Nat
      /\ Taken(q, p) \in Nat /\ Written(q, p) \in Nat
  <2>1. L < call[q] /\ L \in 0 .. LastCall(net)
    BY <1>2, <1>3, <1>4
  <2>2. a <= Taken(q, p) /\ b <= Written(q, p)
    BY <1>3, <1>6, <2>1, NotBehind
  <2>3. /\ Taken(q, p) <= a /\ Written(q, p) <= b
        /\ Taken(q, p) \in Nat /\ Written(q, p) \in Nat
    BY <1>2, <1>3, <1>6, <2>1, NotBeyond
  <2>4. e \in Nat /\ f \in Nat
    BY <1>2, <1>3, <1>6, <2>1, NotBeyond
  <2>5. a \in Nat /\ b \in Nat
    <3>1. L + 1 \in 1 .. LastCall(net) + 1 /\ (L + 1) - 1 = L
      BY <1>2, <1>3
    <3> QED
      BY <1>3, <1>6, <3>1, BeforeTyped
  <2> QED
    BY <2>2, <2>3, <2>4, <2>5
<1>8. CASE op.dir = "send"
  <2>1. i \in 1 .. FlowOf(CallAt(r), M, p, q) /\ e + 1 = Before(net, p, q, r - 1) + i
    BY <1>2, <1>6, <1>8, NextSegment
  <2>2. e + 1 <= a
    BY <1>3, <1>5, <1>6, <1>7, <2>1
  <2>3. a <= e
    BY <1>3, <1>6, <1>7, TakenIsWritten
  <2> QED
    BY <1>6, <1>7, <2>2, <2>3
<1>9. CASE op.dir = "recv"
  <2>1. i \in 1 .. FlowOf(CallAt(r), M, q, p) /\ f + 1 = Before(net, q, p, r - 1) + i
    BY <1>2, <1>6, <1>9, NextSegment
  <2>2. f + 1 <= b
    BY <1>3, <1>5, <1>6, <1>7, <2>1
  <2>3. Len(chan[q][p]) = b - f
    BY <1>3, <1>6, <1>7, TakenIsWritten
  <2>4. Len(chan[q][p]) # 0
    BY <1>6, <1>7, <2>2, <2>3
  <2>5. Len(<< >>) = 0
    OBVIOUS
  <2> QED
    BY <1>2, <1>9, <2>4, <2>5
<1> QED
  BY <1>3, <1>8, <1>9

(* Unless one of those who may fail has, no task has ended in an error.    *)
NoErrors ==
    \/ \E p \in Parties \cap MayFail : status[p] = "failed"
    \/ \A p \in Parties : status[p] # "failed" /\ broken[p] = {}

(* Every step preserves it.                                                *)
LEMMA NextNoErrors == IInv /\ NoErrors /\ [Next]_vars => NoErrors'
<1> SUFFICES ASSUME IInv, NoErrors, [Next]_vars PROVE NoErrors'
  OBVIOUS
<1>1. Shapes
  BY DEF IInv
<1>2. net' = net /\ Parties' = Parties
  <2>1. ASSUME NEW p \in Parties, PartyStep(p) \/ Kill(p) PROVE net' = net
    <3>1. ASSUME NEW k, TaskStep(p, k) PROVE net' = net
      BY <3>1 DEF TaskStep, Write, Read, TaskError
    <3>2. ASSUME NextStage(p) \/ Return(p) \/ CallError(p) \/ Kill(p) PROVE net' = net
      BY <3>2 DEF NextStage, Return, CallError, Kill
    <3> QED
      BY <2>1, <3>1, <3>2 DEF PartyStep
  <2>2. net' = net
    BY <2>1 DEF Next, Finished, vars
  <2> QED
    BY <2>2 DEF Parties
<1>3. ASSUME NEW q \in Parties \cap MayFail, status[q] = "failed" PROVE NoErrors'
  <2>1. q \in Parties /\ status[q] # "run" /\ status \in [Parties -> {"run", "done", "failed"}]
    BY <1>1, <1>3 DEF Shapes
  <2>2. status'[q] = status[q]
    <3>1. ASSUME NEW p \in Parties, Running(p),
                 \/ status' = status
                 \/ \E x : status' = [status EXCEPT ![p] = x]
          PROVE  status'[q] = status[q]
      BY <2>1, <3>1 DEF Running
    <3>2. ASSUME NEW p \in Parties, PartyStep(p) \/ Kill(p) PROVE status'[q] = status[q]
      <4>1. CASE \E k \in DOMAIN todo[p] : TaskStep(p, k)
        BY <4>1 DEF TaskStep, Write, Read, TaskError
      <4>2. CASE NextStage(p)
        BY <4>2 DEF NextStage
      <4>3. CASE Return(p) \/ CallError(p) \/ Kill(p)
        BY <3>1, <4>3 DEF Return, StageDone, CallError, Kill
      <4> QED
        BY <3>2, <4>1, <4>2, <4>3 DEF PartyStep
    <3> QED
      BY <3>2 DEF Next, Finished, vars
  <2> QED
    BY <1>2, <1>3, <2>2 DEF NoErrors
<1>4. ASSUME \A p \in Parties : status[p] # "failed" /\ broken[p] = {} PROVE NoErrors'
  <2>1. ASSUME NEW p \in Parties, NEW b \in {broken[p], {}}, NEW s, s # "failed",
               broken' = [broken EXCEPT ![p] = b], status' = [status EXCEPT ![p] = s]
        PROVE  NoErrors'
    <3>1. \A a \in Parties : broken'[a] = {} /\ status'[a] # "failed"
      BY <1>1, <1>4, <2>1 DEF Shapes
    <3> QED
      BY <1>2, <3>1 DEF NoErrors
  <2>2. ASSUME UNCHANGED <<status, broken>> PROVE NoErrors'
    BY <1>2, <1>4, <2>2 DEF NoErrors
  <2>3. ASSUME NEW p \in Parties, NEW k \in DOMAIN todo[p], TaskStep(p, k) PROVE NoErrors'
    <3>1. CASE Write(p, k) \/ Read(p, k)
      BY <2>2, <3>1 DEF Write, Read
    <3>2. CASE TaskError(p, k)
      <4>1. PICK op : op = CurrentOp(p, k)
        OBVIOUS
      <4>2. op.peer \in Parties
        BY <3>2, <4>1, OpIs DEF TaskError, OpHere
      <4>3. status[op.peer] = "done" /\ (op.dir = "recv" => chan[op.peer][p] = << >>)
        BY <1>4, <3>2, <4>1, <4>2 DEF TaskError
      <4> QED
        BY <3>2, <4>1, <4>3, ClosedPeer DEF TaskError
    <3> QED
      BY <2>3, <3>1, <3>2 DEF TaskStep
  <2>4. ASSUME NEW p \in Parties, NextStage(p) PROVE NoErrors'
    <3>1. broken' = [broken EXCEPT ![p] = {}] /\ status' = status
      BY <2>4 DEF NextStage
    <3>2. \A a \in Parties : broken'[a] = {} /\ status'[a] # "failed"
      BY <1>1, <1>4, <3>1 DEF Shapes
    <3> QED
      BY <1>2, <3>2 DEF NoErrors
  <2>5. ASSUME NEW p \in Parties, Return(p) PROVE NoErrors'
    <3>1. PICK s : s = IF call[p] + 1 <= LastCall(net) THEN "run" ELSE "done"
      OBVIOUS
    <3>2. broken' = [broken EXCEPT ![p] = {}] /\ status' = [status EXCEPT ![p] = s]
      BY <2>5, <3>1 DEF Return
    <3>3. s # "failed"
      BY <3>1
    <3> QED
      BY <2>1, <3>2, <3>3
  <2>6. ASSUME NEW p \in Parties, CallError(p) PROVE NoErrors'
    BY <1>4, <2>6 DEF CallError
  <2>7. ASSUME NEW p \in Parties, Kill(p) PROVE NoErrors'
    <3>1. p \in Parties \cap MayFail /\ status'[p] = "failed"
      BY <1>1, <2>7 DEF Kill, Shapes
    <3> QED
      BY <1>2, <3>1 DEF NoErrors
  <2>8. CASE UNCHANGED vars
    BY <2>2, <2>8 DEF vars
  <2> QED
    BY <2>3, <2>4, <2>5, <2>6, <2>7, <2>8 DEF Next, PartyStep, Finished
<1> QED
  BY <1>3, <1>4 DEF NoErrors

(* Nobody ends in an error, be it because a faster party has closed its    *)
(* connections, unless somebody was killed: who closes has written all     *)
(* that the others are still to read, and has read all they write.         *)
THEOREM NobodyFailsAlone == Spec => []OnlyAfterKill
<1>1. Init => NoErrors
  BY DEF Init, NoErrors
<1>2. IInv /\ NoErrors /\ [Next]_vars => NoErrors'
  BY NextNoErrors
<1>3. NoErrors => OnlyAfterKill
  BY DEF NoErrors, OnlyAfterKill
<1> QED
  BY <1>1, <1>2, <1>3, Invariance, PTL DEF Spec

-----------------------------------------------------------------------------
(* What a call leaves behind.                                              *)

(* What is of a call of its owner is not of a later one than the owner is  *)
(* in, in a buffer and on its way.                                         *)
MemTags(p, j) ==
    /\ mem[p][j] = [i \in DOMAIN mem[p][j] |-> mem[p][j][i]]
    /\ \A i \in DOMAIN mem[p][j] : mem[p][j][i].call \in 0 .. call[j]

ChanTags(p, q) ==
    \A i \in 1 .. Len(chan[p][q]) :
        chan[p][q][i].kind = "data" => chan[p][q][i].call \in 0 .. call[chan[p][q][i].owner]

Tags ==
    /\ \A p \in Parties : Len(gathered[p]) = call[p] - 1
    /\ \A p, j \in Parties : MemTags(p, j)
    /\ \A p, q \in Parties : ChanTags(p, q)

(* It is so in the beginning.                                              *)
LEMMA InitTags == Init => Tags
<1> SUFFICES ASSUME Init PROVE Tags
  OBVIOUS
<1>1. /\ call = [p \in Parties |-> 1] /\ gathered = [p \in Parties |-> << >>]
      /\ mem = [p \in Parties |-> Buffer(p, 1)]
      /\ chan = [p \in Parties |-> [q \in Parties |-> << >>]]
  BY DEF Init
<1>2. ASSUME NEW p \in Parties PROVE Len(gathered[p]) = call[p] - 1
  BY <1>1
<1>3. ASSUME NEW p \in Parties, NEW j \in Parties PROVE MemTags(p, j)
  <2>1. call[j] = 1 /\ mem[p][j] = Chunk(j, 1, IF j = p THEN 1 ELSE 0)
    BY <1>1 DEF Buffer
  <2> QED
    BY <2>1 DEF MemTags, Chunk
<1>4. ASSUME NEW p \in Parties, NEW q \in Parties PROVE ChanTags(p, q)
  BY <1>1 DEF ChanTags
<1> QED
  BY <1>2, <1>3, <1>4 DEF Tags

(* Nothing of it changes when the data, the calls and the channels do not. *)
LEMMA TagsStay ==
    ASSUME Tags, UNCHANGED <<net, call, chan, mem, gathered>>
    PROVE  Tags'
BY DEF Tags, MemTags, ChanTags, Parties

(* What is written comes from the buffer.                                  *)
LEMMA TagsWrite ==
    ASSUME IInv, Tags, NEW p \in Parties, NEW k, Write(p, k)
    PROVE  Tags'
<1>1. PICK op : op = CurrentOp(p, k)
  OBVIOUS
<1>2. PICK q, s, ch : /\ q = op.peer /\ ch = chan[p][q]
                      /\ s = IF op.kind = "data" THEN mem[p][op.owner][op.piece]
                             ELSE Intended(op, call[p])
  OBVIOUS
<1>3. /\ Live(p, k) /\ op.dir = "send"
      /\ chan' = [chan EXCEPT ![p][q] = Append(@, s)]
      /\ net' = net /\ call' = call /\ mem' = mem /\ gathered' = gathered
  BY <1>1, <1>2 DEF Write
<1>4. OpHere(p, k) /\ call[p] <= LastCall(net) /\ Shapes /\ MemOK(p)
  BY <1>3, OpIs DEF IInv
<1>5. op \in Ops(CallAt(call[p]), M) /\ q \in Parties /\ op.owner \in Parties
  <2>1. op \in Ops(CallAt(call[p]), M) /\ q \in Parties
    BY <1>1, <1>2, <1>4 DEF OpHere
  <2> QED
    BY <2>1 DEF Ops, Parties, M
<1>6. ASSUME op.kind = "data" PROVE s.owner = op.owner /\ s.call \in 0 .. call[op.owner]
  <2>1. s = Intended(op, call[p])
    BY <1>1, <1>2, <1>3, <1>6, SendsRight
  <2>2. op.piece \in 1 .. CallAt(call[p]).size
    BY <1>1, <1>4, <1>6 DEF OpHere, OpOK
  <2>3. op.piece \in DOMAIN mem[p][op.owner]
    BY <1>4, <1>5, <2>2 DEF MemOK
  <2>4. MemTags(p, op.owner)
    BY <1>5 DEF Tags
  <2>5. s.call \in 0 .. call[op.owner]
    BY <1>2, <1>6, <2>3, <2>4 DEF MemTags
  <2> QED
    BY <2>1, <2>5 DEF Intended
<1>7. s.kind = op.kind
  <2>1. s = Intended(op, call[p])
    BY <1>1, <1>2, <1>3, SendsRight
  <2> QED
    BY <2>1 DEF Intended
<1>8. ch \in Seq(Segments) /\ ChanTags(p, q)
  <2>1. ch \in Seq(Segments)
    BY <1>2, <1>4, <1>5 DEF Shapes
  <2>2. ChanTags(p, q)
    BY <1>5 DEF Tags
  <2> QED
    BY <2>1, <2>2
<1>9. /\ Len(ch) \in Nat /\ Len(Append(ch, s)) = Len(ch) + 1 /\ Append(ch, s)[Len(ch) + 1] = s
      /\ \A i \in 1 .. Len(ch) : Append(ch, s)[i] = ch[i]
  BY <1>8
<1>10. Parties' = Parties
  BY <1>3 DEF Parties
<1>11. ASSUME NEW a \in Parties, NEW b \in Parties PROVE ChanTags(a, b)'
  <2>1. CASE a = p /\ b = q
    <3>1. chan'[a][b] = Append(ch, s)
      BY <1>2, <1>3, <1>4, <1>5, <2>1 DEF Shapes
    <3>2. ASSUME NEW i \in 1 .. Len(ch) + 1, Append(ch, s)[i].kind = "data"
          PROVE  Append(ch, s)[i].call \in 0 .. call[Append(ch, s)[i].owner]
      <4>1. CASE i = Len(ch) + 1
        BY <1>6, <1>7, <1>9, <3>2, <4>1
      <4>2. CASE i # Len(ch) + 1
        <5>1. i \in 1 .. Len(ch)
          BY <1>9, <4>2
        <5>2. Append(ch, s)[i] = ch[i]
          BY <1>9, <5>1
        <5>3. ch[i].kind = "data" => ch[i].call \in 0 .. call[ch[i].owner]
          BY <1>2, <1>8, <5>1 DEF ChanTags
        <5> QED
          BY <3>2, <5>2, <5>3
      <4> QED
        BY <4>1, <4>2
    <3> QED
      BY <1>3, <1>9, <3>1, <3>2 DEF ChanTags
  <2>2. CASE ~(a = p /\ b = q)
    <3>1. DOMAIN chan = Parties /\ DOMAIN chan[p] = Parties
      BY <1>4 DEF Shapes
    <3>2. chan'[a] = IF a = p THEN [chan[p] EXCEPT ![q] = Append(chan[p][q], s)] ELSE chan[a]
      BY <1>3, <3>1
    <3>3. chan'[a][b] = chan[a][b]
      BY <2>2, <3>1, <3>2
    <3> QED
      BY <1>3, <3>3 DEF Tags, ChanTags
  <2> QED
    BY <2>1, <2>2
<1> QED
  BY <1>3, <1>10, <1>11 DEF Tags, MemTags

(* What is read comes from the channel.                                    *)
LEMMA TagsRead ==
    ASSUME IInv, Tags, NEW p \in Parties, NEW k, Read(p, k)
    PROVE  Tags'
<1>1. PICK op : op = CurrentOp(p, k)
  OBVIOUS
<1>2. PICK q, ch : q = op.peer /\ ch = chan[q][p]
  OBVIOUS
<1>3. /\ Live(p, k) /\ op.dir = "recv" /\ ch # << >>
      /\ chan' = [chan EXCEPT ![q][p] = Tail(@)]
      /\ mem' = IF op.kind = "data" THEN [mem EXCEPT ![p][op.owner][op.piece] = Head(ch)]
                ELSE mem
      /\ net' = net /\ call' = call /\ gathered' = gathered
  BY <1>1, <1>2 DEF Read
<1>4. OpHere(p, k) /\ call[p] <= LastCall(net) /\ Shapes
  BY <1>3, OpIs DEF IInv
<1>5. op \in Ops(CallAt(call[p]), M) /\ q \in Parties /\ op.owner \in Parties
  <2>1. op \in Ops(CallAt(call[p]), M) /\ q \in Parties
    BY <1>1, <1>2, <1>4 DEF OpHere
  <2> QED
    BY <2>1 DEF Ops, Parties, M
<1>6. ch \in Seq(Segments) /\ ChanTags(q, p)
  BY <1>2, <1>4, <1>5 DEF Shapes, Tags
<1>7. /\ Len(ch) \in Nat /\ 1 \in 1 .. Len(ch) /\ Head(ch) = ch[1] /\ Len(Tail(ch)) = Len(ch) - 1
      /\ \A i \in 1 .. Len(ch) - 1 : i + 1 \in 1 .. Len(ch) /\ Tail(ch)[i] = ch[i + 1]
  BY <1>3, <1>6
<1>8. Parties' = Parties
  BY <1>3 DEF Parties
<1>9. ASSUME NEW a \in Parties, NEW b \in Parties PROVE ChanTags(a, b)'
  <2>1. CASE a = q /\ b = p
    <3>1. chan'[a][b] = Tail(ch)
      BY <1>2, <1>3, <1>4, <1>5, <2>1 DEF Shapes
    <3>2. ASSUME NEW i \in 1 .. Len(ch) - 1, Tail(ch)[i].kind = "data"
          PROVE  Tail(ch)[i].call \in 0 .. call[Tail(ch)[i].owner]
      BY <1>2, <1>6, <1>7, <3>2 DEF ChanTags
    <3> QED
      BY <1>3, <1>7, <3>1, <3>2 DEF ChanTags
  <2>2. CASE ~(a = q /\ b = p)
    <3>1. DOMAIN chan = Parties /\ DOMAIN chan[q] = Parties
      BY <1>4, <1>5 DEF Shapes
    <3>2. chan'[a] = IF a = q THEN [chan[q] EXCEPT ![p] = Tail(chan[q][p])] ELSE chan[a]
      BY <1>3, <3>1
    <3>3. chan'[a][b] = chan[a][b]
      BY <2>2, <3>1, <3>2
    <3> QED
      BY <1>3, <3>3 DEF Tags, ChanTags
  <2> QED
    BY <2>1, <2>2
<1>10. ASSUME NEW a \in Parties, NEW j \in Parties PROVE MemTags(a, j)'
  <2>1. MemTags(a, j)
    BY DEF Tags
  <2>2. CASE op.kind = "data" /\ a = p /\ j = op.owner
    <3>1. PICK m, x, s : m = mem[p][op.owner] /\ x = op.piece /\ s = Head(ch)
      OBVIOUS
    <3>2. mem'[a][j] = [m EXCEPT ![x] = s]
      BY <1>3, <1>4, <1>5, <2>2, <3>1 DEF Shapes
    <3>3. s.call \in 0 .. call[j]
      <4>1. s = Intended(op, call[p])
        BY <1>1, <1>2, <1>3, <3>1, HeadIs
      <4>2. s.kind = "data" /\ s.owner = j
        BY <2>2, <4>1 DEF Intended
      <4> QED
        BY <1>2, <1>6, <1>7, <3>1, <4>2 DEF ChanTags
    <3>4. m = [i \in DOMAIN m |-> m[i]] /\ \A i \in DOMAIN m : m[i].call \in 0 .. call[j]
      BY <2>1, <2>2, <3>1 DEF MemTags
    <3>5. PICK f : f = [m EXCEPT ![x] = s]
      OBVIOUS
    <3>6. /\ f = [i \in DOMAIN f |-> f[i]] /\ DOMAIN f = DOMAIN m
          /\ \A i \in DOMAIN m : f[i] = IF i = x THEN s ELSE m[i]
      BY <3>5
    <3>7. \A i \in DOMAIN f : f[i].call \in 0 .. call[j]
      BY <3>3, <3>4, <3>6
    <3> QED
      BY <1>3, <3>2, <3>5, <3>6, <3>7 DEF MemTags
  <2>3. CASE ~(op.kind = "data" /\ a = p /\ j = op.owner)
    <3>1. DOMAIN mem = Parties /\ DOMAIN mem[p] = Parties
      BY <1>4 DEF Shapes
    <3>2. mem'[a][j] = mem[a][j]
      BY <1>3, <2>3, <3>1
    <3> QED
      BY <1>3, <2>1, <3>2 DEF MemTags
  <2> QED
    BY <2>2, <2>3
<1> QED
  BY <1>3, <1>8, <1>9, <1>10 DEF Tags

(* Who begins with a call has its own chunk of it, and nothing else.       *)
LEMMA TagsReturn ==
    ASSUME IInv, Tags, NEW p \in Parties, Return(p)
    PROVE  Tags'
<1>1. PICK r, more : r = call[p] + 1 /\ more = (r <= LastCall(net))
  OBVIOUS
<1>2. /\ call' = [call EXCEPT ![p] = r]
      /\ gathered' = [gathered EXCEPT ![p] = Append(@, Gathered(p, r - 1))]
      /\ mem' = [mem EXCEPT ![p] = IF more THEN Buffer(p, r) ELSE @]
      /\ net' = net /\ chan' = chan
  BY <1>1 DEF Return
<1>3. /\ Shapes /\ Parties' = Parties /\ LastCall(net) \in Nat
  BY <1>2, CallsOK DEF IInv, Shapes, Parties
<1>4. \A a \in Parties : /\ call[a] \in Nat /\ call'[a] \in Nat /\ call[a] <= call'[a]
                         /\ call'[a] = IF a = p THEN r ELSE call[a]
  <2> SUFFICES ASSUME NEW a \in Parties
               PROVE  /\ call[a] \in Nat /\ call'[a] \in Nat /\ call[a] <= call'[a]
                      /\ call'[a] = IF a = p THEN r ELSE call[a]
    OBVIOUS
  <2>1. call'[a] = IF a = p THEN r ELSE call[a]
    BY <1>2, <1>3 DEF Shapes
  <2>2. call[a] \in Nat
    BY <1>3 DEF Shapes
  <2> QED
    BY <1>1, <2>1, <2>2
<1>5. ASSUME NEW a \in Parties PROVE Len(gathered'[a]) = call'[a] - 1
  <2>1. Len(gathered[a]) = call[a] - 1 /\ gathered[a] \in Seq(SUBSET Parties)
    BY <1>3 DEF Tags, Shapes
  <2>2. CASE a = p
    <3>1. PICK g, x : g = gathered[p] /\ x = Gathered(p, r - 1)
      OBVIOUS
    <3>2. gathered'[a] = Append(g, x)
      BY <1>2, <1>3, <2>2, <3>1 DEF Shapes
    <3>3. Len(Append(g, x)) = Len(g) + 1
      BY <2>1, <2>2, <3>1
    <3> QED
      BY <1>1, <1>4, <2>1, <2>2, <3>1, <3>2, <3>3
  <2>3. CASE a # p
    <3>1. gathered'[a] = gathered[a]
      BY <1>2, <1>3, <2>3 DEF Shapes
    <3> QED
      BY <1>4, <2>1, <2>3, <3>1
  <2> QED
    BY <2>2, <2>3
<1>6. ASSUME NEW a \in Parties, NEW j \in Parties PROVE MemTags(a, j)'
  <2>1. MemTags(a, j)
    BY DEF Tags
  <2>2. CASE a = p /\ more
    <3>1. mem'[a] = Buffer(p, r)
      BY <1>2, <1>3, <2>2 DEF Shapes
    <3>2. mem'[a][j] = Chunk(j, r, IF j = p THEN r ELSE 0)
      BY <3>1 DEF Buffer
    <3>3. PICK g : g = IF j = p THEN r ELSE 0
      OBVIOUS
    <3>4. g \in 0 .. call'[j]
      BY <1>4, <3>3
    <3>5. PICK m, S : m = Chunk(j, r, g) /\ S = 1 .. Deployments[net].calls[r].size
      OBVIOUS
    <3>6. m = [i \in S |-> [kind |-> "data", owner |-> j, piece |-> i, call |-> g]]
      BY <3>5 DEF Chunk
    <3>7. m = [i \in DOMAIN m |-> m[i]] /\ \A i \in DOMAIN m : m[i].call = g
      BY <3>6
    <3> QED
      BY <3>2, <3>3, <3>4, <3>5, <3>7 DEF MemTags
  <2>3. CASE ~(a = p /\ more)
    <3>1. mem'[a] = mem[a]
      BY <1>2, <1>3, <2>3 DEF Shapes
    <3>2. \A x \in 0 .. call[j] : x \in 0 .. call'[j]
      BY <1>4
    <3> QED
      BY <2>1, <3>1, <3>2 DEF MemTags
  <2> QED
    BY <2>2, <2>3
<1>7. ASSUME NEW a \in Parties, NEW b \in Parties PROVE ChanTags(a, b)'
  <2>1. chan[a][b] \in Seq(Segments) /\ ChanTags(a, b)
    BY <1>3 DEF Shapes, Tags
  <2>2. \A i \in 1 .. Len(chan[a][b]) : chan[a][b][i].owner \in Parties
    <3>1. PICK ch, S : ch = chan[a][b] /\ S = Segments
      OBVIOUS
    <3>2. \A i \in 1 .. Len(ch) : ch[i] \in S
      BY <2>1, <3>1
    <3>3. \A s \in S : s.owner \in Parties
      BY <3>1 DEF Segments
    <3> QED
      BY <3>1, <3>2, <3>3
  <2>3. \A j \in Parties : \A x \in 0 .. call[j] : x \in 0 .. call'[j]
    BY <1>4
  <2> QED
    BY <1>2, <2>1, <2>2, <2>3 DEF ChanTags
<1> QED
  BY <1>3, <1>5, <1>6, <1>7 DEF Tags

(* Every step preserves it.                                                *)
LEMMA NextTags == IInv /\ Tags /\ [Next]_vars => Tags'
<1> SUFFICES ASSUME IInv, Tags, [Next]_vars PROVE Tags'
  OBVIOUS
<1>1. ASSUME NEW p \in Parties, PartyStep(p) PROVE Tags'
  <2>1. ASSUME NEW k \in DOMAIN todo[p], TaskStep(p, k) PROVE Tags'
    <3>1. CASE Write(p, k)
      BY <3>1, TagsWrite
    <3>2. CASE Read(p, k)
      BY <3>2, TagsRead
    <3>3. CASE TaskError(p, k)
      BY <3>3, TagsStay DEF TaskError
    <3> QED
      BY <2>1, <3>1, <3>2, <3>3 DEF TaskStep
  <2>2. CASE NextStage(p)
    BY <2>2, TagsStay DEF NextStage
  <2>3. CASE Return(p)
    BY <2>3, TagsReturn
  <2>4. CASE CallError(p)
    BY <2>4, TagsStay DEF CallError
  <2> QED
    BY <1>1, <2>1, <2>2, <2>3, <2>4 DEF PartyStep
<1>2. ASSUME NEW p \in Parties, Kill(p) PROVE Tags'
  BY <1>2, TagsStay DEF Kill
<1>3. CASE UNCHANGED vars
  BY <1>3, TagsStay DEF vars
<1> QED
  BY <1>1, <1>2, <1>3 DEF Next, Finished

-----------------------------------------------------------------------------
(* The barriers.                                                           *)

(* Who has taken something of a call from q knows that q has entered it.   *)
LEMMA TakenOfEntered ==
    ASSUME IInv, NEW p \in Parties, NEW q \in Parties, NEW r \in 1 .. LastCall(net),
           Before(net, q, p, r - 1) < Taken(p, q)
    PROVE  call[q] >= r
<1>1. /\ LastCall(net) \in Nat /\ call[q] \in Nat /\ net \in DOMAIN Deployments
      /\ p \in 0 .. Size(net) - 1 /\ q \in 0 .. Size(net) - 1
  <2>1. LastCall(net) \in Nat /\ net \in DOMAIN Deployments
    BY CallsOK DEF IInv, Shapes
  <2>2. call[q] \in Nat
    BY <2>1 DEF IInv, Shapes
  <2> QED
    BY <2>1, <2>2 DEF Parties
<1>2. r - 1 \in 0 .. LastCall(net) /\ r \in 1 .. LastCall(net) + 1
  BY <1>1
<1>3. PICK b, w, t : b = Before(net, q, p, r - 1) /\ w = Written(q, p) /\ t = Taken(p, q)
  OBVIOUS
<1>4. t <= w /\ b < t
  BY <1>3, TakenIsWritten
<1>5. b \in Nat
  BY <1>1, <1>2, <1>3, BeforeTyped
<1>6. w \in Nat /\ t \in Nat
  <2>1. LastCall(net) \in 0 .. LastCall(net)
    BY <1>1
  <2> QED
    BY <1>3, <2>1, NotBeyond
<1>7. ASSUME call[q] <= r - 1 PROVE FALSE
  <2>1. w <= b
    BY <1>2, <1>3, <1>7, NotBeyond
  <2> QED
    BY <1>4, <1>5, <1>6, <2>1
<1> QED
  BY <1>1, <1>2, <1>7

(* p is through with what it reads from q in call r.                       *)
ReadAllOf(p, q, r) ==
    \/ call[p] > r
    \/ call[p] = r /\ stage[p] > StageOf(CallAt(r), M, p, "recv", q)
    \/ call[p] = r /\ StageDone(p) /\ stage[p] >= StageOf(CallAt(r), M, p, "recv", q)

(* A party that is through with what it reads from another knows that the  *)
(* other has entered the call.                                             *)
LEMMA LinkedEntered ==
    ASSUME IInv, NEW p \in Parties, NEW q \in Parties, NEW r \in 1 .. LastCall(net),
           Linked(CallAt(r), M, p, q), ReadAllOf(p, q, r)
    PROVE  call[q] >= r
<1>1. /\ Shapes /\ LastCall(net) \in Nat /\ net \in DOMAIN Deployments
      /\ p \in 0 .. Size(net) - 1 /\ q \in 0 .. Size(net) - 1
      /\ call[p] \in 1 .. LastCall(net) + 1
  BY CallsOK DEF IInv, Shapes, Parties
<1>2. PICK c, n, s, f : /\ c = CallAt(r) /\ n = M /\ s = StageOf(c, n, p, "recv", q)
                        /\ f = FlowOf(c, n, q, p)
  OBVIOUS
<1>3. IsCall(c, n) /\ p \in 0 .. n - 1 /\ q \in 0 .. n - 1 /\ Linked(c, n, p, q)
  BY <1>1, <1>2, CallsOK DEF CallAt, M
<1>4. Linked(c, n, q, p)
  BY <1>3, LinkedBoth
<1>5. f \in Nat /\ f >= 1 /\ f = Volume(c, n, q, p)
  BY <1>2, <1>3, <1>4, FlowNat
<1>6. PICK b, e, t : b = Before(net, q, p, r - 1) /\ e = Before(net, q, p, r) /\ t = Taken(p, q)
  OBVIOUS
<1>7. b \in Nat /\ e = b + f
  BY <1>1, <1>2, <1>6, BeforeNat DEF CallAt, M
<1>8. t \in Nat
  <2>1. LastCall(net) \in 0 .. LastCall(net)
    BY <1>1
  <2> QED
    BY <1>6, <2>1, NotBeyond
<1>9. e <= t
  <2>1. CASE call[p] > r
    <3>1. r \in 0 .. LastCall(net) /\ r < call[p]
      BY <1>1, <2>1
    <3> QED
      BY <1>6, <3>1, NotBehind
  <2>2. CASE call[p] = r
    <3>1. t = b + Progress(p, "recv", q)
      BY <1>6, <2>2 DEF Taken
    <3>2. r <= LastCall(net) /\ s \in Int /\ stage[p] \in Int
      <4>1. FlowOK(c, n, p, "recv", q, Stages(c, n, p))
        BY <1>3, PlanRight, FlowIs
      <4>2. PICK plan : plan = Stages(c, n, p)
        OBVIOUS
      <4>3. s \in 1 .. Len(plan)
        BY <1>2, <4>1, <4>2 DEF FlowOK
      <4> QED
        BY <1>1, <4>3 DEF Shapes
    <3>3. CASE stage[p] > s
      <4>1. Progress(p, "recv", q) = FlowVolume(c, n, p, "recv", q)
        BY <1>1, <1>2, <1>3, <2>2, <3>2, <3>3 DEF Progress
      <4>2. Progress(p, "recv", q) = f
        BY <1>5, <4>1 DEF FlowVolume
      <4> QED
        BY <1>7, <3>1, <4>2
    <3>4. CASE StageDone(p) /\ stage[p] >= s
      <4>1. Progress(p, "recv", q) = DirFlow(c, n, p, "recv", q)
        BY <1>2, <1>3, <2>2, <3>2, <3>4, AllDone
      <4>2. Progress(p, "recv", q) = f
        BY <1>2, <4>1 DEF DirFlow
      <4> QED
        BY <1>7, <3>1, <4>2
    <3> QED
      BY <1>2, <2>2, <3>3, <3>4 DEF ReadAllOf
  <2> QED
    BY <2>1, <2>2 DEF ReadAllOf
<1>10. b < t
  BY <1>5, <1>7, <1>8, <1>9
<1> QED
  BY <1>6, <1>10, TakenOfEntered

(* At the end of its last stage p has the chunks the call is for.          *)
LEMMA HasAll ==
    ASSUME IInv, Tags, NEW p \in Parties, StageDone(p), stage[p] = Len(Plan(p, call[p])),
           NEW j \in Gets(CallAt(call[p]), M, p)
    PROVE  /\ call[p] \in 1 .. LastCall(net) /\ j \in Parties
           /\ mem[p][j] = Chunk(j, call[p], call[p])
           /\ call[j] >= call[p]
<1>1. Shapes /\ MemOK(p) /\ call[p] <= LastCall(net)
  BY AllDone DEF IInv
<1>2. PICK n, r, c, plan : n = M /\ r = call[p] /\ c = CallAt(r) /\ plan = Plan(p, r)
  OBVIOUS
<1>3. /\ n \in Nat /\ p \in 0 .. n - 1 /\ Parties = 0 .. n - 1 /\ IsCall(c, n)
      /\ PlanOK(c, n, p, plan) /\ r \in 1 .. LastCall(net)
  BY <1>1, <1>2, Here
<1>4. j \in Parties
  BY <1>2, <1>3 DEF Gets, IsCall
<1>5. c.size \in Nat /\ c.size >= 1
  BY <1>3 DEF IsCall
<1>6. ASSUME NEW piece \in 1 .. c.size PROVE Right(p, j, piece)
  <2>1. CASE j = p
    BY <1>1, <1>2, <1>6, <2>1 DEF MemOK
  <2>2. CASE j # p
    <3>1. Receives(plan, Len(plan) + 1, j, piece)
      BY <1>2, <1>3, <1>6, <2>2 DEF PlanOK, DataOK
    <3>2. PICK t \in 1 .. (Len(plan) + 1) - 1 :
             \E k \in DOMAIN plan[t] : \E x \in 1 .. Len(plan[t][k]) :
                /\ plan[t][k][x].dir = "recv" /\ plan[t][k][x].kind = "data"
                /\ plan[t][k][x].owner = j /\ plan[t][k][x].piece = piece
      BY <3>1 DEF Receives
    <3>3. PICK k \in DOMAIN plan[t] : \E x \in 1 .. Len(plan[t][k]) :
             /\ plan[t][k][x].dir = "recv" /\ plan[t][k][x].kind = "data"
             /\ plan[t][k][x].owner = j /\ plan[t][k][x].piece = piece
      BY <3>2
    <3>4. PICK x \in 1 .. Len(plan[t][k]) :
             /\ plan[t][k][x].dir = "recv" /\ plan[t][k][x].kind = "data"
             /\ plan[t][k][x].owner = j /\ plan[t][k][x].piece = piece
      BY <3>3
    <3>5. Len(plan) \in Nat
      BY <1>3 DEF PlanOK, IsPlan
    <3>6. t \in 1 .. stage[p] /\ (t < stage[p] \/ t = stage[p])
      BY <1>2, <3>5
    <3>7. t < stage[p] \/ x <= Done(p, k)
      <4>1. CASE t = stage[p]
        <5>1. DOMAIN todo[p] = DOMAIN plan[t]
          BY <1>1, <1>2, <4>1 DEF IInv, TodoOK
        <5>2. Done(p, k) = Len(plan[t][k])
          BY <1>2, <4>1, <5>1, AllDone
        <5>3. plan[t][k] \in Seq(Ops(c, n))
          BY <1>3, <3>5 DEF PlanOK, IsPlan
        <5>4. Len(plan[t][k]) \in Nat
          BY <5>3
        <5> QED
          BY <5>2, <5>4
      <4> QED
        BY <3>6, <4>1
    <3> QED
      BY <1>1, <1>2, <3>6, <3>7, <3>4 DEF MemOK
  <2> QED
    BY <2>1, <2>2
<1>7. MemTags(p, j) /\ DOMAIN mem[p][j] = 1 .. c.size
  <2>1. MemTags(p, j)
    BY <1>4 DEF Tags
  <2>2. DOMAIN mem[p][j] = 1 .. c.size
    BY <1>1, <1>2, <1>4 DEF MemOK
  <2> QED
    BY <2>1, <2>2
<1>8. PICK m : m = mem[p][j]
  OBVIOUS
<1>9. \A i \in 1 .. c.size : m[i] = [kind |-> "data", owner |-> j, piece |-> i, call |-> r]
  BY <1>2, <1>6, <1>8 DEF Right
<1>10. m = Chunk(j, r, r)
  <2>1. m = [i \in 1 .. c.size |-> m[i]]
    BY <1>7, <1>8 DEF MemTags
  <2>2. m = [i \in 1 .. c.size |-> [kind |-> "data", owner |-> j, piece |-> i, call |-> r]]
    BY <1>9, <2>1
  <2> QED
    BY <1>2, <2>2 DEF Chunk, CallAt
<1>11. r \in 0 .. call[j]
  <2>1. 1 \in 1 .. c.size
    BY <1>5
  <2>2. m[1].call \in 0 .. call[j]
    BY <1>7, <1>8, <2>1 DEF MemTags
  <2>3. PICK i : i = 1
    OBVIOUS
  <2>4. m[i] = [kind |-> "data", owner |-> j, piece |-> i, call |-> r]
    BY <1>9, <2>1, <2>3
  <2> QED
    BY <2>2, <2>3, <2>4
<1>12. call[j] \in Nat
  BY <1>1, <1>4, CallsOK DEF Shapes
<1> QED
  BY <1>2, <1>3, <1>4, <1>8, <1>10, <1>11, <1>12

(* Party 0 sends no start before all are ready.                            *)
LEMMA StartedAfterReady ==
    ASSUME IInv, NEW p \in Parties, NEW q \in Parties, p # 0, q # 0,
           NEW r \in 1 .. LastCall(net), CallAt(r).op = "sync", 0 \in Parties,
           Before(net, 0, p, r - 1) < Taken(p, 0)
    PROVE  call[q] >= r
<1>1. call[0] >= r
  BY TakenOfEntered
<1>2. /\ Shapes /\ LastCall(net) \in Nat /\ net \in DOMAIN Deployments
      /\ call[0] \in 1 .. LastCall(net) + 1
      /\ p \in 0 .. Size(net) - 1 /\ 0 \in 0 .. Size(net) - 1
  BY CallsOK DEF IInv, Shapes, Parties
<1>3. Linked(CallAt(r), M, 0, q) /\ StageOf(CallAt(r), M, 0, "recv", q) = 1
  BY DEF Linked, StageOf
<1>4. ReadAllOf(0, q, r)
  <2>1. CASE call[0] > r
    BY <2>1 DEF ReadAllOf
  <2>2. CASE call[0] = r
    <3>1. PICK b, t, w, g : /\ b = Before(net, 0, p, r - 1) /\ t = Taken(p, 0)
                            /\ w = Written(0, p) /\ g = Progress(0, "send", p)
      OBVIOUS
    <3>2. b < t /\ t <= w /\ w = b + g
      <4>1. t <= w
        BY <3>1, TakenIsWritten
      <4>2. w = b + g
        BY <2>2, <3>1 DEF Written
      <4> QED
        BY <3>1, <4>1, <4>2
    <3>3. b \in Nat /\ t \in Nat /\ w \in Nat /\ g \in Nat
      <4>1. LastCall(net) \in 0 .. LastCall(net) /\ r \in 1 .. LastCall(net) + 1
        BY <1>2
      <4>2. t \in Nat /\ w \in Nat
        BY <3>1, <4>1, NotBeyond
      <4>3. b \in Nat
        BY <1>2, <3>1, <4>1, BeforeTyped
      <4>4. g \in Nat
        BY <3>1, ProgressIs
      <4> QED
        BY <4>2, <4>3, <4>4
    <3>4. g # 0
      BY <3>2, <3>3
    <3>5. StageOf(CallAt(r), M, 0, "send", p) = 2
      BY DEF StageOf
    <3>6. ~(stage[0] < 2)
      BY <2>2, <3>1, <3>4, <3>5 DEF Progress
    <3>7. stage[0] \in Nat
      BY <1>2 DEF Shapes
    <3>8. stage[0] > 1
      BY <3>6, <3>7
    <3> QED
      BY <1>3, <2>2, <3>8 DEF ReadAllOf
  <2> QED
    BY <1>1, <1>2, <2>1, <2>2
<1> QED
  BY <1>3, <1>4, LinkedEntered

(* A call does not return before all it waits for have entered it.         *)
LEMMA Barrier ==
    ASSUME IInv, Tags, NEW p \in Parties, StageDone(p), stage[p] = Len(Plan(p, call[p])),
           NEW j \in WaitsFor(CallAt(call[p]), M, p)
    PROVE  j \in Parties /\ call[j] >= call[p]
<1>1. Shapes /\ call[p] <= LastCall(net)
  BY AllDone DEF IInv
<1>2. PICK n, r, c, plan : n = M /\ r = call[p] /\ c = CallAt(r) /\ plan = Plan(p, r)
  OBVIOUS
<1>3. /\ n \in Nat /\ n >= 2 /\ p \in 0 .. n - 1 /\ Parties = 0 .. n - 1 /\ IsCall(c, n)
      /\ PlanOK(c, n, p, plan) /\ r \in 1 .. LastCall(net) /\ 0 \in 0 .. n - 1
  BY <1>1, <1>2, Here
<1>4. j \in Parties
  BY <1>2, <1>3 DEF WaitsFor
<1>5. call[j] \in Nat /\ r \in Nat
  <2>1. LastCall(net) \in Nat
    BY <1>1, CallsOK DEF Shapes
  <2>2. call[j] \in 1 .. LastCall(net) + 1
    BY <1>1, <1>4 DEF Shapes
  <2> QED
    BY <1>3, <2>1, <2>2
<1>6. ASSUME NEW q \in Parties, Linked(c, n, p, q) PROVE call[q] >= r
  <2>1. FlowOK(c, n, p, "recv", q, plan)
    BY <1>3, <1>6, FlowIs
  <2>2. Len(plan) \in Nat
    BY <1>3 DEF PlanOK, IsPlan
  <2>3. PICK s : s = StageOf(c, n, p, "recv", q)
    OBVIOUS
  <2>4. s \in 1 .. Len(plan)
    BY <2>1, <2>3 DEF FlowOK
  <2>5. stage[p] >= s
    BY <1>2, <2>2, <2>4
  <2>6. ReadAllOf(p, q, r)
    BY <1>2, <2>3, <2>5 DEF ReadAllOf
  <2> QED
    BY <1>2, <1>3, <1>6, <2>6, LinkedEntered
<1>7. CASE j = p
  BY <1>2, <1>4, <1>5, <1>7
<1>8. CASE j # p
  <2>1. CASE c.op = "tree"
    <3>1. j \in Gets(c, n, p)
      BY <1>3, <1>4, <2>1 DEF Gets
    <3> QED
      BY <1>2, <1>4, <3>1, HasAll
  <2>2. CASE c.op = "pairwise"
    <3>1. Linked(c, n, p, j)
      BY <1>8, <2>2 DEF Linked
    <3> QED
      BY <1>2, <1>4, <1>6, <3>1
  <2>3. CASE c.op \in {"sync", "collect"} /\ (p = 0 \/ j = 0)
    <3>1. Linked(c, n, p, j)
      BY <1>8, <2>3 DEF Linked
    <3> QED
      BY <1>2, <1>4, <1>6, <3>1
  <2>4. CASE c.op = "collect" /\ p # 0
    <3>1. j = 0
      BY <1>2, <1>8, <2>4 DEF WaitsFor
    <3> QED
      BY <2>3, <2>4, <3>1
  <2>5. CASE c.op = "sync" /\ p # 0 /\ j # 0
    <3>1. Linked(c, n, p, 0) /\ StageOf(c, n, p, "recv", 0) = 1
      BY <2>5 DEF Linked, StageOf
    <3>2. PICK b, t, f : /\ b = Before(net, 0, p, r - 1) /\ t = Taken(p, 0)
                         /\ f = FlowOf(c, n, 0, p)
      OBVIOUS
    <3>3. b \in Nat
      <4>1. /\ net \in DOMAIN Deployments /\ r \in 1 .. LastCall(net) + 1
            /\ 0 \in 0 .. Size(net) - 1 /\ p \in 0 .. Size(net) - 1
        BY <1>1, <1>2, <1>3, CallsOK DEF Shapes, M
      <4> QED
        BY <3>2, <4>1, BeforeTyped
    <3>4. f \in Nat /\ f >= 1
      <4>1. Linked(c, n, 0, p)
        BY <1>3, <3>1, LinkedBoth
      <4> QED
        BY <1>3, <3>2, <4>1, FlowNat
    <3>5. 1 <= stage[p]
      <4>1. Len(plan) \in Nat /\ Len(plan) >= 1
        BY <1>3 DEF PlanOK, IsPlan
      <4> QED
        BY <1>2, <4>1
    <3>6. Progress(p, "recv", 0) = f
      <4>1. Progress(p, "recv", 0) = DirFlow(c, n, p, "recv", 0)
        BY <1>2, <1>3, <3>1, <3>5, AllDone
      <4> QED
        BY <3>2, <4>1 DEF DirFlow
    <3>7. t = b + f
      BY <1>2, <3>2, <3>6 DEF Taken
    <3>8. b < t
      BY <3>3, <3>4, <3>7
    <3> QED
      BY <1>2, <1>3, <1>4, <2>5, <3>2, <3>8, StartedAfterReady
  <2>6. c.op \in {"tree", "pairwise", "sync", "collect"}
    BY <1>3 DEF IsCall
  <2> QED
    BY <2>1, <2>2, <2>3, <2>4, <2>5, <2>6
<1> QED
  BY <1>7, <1>8

(* So that it gathers what it waits for.                                   *)
LEMMA GathersAll ==
    ASSUME IInv, Tags, NEW p \in Parties, StageDone(p), stage[p] = Len(Plan(p, call[p]))
    PROVE  Gathered(p, call[p]) = WaitsFor(CallAt(call[p]), M, p)
<1>1. \A j \in Gets(CallAt(call[p]), M, p) : mem[p][j] = Chunk(j, call[p], call[p])
  BY HasAll
<1> QED
  BY <1>1 DEF Gathered, CallAt, M

-----------------------------------------------------------------------------
(* The refinement.                                                         *)

(* No list of calls is longer than Rounds.                                 *)
LEMMA RoundsAre ==
    ASSUME NEW d \in DOMAIN Deployments
    PROVE  Rounds \in Nat /\ LastCall(d) \in Nat /\ LastCall(d) <= Rounds
<1> DEFINE L == {LastCall(e) : e \in DOMAIN Deployments}
<1>1. \A e \in DOMAIN Deployments : LastCall(e) \in Nat
  BY CallsOK
<1>2. PICK e \in DOMAIN Deployments : \A f \in DOMAIN Deployments : LastCall(f) <= LastCall(e)
  BY RoundsAssumption
<1>3. LastCall(e) \in L /\ \A x \in L : x \in Nat /\ LastCall(e) >= x
  BY <1>1, <1>2
<1>4. Rounds = CHOOSE x \in L : \A y \in L : x >= y
  BY DEF Rounds, Max
<1> HIDE DEF L
<1>5. Rounds \in L /\ \A y \in L : Rounds >= y
  BY <1>3, <1>4
<1> QED
  BY <1>1, <1>3, <1>5 DEF L

(* The members of a deployment are its parties.                            *)
LEMMA MembersAre ==
    ASSUME Shapes
    PROVE  /\ \A m \in Members : InNet(m) => m[2] \in Parties /\ m = <<net, m[2]>>
           /\ \A p \in Parties : <<net, p>> \in Members
<1>1. net \in DOMAIN Deployments
  BY DEF Shapes
<1>2. ASSUME NEW m \in Members, InNet(m) PROVE m[2] \in Parties /\ m = <<net, m[2]>>
  <2>1. PICK d \in DOMAIN Deployments : m \in {<<d, p>> : p \in 0 .. Size(d) - 1}
    BY DEF Members
  <2>2. PICK p \in 0 .. Size(d) - 1 : m = <<d, p>>
    BY <2>1
  <2> QED
    BY <1>2, <2>2 DEF InNet, Parties
<1>3. ASSUME NEW p \in Parties PROVE <<net, p>> \in Members
  <2>1. <<net, p>> \in {<<net, q>> : q \in 0 .. Size(net) - 1}
    BY DEF Parties
  <2> QED
    BY <1>1, <2>1 DEF Members
<1> QED
  BY <1>2, <1>3

(* AllGather starts where TaskNet does.                                    *)
LEMMA AbsInit == Init => Abstract!Init
<1> SUFFICES ASSUME Init PROVE Abstract!Init
  OBVIOUS
<1>1. /\ Shapes /\ call = [p \in Parties |-> 1] /\ gathered = [p \in Parties |-> << >>]
      /\ status = [p \in Parties |-> "run"]
  BY InitIInv DEF Init, IInv
<1>2. ASSUME NEW m \in Members, InNet(m)
      PROVE  /\ call[m[2]] = 1 /\ status[m[2]] # "failed"
             /\ \A r \in 1 .. Rounds : ~(r <= Len(gathered[m[2]]))
  BY <1>1, <1>2, MembersAre
<1> QED
  BY <1>2 DEF Abstract!Init

(* A call that returns is an AllGather round left, with all it needs: by   *)
(* Barrier the others have entered it.                                     *)
LEMMA ReturnLeaves ==
    ASSUME IInv, Tags, NEW p \in Parties, Return(p), NEW m, m = <<net, p>>
    PROVE  Abstract!Leave(m)
<1> DEFINE At(b) == IF InNet(b) THEN call[b[2]] ELSE 1
           H(b, r) == IF InNet(b) /\ r <= Len(gathered[b[2]])
                      THEN {<<net, j>> : j \in gathered[b[2]][r]} ELSE {}
           Stopped(b) == InNet(b) /\ status[b[2]] = "failed"
           at == [b \in Members |-> At(b)]
           holds == [b \in Members |-> [r \in 1 .. Rounds |-> H(b, r)]]
           stopped == [b \in Members |-> Stopped(b)]
<1>1. PICK r, x : r = call[p] /\ x = WaitsFor(CallAt(r), M, p) /\ m = <<net, p>>
  OBVIOUS
<1>2. /\ StageDone(p) /\ stage[p] = Len(Plan(p, r)) /\ status[p] = "run"
      /\ call' = [call EXCEPT ![p] = r + 1]
      /\ gathered' = [gathered EXCEPT ![p] = Append(@, Gathered(p, r))]
      /\ status' = [status EXCEPT ![p] = IF r + 1 <= LastCall(net) THEN "run" ELSE "done"]
      /\ net' = net
  <2>1. LastCall(net) \in Nat
    BY CallsOK DEF IInv, Shapes
  <2>2. call[p] \in Nat
    BY <2>1 DEF IInv, Shapes
  <2>3. PICK t : t = call[p] + 1
    OBVIOUS
  <2>4. t - 1 = r /\ t = r + 1
    BY <1>1, <2>2, <2>3
  <2>5. /\ call' = [call EXCEPT ![p] = t]
        /\ gathered' = [gathered EXCEPT ![p] = Append(@, Gathered(p, t - 1))]
        /\ status' = [status EXCEPT ![p] = IF t <= LastCall(net) THEN "run" ELSE "done"]
    BY <2>3 DEF Return
  <2>6. /\ StageDone(p) /\ stage[p] = Len(Plan(p, r)) /\ status[p] = "run"
        /\ net' = net
    BY <1>1 DEF Return, StageDone, Running
  <2> QED
    BY <2>4, <2>5, <2>6
<1>3. /\ Shapes /\ r <= LastCall(net) /\ LastCall(net) \in Nat /\ Rounds \in Nat
      /\ LastCall(net) <= Rounds /\ m \in Members /\ InNet(m)
  BY <1>1, <1>2, AllDone, RoundsAre, MembersAre DEF IInv, Shapes, InNet
<1>4. r \in 1 .. LastCall(net) /\ r \in 1 .. Rounds /\ r \in Nat
  <2>1. r \in 1 .. LastCall(net) + 1
    BY <1>1, <1>3 DEF Shapes
  <2> QED
    BY <1>3, <2>1
<1>5. Gathered(p, r) = x /\ \A j \in x : j \in Parties /\ call[j] >= r
  BY <1>1, <1>2, GathersAll, Barrier
<1>6. AbstractNeeds[r][m] = {<<net, j>> : j \in x}
  <2>1. AbstractNeeds[r][m] = {<<m[1], j>> : j \in
          WaitsFor(Deployments[m[1]].calls[r], Size(m[1]), m[2])}
    BY <1>1, <1>3, <1>4 DEF AbstractNeeds
  <2> QED
    BY <1>1, <2>1 DEF CallAt, M
<1>7. ASSUME NEW b \in Members, InNet(b) PROVE b[2] \in Parties /\ b = <<net, b[2]>>
  BY <1>3, <1>7, MembersAre
<1>8. at[m] = r /\ ~stopped[m]
  <2>1. m[2] = p
    BY <1>1
  <2>2. At(m) = r /\ ~Stopped(m)
    BY <1>1, <1>2, <1>3, <2>1
  <2> HIDE DEF At, Stopped
  <2> QED
    BY <1>3, <2>2
<1>9. \A b \in AbstractNeeds[r][m] : at[b] >= r
  <2> SUFFICES ASSUME NEW j \in x PROVE at[<<net, j>>] >= r
    BY <1>6
  <2>1. <<net, j>> \in Members /\ InNet(<<net, j>>)
    BY <1>3, <1>5, MembersAre DEF InNet
  <2> QED
    BY <1>5, <2>1
<1>10. at' = [at EXCEPT ![m] = @ + 1]
  <2>1. ASSUME NEW b \in Members PROVE At(b)' = IF b = m THEN r + 1 ELSE At(b)
    BY <1>1, <1>2, <1>3, <1>7 DEF Shapes, InNet
  <2>2. at[m] + 1 = r + 1
    BY <1>8
  <2> HIDE DEF At
  <2> QED
    BY <1>3, <2>1, <2>2
<1>11. stopped' = stopped
  <2>1. ASSUME NEW b \in Members PROVE Stopped(b)' = Stopped(b)
    BY <1>1, <1>2, <1>3, <1>7 DEF Shapes, InNet
  <2> HIDE DEF Stopped
  <2> QED
    BY <2>1
<1>12. ASSUME NEW b \in Members, NEW s \in 1 .. Rounds
       PROVE  H(b, s)' = IF b = m /\ s = r THEN AbstractNeeds[r][m] ELSE H(b, s)
  <2>1. CASE ~InNet(b)
    BY <1>1, <1>2, <1>3, <2>1 DEF InNet
  <2>2. CASE InNet(b) /\ b # m
    <3>1. gathered'[b[2]] = gathered[b[2]] /\ InNet(b)'
      BY <1>1, <1>2, <1>3, <1>7, <2>2 DEF Shapes, InNet
    <3> QED
      BY <1>2, <2>2, <3>1
  <2>3. CASE b = m
    <3>1. PICK g, h : g = gathered[p] /\ h = gathered'[p]
      OBVIOUS
    <3>2. g \in Seq(SUBSET Parties) /\ Len(g) = r - 1 /\ h = Append(g, x)
      BY <1>1, <1>2, <1>3, <1>5, <3>1 DEF Shapes, Tags
    <3>3. s <= Len(h) <=> s <= r
      BY <1>4, <3>2
    <3>4. s <= Len(g) <=> s < r
      BY <1>4, <3>2
    <3>5. s < r => h[s] = g[s]
      BY <1>4, <3>2
    <3>6. h[r] = x
      BY <1>4, <3>2
    <3>7. /\ H(b, s)  = IF s <= Len(g) THEN {<<net, j>> : j \in g[s]} ELSE {}
          /\ H(b, s)' = IF s <= Len(h) THEN {<<net, j>> : j \in h[s]} ELSE {}
      <4>1. m[2] = p
        BY <1>1
      <4> QED
        BY <1>2, <1>3, <2>3, <3>1, <4>1 DEF InNet
    <3>8. s = r \/ s < r \/ (~(s <= r) /\ ~(s < r))
      BY <1>4
    <3> HIDE DEF H
    <3>9. CASE s = r
      BY <1>6, <2>3, <3>3, <3>6, <3>7, <3>9, <1>4
    <3>10. CASE s < r
      <4>1. s # r /\ s <= r
        BY <1>4, <3>10
      <4> QED
        BY <2>3, <3>3, <3>4, <3>5, <3>7, <3>10, <4>1
    <3>11. CASE ~(s <= r) /\ ~(s < r)
      <4>1. s # r
        BY <1>4, <3>11
      <4> QED
        BY <2>3, <3>3, <3>4, <3>7, <3>11, <4>1
    <3> QED
      BY <3>8, <3>9, <3>10, <3>11
  <2> QED
    BY <2>1, <2>2, <2>3
<1>13. holds' = [holds EXCEPT ![m][r] = AbstractNeeds[r][m]]
  <2> DEFINE N == AbstractNeeds[r][m]
  <2>1. \A b \in Members, s \in 1 .. Rounds :
          H(b, s)' = IF b = m /\ s = r THEN N ELSE H(b, s)
    BY <1>12
  <2> HIDE DEF N, H
  <2>2. [[b \in Members |-> [s \in 1 .. Rounds |-> H(b, s)]] EXCEPT ![m][r] = N] =
          [b \in Members |-> [s \in 1 .. Rounds |->
              IF b = m /\ s = r THEN N ELSE H(b, s)]]
    OBVIOUS
  <2>3. holds' = [b \in Members |-> [s \in 1 .. Rounds |->
                    IF b = m /\ s = r THEN N ELSE H(b, s)]]
    BY <2>1
  <2> QED
    BY <2>2, <2>3 DEF N
<1> HIDE DEF At, H, Stopped
<1> QED
  BY <1>4, <1>8, <1>9, <1>10, <1>11, <1>13 DEF Abstract!Leave, At, H, Stopped

(* A process that ends, with an error or because it is killed, stops       *)
(* before the last round is over,                                          *)
LEMMA FailureStops ==
    ASSUME IInv, NEW p \in Parties, CallError(p) \/ Kill(p), NEW m, m = <<net, p>>
    PROVE  Abstract!Stop(m)
<1> DEFINE At(b) == IF InNet(b) THEN call[b[2]] ELSE 1
           H(b, r) == IF InNet(b) /\ r <= Len(gathered[b[2]])
                      THEN {<<net, j>> : j \in gathered[b[2]][r]} ELSE {}
           Stopped(b) == InNet(b) /\ status[b[2]] = "failed"
           at == [b \in Members |-> At(b)]
           holds == [b \in Members |-> [r \in 1 .. Rounds |-> H(b, r)]]
           stopped == [b \in Members |-> Stopped(b)]
<1>1. /\ status[p] = "run" /\ status' = [status EXCEPT ![p] = "failed"]
      /\ net' = net /\ call' = call /\ gathered' = gathered
  BY DEF CallError, Kill, Running
<1>2. /\ Shapes /\ TodoOK(p) /\ LastCall(net) \in Nat /\ Rounds \in Nat
      /\ LastCall(net) <= Rounds /\ m \in Members /\ InNet(m) /\ m[2] = p
  BY RoundsAre, MembersAre DEF IInv, Shapes, InNet
<1>3. call[p] \in 1 .. Rounds
  <2>1. call[p] \in 1 .. LastCall(net) + 1
    BY <1>2 DEF Shapes
  <2>2. call[p] # LastCall(net) + 1
    BY <1>1, <1>2 DEF TodoOK
  <2> QED
    BY <1>2, <2>1, <2>2
<1>4. ASSUME NEW b \in Members, InNet(b) PROVE b[2] \in Parties /\ b = <<net, b[2]>>
  BY <1>2, <1>4, MembersAre
<1>5. at[m] \in 1 .. Rounds /\ ~stopped[m]
  <2>1. At(m) = call[p] /\ ~Stopped(m)
    BY <1>1, <1>2
  <2> HIDE DEF At, Stopped
  <2> QED
    BY <1>2, <1>3, <2>1
<1>6. stopped' = [stopped EXCEPT ![m] = TRUE]
  <2>1. ASSUME NEW b \in Members PROVE Stopped(b)' = IF b = m THEN TRUE ELSE Stopped(b)
    BY <1>1, <1>2, <1>4 DEF Shapes, InNet
  <2> HIDE DEF Stopped
  <2> QED
    BY <1>2, <2>1
<1>7. at' = at /\ holds' = holds
  BY <1>1 DEF InNet
<1> HIDE DEF At, H, Stopped
<1> QED
  BY <1>5, <1>6, <1>7 DEF Abstract!Stop, At, H, Stopped

(* and no other step is seen.                                              *)
LEMMA OthersStutter ==
    ASSUME UNCHANGED <<net, status, call, gathered>>
    PROVE  UNCHANGED Abstract!vars
BY DEF Abstract!vars, InNet

(* Each step of TaskNet is a step of AllGather, or none.                   *)
LEMMA AbsStep == IInv /\ Tags /\ [Next]_vars => [Abstract!Next]_Abstract!vars
<1> SUFFICES ASSUME IInv, Tags, [Next]_vars
             PROVE  [Abstract!Next]_Abstract!vars
  OBVIOUS
<1>1. \A p \in Parties : <<net, p>> \in Members
  BY MembersAre DEF IInv
<1>2. ASSUME NEW p \in Parties, Return(p) PROVE Abstract!Next
  <2>1. PICK m \in Members : m = <<net, p>>
    BY <1>1
  <2>2. Abstract!Leave(m)
    BY <1>2, <2>1, ReturnLeaves
  <2> QED
    BY <2>2 DEF Abstract!Next
<1>3. ASSUME NEW p \in Parties, CallError(p) \/ Kill(p) PROVE Abstract!Next
  <2>1. PICK m \in Members : m = <<net, p>>
    BY <1>1
  <2>2. Abstract!Stop(m)
    BY <1>3, <2>1, FailureStops
  <2> QED
    BY <2>2 DEF Abstract!Next
<1>4. ASSUME NEW p \in Parties, NEW k, TaskStep(p, k) PROVE UNCHANGED Abstract!vars
  <2>1. UNCHANGED <<net, status, call, gathered>>
    BY <1>4 DEF TaskStep, Write, Read, TaskError
  <2> QED
    BY <2>1, OthersStutter
<1>5. ASSUME NEW p \in Parties, NextStage(p) PROVE UNCHANGED Abstract!vars
  <2>1. UNCHANGED <<net, status, call, gathered>>
    BY <1>5 DEF NextStage
  <2> QED
    BY <2>1, OthersStutter
<1>6. ASSUME UNCHANGED vars PROVE UNCHANGED Abstract!vars
  <2>1. UNCHANGED <<net, status, call, gathered>>
    BY <1>6 DEF vars
  <2> QED
    BY <2>1, OthersStutter
<1> QED
  BY <1>2, <1>3, <1>4, <1>5, <1>6 DEF Next, PartyStep, Finished

(* The calls of a benchmark implement AllGather: those a call waits for    *)
(* have entered it when it returns Ok, and it then has the contribution of *)
(* each of them to that very call.                                         *)
THEOREM Implementation == Spec => ImplementsAllGather
<1>1. Spec => Abstract!Spec
  BY Invariance, InitTags, NextTags, AbsInit, AbsStep, PTL DEF Spec, Abstract!Spec
<1> QED
  BY <1>1 DEF ImplementsAllGather

-----------------------------------------------------------------------------
(* The collects.                                                           *)

(* Those a party has waited for in a call have entered it.                 *)
EnteredBy(q) ==
    \A r \in 1 .. call[q] - 1 : \A j \in WaitsFor(CallAt(r), M, q) : call[j] >= r

Entered == \A q \in Parties : EnteredBy(q)

(* It stays so when nobody goes on to another call,                        *)
LEMMA EnteredStays ==
    ASSUME Entered, UNCHANGED <<net, call>>
    PROVE  Entered'
BY DEF Entered, EnteredBy, Parties, CallAt, M

(* and when one does.                                                      *)
LEMMA EnteredReturn ==
    ASSUME IInv, Tags, Entered, NEW p \in Parties, Return(p)
    PROVE  Entered'
<1>1. /\ StageDone(p) /\ stage[p] = Len(Plan(p, call[p]))
      /\ call' = [call EXCEPT ![p] = call[p] + 1] /\ net' = net
  BY DEF Return
<1>2. /\ Shapes /\ LastCall(net) \in Nat /\ M \in Nat /\ Parties = 0 .. M - 1
  BY CallsOK DEF IInv, Shapes, Parties, M
<1>3. \A a \in Parties : /\ call[a] \in Nat /\ call'[a] >= call[a]
                         /\ call'[a] = IF a = p THEN call[a] + 1 ELSE call[a]
  <2> SUFFICES ASSUME NEW a \in Parties
               PROVE  /\ call[a] \in Nat /\ call'[a] >= call[a]
                      /\ call'[a] = IF a = p THEN call[a] + 1 ELSE call[a]
    OBVIOUS
  <2>1. call'[a] = IF a = p THEN call[a] + 1 ELSE call[a]
    BY <1>1, <1>2 DEF Shapes
  <2>2. call[a] \in Nat
    BY <1>2 DEF Shapes
  <2> QED
    BY <2>1, <2>2
<1>4. ASSUME NEW q \in Parties, NEW r \in 1 .. call'[q] - 1, NEW j \in WaitsFor(CallAt(r), M, q)
      PROVE  call'[j] >= r
  <2>1. j \in Parties /\ r \in Nat
    BY <1>2, <1>3 DEF WaitsFor
  <2>2. call[j] >= r
    <3>1. CASE r \in 1 .. call[q] - 1
      BY <1>4, <3>1 DEF Entered, EnteredBy
    <3>2. CASE r \notin 1 .. call[q] - 1
      <4>1. q = p /\ r = call[p]
        BY <1>3, <1>4, <3>2
      <4> QED
        BY <1>1, <1>4, <4>1, Barrier
    <3> QED
      BY <3>1, <3>2
  <2> QED
    BY <1>3, <2>1, <2>2
<1> QED
  BY <1>1, <1>4 DEF Entered, EnteredBy, Parties, CallAt, M

(* Every step preserves it.                                                *)
LEMMA NextEntered == IInv /\ Tags /\ Entered /\ [Next]_vars => Entered'
<1> SUFFICES ASSUME IInv, Tags, Entered, [Next]_vars PROVE Entered'
  OBVIOUS
<1>1. ASSUME NEW p \in Parties, PartyStep(p) \/ Kill(p) PROVE Entered'
  <2>1. CASE Return(p)
    BY <2>1, EnteredReturn
  <2>2. CASE ~Return(p)
    <3>1. UNCHANGED <<net, call>>
      BY <1>1, <2>2 DEF PartyStep, TaskStep, Write, Read, TaskError, NextStage, CallError, Kill
    <3> QED
      BY <3>1, EnteredStays
  <2> QED
    BY <2>1, <2>2
<1>2. CASE UNCHANGED vars
  BY <1>2, EnteredStays DEF vars
<1> QED
  BY <1>1, <1>2 DEF Next, Finished

(* A party in a later collect has come through a sync since the earlier    *)
(* one, so that nobody is in that one any more.                            *)
LEMMA Apart ==
    ASSUME SyncBetween, IInv, Entered, NEW p \in Parties, NEW q \in Parties,
           Running(p), Running(q),
           CallAt(call[p]).op = "collect", CallAt(call[q]).op = "collect", call[p] < call[q]
    PROVE  FALSE
<1>1. /\ net \in DOMAIN Deployments /\ LastCall(net) \in Nat
      /\ TodoOK(p) /\ TodoOK(q) /\ status[p] = "run" /\ status[q] = "run"
  BY CallsOK DEF IInv, Shapes, Running
<1>2. PICK r, s : r = call[p] /\ s = call[q]
  OBVIOUS
<1>3. r \in 1 .. LastCall(net) + 1 /\ s \in 1 .. LastCall(net) + 1
  BY <1>1, <1>2 DEF IInv, Shapes
<1>4. r # LastCall(net) + 1 /\ s # LastCall(net) + 1
  BY <1>1, <1>2 DEF TodoOK
<1>5. r \in 1 .. LastCall(net) /\ s \in 1 .. LastCall(net) /\ r < s
  BY <1>1, <1>2, <1>3, <1>4
<1>6. PICK t \in r + 1 .. s - 1 : CallAt(t).op = "sync"
  BY <1>1, <1>2, <1>5 DEF SyncBetween, CallAt
<1>7. p \in WaitsFor(CallAt(t), M, q)
  BY <1>6 DEF WaitsFor, Parties, M
<1>8. t \in 1 .. s - 1 /\ ~(r >= t)
  BY <1>5
<1> QED
  BY <1>2, <1>7, <1>8 DEF Entered, EnteredBy

(* sync keeps the timed collects apart, wherever the benchmark has one     *)
(* between any two of them.                                                *)
THEOREM SyncSeparates ==
    ASSUME SyncBetween
    PROVE  Spec => []CollectsDoNotOverlap
<1>1. Init => Entered
  <2> SUFFICES ASSUME Init, NEW q \in Parties PROVE EnteredBy(q)
    BY DEF Entered
  <2>1. call[q] = 1
    BY DEF Init
  <2> QED
    BY <2>1 DEF EnteredBy
<1>2. IInv /\ Entered => CollectsDoNotOverlap
  <2> SUFFICES ASSUME IInv, Entered, NEW p \in Parties, NEW q \in Parties,
                      Running(p), CallAt(call[p]).op = "collect",
                      Running(q), CallAt(call[q]).op = "collect"
               PROVE  call[p] = call[q]
    BY DEF CollectsDoNotOverlap, CallAt
  <2>1. call[p] \in Int /\ call[q] \in Int
    <3>1. LastCall(net) \in Nat
      BY CallsOK DEF IInv, Shapes
    <3> QED
      BY <3>1 DEF IInv, Shapes
  <2>2. ~(call[p] < call[q])
    BY Apart
  <2>3. ~(call[q] < call[p])
    BY Apart
  <2> QED
    BY <2>1, <2>2, <2>3
<1> QED
  BY <1>1, <1>2, Invariance, InitTags, NextTags, NextEntered, PTL DEF Spec

=============================================================================
