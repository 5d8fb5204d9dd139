----------------------- MODULE TopologySetup_proofs -----------------------
(***************************************************************************)
(* Proofs about TopologySetup: for every set of topologies, of any number  *)
(* of parties (a power of two for the tree), and any number of attempts.   *)
(*                                                                         *)
(*   1. Targets and Accepts: together the peers of p's calls, once each.   *)
(*   2. Sorting: keys that increase put a sequence in one order only.      *)
(*   3. The inductive invariant: a connection is in one place on its way,  *)
(*      and its client has a higher id than its server.                    *)
(***************************************************************************)
EXTENDS TopologySetup, NumberTheorems, SequenceTheorems

(* What is left of a sequence is a suffix of it.                           *)
LEMMA SuffixSplit ==
    ASSUME NEW S, NEW s \in Seq(S), NEW t \in Seq(S), Len(s) <= Len(t),
           \A k \in 1 .. Len(s) : s[k] = t[Len(t) - Len(s) + k]
    PROVE  IsSuffix(s, t)
<1>1. Len(Reverse(s)) = Len(s) /\ Len(Reverse(t)) = Len(t)
  BY DEF Reverse
<1>2. \A k \in 1 .. Len(s) : Reverse(s)[k] = Reverse(t)[k]
  BY DEF Reverse
<1>3. Reverse(s) \in Seq(S) /\ Reverse(t) \in Seq(S)
  BY DEF Reverse
<1> HIDE DEF Reverse
<1>4. SubSeq(Reverse(s), 1, Len(s)) = SubSeq(Reverse(t), 1, Len(s))
  BY <1>1, <1>2, <1>3
<1> QED
  BY <1>1, <1>4 DEF IsSuffix, IsPrefix

-----------------------------------------------------------------------------
(* Nobody is in s twice.                                                   *)
OnceEach(s) == \A i, j \in 1 .. Len(s) : s[i] = s[j] => i = j

(* The rounds among the first k in which p has the lower id.               *)
Above(p, k) == {b \in 0 .. k - 1 : Partner(p, b) > p}

(* s has p's lower partners of the first k rounds.                         *)
IsBelow(s, p, k) ==
    /\ s \in Seq(Int)
    /\ \A j \in 1 .. Len(s) : \E b \in 0 .. k - 1 : s[j] = Partner(p, b) /\ Partner(p, b) < p
    /\ OnceEach(s)
    /\ IsFiniteSet(Above(p, k)) /\ Len(s) + Cardinality(Above(p, k)) = k

(* One round of the loop.                                                  *)
BelowNext(s, p, k) == IF Partner(p, k) < p THEN Append(s, Partner(p, k)) ELSE s

(* Ids are numbers.                                                        *)
LEMMA PartnerType ==
    ASSUME NEW p \in Int, NEW i \in Nat
    PROVE  Partner(p, i) \in Int
<1>1. PICK a : a = PowerOfTwo(i)
  OBVIOUS
<1>2. a \in Nat
  BY <1>1, PowerStep
<1> QED
  BY <1>1, <1>2 DEF Partner

(* A number is below the power of two it is the exponent of.               *)
LEMMA BelowItsPower ==
    ASSUME NEW i \in Nat
    PROVE  i < PowerOfTwo(i)
<1> DEFINE T == {j \in 0 .. i : j < PowerOfTwo(j)}
<1>1. 0 \in T
  BY PowerStep
<1>2. ASSUME NEW j \in 1 .. i, j - 1 \in T PROVE j \in T
  <2>1. PICK b : b = PowerOfTwo(j - 1)
    OBVIOUS
  <2>2. j - 1 \in Nat /\ (j - 1) + 1 = j
    OBVIOUS
  <2>3. b \in Nat \ {0} /\ PowerOfTwo((j - 1) + 1) = 2 * b
    BY <2>1, <2>2, PowerStep
  <2>4. j - 1 < b
    BY <1>2, <2>1
  <2> QED
    BY <2>2, <2>3, <2>4
<1> HIDE DEF T
<1>3. \A j \in 0 .. i : j \in T
  BY <1>1, <1>2, InductionUpTo
<1> QED
  BY <1>3 DEF T

(* The bits of a number at and above a power that is larger are zero.      *)
LEMMA HighBits ==
    ASSUME NEW p \in Nat, NEW i \in Nat, p < PowerOfTwo(i)
    PROVE  (p \div PowerOfTwo(i)) % 2 = 0
<1>1. PICK a : a = PowerOfTwo(i)
  OBVIOUS
<1>2. a \in Nat \ {0} /\ p \in 0 .. a - 1
  BY <1>1, PowerStep
<1>3. (a * 0 + p) \div a = 0
  BY <1>2, DivModUnique
<1>4. a * 0 + p = p
  BY <1>2
<1> QED
  BY <1>1, <1>3, <1>4

(* The ones of an id are the rounds in which its party has the higher id,  *)
(* so that log_n - count_ones counts the others.                           *)
LEMMA OnesAreBelow ==
    ASSUME NEW l \in Nat, NEW n, n = PowerOfTwo(l), NEW p \in 0 .. n - 1
    PROVE  IsFiniteSet(Above(p, l)) /\ l - CountOnes(p) = Cardinality(Above(p, l))
<1> DEFINE One(i) == (p \div PowerOfTwo(i)) % 2 = 1
           Ones == {i \in 0 .. p : One(i)}
           Rounds == 0 .. l - 1
<1>1. n \in Nat /\ p \in Nat /\ p < n
  BY PowerStep
<1>2. ASSUME NEW i \in Rounds PROVE One(i) <=> ~(Partner(p, i) > p)
  <2>1. PICK c : c = p \div PowerOfTwo(i)
    OBVIOUS
  <2>2. PowerOfTwo(i) \in Nat \ {0}
    BY PowerStep
  <2>3. c \in Int
    BY <1>1, <2>1, <2>2
  <2>4. (c % 2) \in {0, 1}
    BY <2>3
  <2>5. IsServer(p, i) <=> Partner(p, i) > p
    BY PartnerOf
  <2> QED
    BY <2>1, <2>4, <2>5 DEF IsServer
<1>3. ASSUME NEW i \in Nat, One(i) PROVE i \in 0 .. p
  <2>1. PICK a : a = PowerOfTwo(i)
    OBVIOUS
  <2>2. a \in Nat /\ i < a
    BY <2>1, PowerStep, BelowItsPower
  <2>3. ~(p < a)
    <3>1. (p \div PowerOfTwo(i)) % 2 # 0
      BY <1>3
    <3> QED
      BY <1>1, <2>1, <3>1, HighBits
  <2> QED
    BY <1>1, <2>2, <2>3
<1>4. ASSUME NEW i \in Nat, One(i) PROVE i \in Rounds
  <2>1. SUFFICES ASSUME i >= l PROVE FALSE
    OBVIOUS
  <2>2. p < PowerOfTwo(i)
    <3>1. CASE i = l
      BY <1>1, <3>1
    <3>2. CASE l < i
      <4>1. PICK m \in Nat \ {0} : PowerOfTwo(i) = 2 * (PowerOfTwo(l) * m)
        BY <3>2, PowersGrow
      <4>2. n * m >= n
        BY <1>1
      <4>3. PICK d \in Int : d = n * m
        BY <1>1
      <4> QED
        BY <1>1, <4>1, <4>2, <4>3
    <3> QED
      BY <2>1, <3>1, <3>2
  <2>3. (p \div PowerOfTwo(i)) % 2 = 0
    BY <1>1, <2>2, HighBits
  <2> QED
    BY <1>4, <2>3
<1> HIDE DEF One
<1>5. Ones = Rounds \ Above(p, l)
  BY <1>1, <1>2, <1>3, <1>4 DEF Above
<1>6. CountOnes(p) = Cardinality(Ones)
  BY DEF CountOnes, One
<1>7. IsFiniteSet(Rounds) /\ Cardinality(Rounds) = l
  BY FS_Interval
<1>8. Above(p, l) \in SUBSET Rounds /\ Rounds \cap Above(p, l) = Above(p, l)
  BY DEF Above
<1> HIDE DEF Ones, Rounds
<1>9. IsFiniteSet(Above(p, l))
  BY <1>7, <1>8, FS_Subset
<1>10. Cardinality(Ones) = Cardinality(Rounds) - Cardinality(Rounds \cap Above(p, l))
  BY <1>5, <1>7, FS_Difference
<1>11. Cardinality(Above(p, l)) \in Nat
  BY <1>9, FS_CardinalityType
<1>12. Cardinality(Rounds \cap Above(p, l)) = Cardinality(Above(p, l))
  BY <1>8
<1>13. PICK c : c = Cardinality(Above(p, l))
  OBVIOUS
<1>14. c \in Nat /\ CountOnes(p) = l - c
  BY <1>6, <1>7, <1>10, <1>11, <1>12, <1>13
<1> QED
  BY <1>9, <1>13, <1>14

(* A round of the loop adds the partner if its id is lower.                *)
LEMMA BelowStep ==
    ASSUME NEW p \in Nat, NEW k \in Nat, Partner(p, k) # p, NEW s, IsBelow(s, p, k)
    PROVE  IsBelow(BelowNext(s, p, k), p, k + 1)
<1>1. /\ s \in Seq(Int) /\ OnceEach(s) /\ Len(s) \in Nat
      /\ IsFiniteSet(Above(p, k)) /\ Len(s) + Cardinality(Above(p, k)) = k
  BY DEF IsBelow
<1>2. ASSUME NEW j \in 1 .. Len(s)
      PROVE  \E b \in 0 .. k - 1 : s[j] = Partner(p, b) /\ Partner(p, b) < p
  BY DEF IsBelow
<1>3. PICK q \in Int : q = Partner(p, k)
  BY PartnerType
<1>4. \A b \in 0 .. (k + 1) - 1 : b \in 0 .. k - 1 \/ b = k
  OBVIOUS
<1>5. CASE q < p
  <2>1. BelowNext(s, p, k) = Append(s, q)
    BY <1>3, <1>5 DEF BelowNext
  <2>2. PICK r : r = Append(s, q)
    OBVIOUS
  <2>3. /\ r \in Seq(Int) /\ Len(r) = Len(s) + 1 /\ r[Len(s) + 1] = q
        /\ \A j \in 1 .. Len(s) : r[j] = s[j]
    BY <1>1, <2>2
  <2>4. ASSUME NEW j \in 1 .. Len(r)
        PROVE  \E b \in 0 .. (k + 1) - 1 : r[j] = Partner(p, b) /\ Partner(p, b) < p
    <3>1. CASE j = Len(s) + 1
      <4>1. k \in 0 .. (k + 1) - 1
        OBVIOUS
      <4> QED
        BY <1>3, <1>5, <2>3, <3>1, <4>1
    <3>2. CASE j # Len(s) + 1
      <4>1. j \in 1 .. Len(s)
        BY <1>1, <2>3, <3>2
      <4>2. PICK b \in 0 .. k - 1 : s[j] = Partner(p, b) /\ Partner(p, b) < p
        BY <1>2, <4>1
      <4>3. b \in 0 .. (k + 1) - 1
        OBVIOUS
      <4> QED
        BY <2>3, <4>1, <4>2, <4>3
    <3> QED
      BY <3>1, <3>2
  <2>5. ASSUME NEW j \in 1 .. Len(s) PROVE s[j] # q
    <3>1. PICK b \in 0 .. k - 1 : s[j] = Partner(p, b)
      BY <1>2
    <3>2. b \in Nat /\ b # k
      OBVIOUS
    <3> QED
      BY <1>3, <3>1, <3>2, PartnersDiffer
  <2>6. OnceEach(r)
    <3>1. ASSUME NEW i \in 1 .. Len(r), NEW j \in 1 .. Len(r), r[i] = r[j] PROVE i = j
      <4>1. /\ i \in 1 .. Len(s) \/ i = Len(s) + 1
            /\ j \in 1 .. Len(s) \/ j = Len(s) + 1
        BY <1>1, <2>3
      <4> QED
        BY <1>1, <2>3, <2>5, <3>1, <4>1 DEF OnceEach
    <3> QED
      BY <3>1 DEF OnceEach
  <2>7. Above(p, k + 1) = Above(p, k)
    <3>1. ~(q > p)
      BY <1>5
    <3> QED
      BY <1>3, <1>4, <3>1 DEF Above
  <2>8. Len(r) + Cardinality(Above(p, k)) = k + 1
    <3>1. Cardinality(Above(p, k)) \in Nat
      BY <1>1, FS_CardinalityType
    <3> QED
      BY <1>1, <2>3, <3>1
  <2> QED
    BY <1>1, <2>1, <2>2, <2>3, <2>4, <2>6, <2>7, <2>8 DEF IsBelow
<1>6. CASE q > p
  <2>1. BelowNext(s, p, k) = s
    BY <1>3, <1>6 DEF BelowNext
  <2>2. Above(p, k + 1) = Above(p, k) \cup {k} /\ k \notin Above(p, k)
    BY <1>3, <1>4, <1>6 DEF Above
  <2>3. /\ IsFiniteSet(Above(p, k + 1))
        /\ Cardinality(Above(p, k + 1)) = Cardinality(Above(p, k)) + 1
    BY <1>1, <2>2, FS_AddElement
  <2>4. Cardinality(Above(p, k)) \in Nat
    BY <1>1, FS_CardinalityType
  <2>5. Len(s) + Cardinality(Above(p, k + 1)) = k + 1
    BY <1>1, <2>3, <2>4
  <2>6. ASSUME NEW j \in 1 .. Len(s)
        PROVE  \E b \in 0 .. (k + 1) - 1 : s[j] = Partner(p, b) /\ Partner(p, b) < p
    <3>1. PICK b \in 0 .. k - 1 : s[j] = Partner(p, b) /\ Partner(p, b) < p
      BY <1>2
    <3>2. b \in 0 .. (k + 1) - 1
      OBVIOUS
    <3> QED
      BY <3>1, <3>2
  <2> QED
    BY <1>1, <2>1, <2>3, <2>5, <2>6 DEF IsBelow
<1> QED
  BY <1>3, <1>5, <1>6

(* The loop of TcpTree::new over the bits connects to each partner with a  *)
(* lower id, once.                                                         *)
LEMMA BelowRight ==
    ASSUME NEW p \in Nat, NEW l \in Nat, \A b \in 0 .. l - 1 : Partner(p, b) # p
    PROVE  IsBelow(Below(p, l), p, l)
<1> DEFINE X == Seq(Int)
           none == << >>
           step == [x \in X \X (1 .. l) |-> BelowNext(x[1], p, x[2] - 1)]
           Eqn(h) == h = [k \in 0 .. l |->
                            IF k = 0 THEN none
                            ELSE IF Partner(p, k - 1) < p
                            THEN Append(h[k - 1], Partner(p, k - 1))
                            ELSE h[k - 1]]
           below == CHOOSE h : Eqn(h)
<1>1. step \in [X \X (1 .. l) -> X] /\ none \in X
  <2>1. ASSUME NEW s \in X, NEW k \in 1 .. l PROVE BelowNext(s, p, k - 1) \in X
    <3>1. Partner(p, k - 1) \in Int
      BY PartnerType
    <3> QED
      BY <3>1 DEF BelowNext
  <2> QED
    BY <2>1
<1>2. \A s \in X, k \in 1 .. l : step[<<s, k>>] = BelowNext(s, p, k - 1)
  OBVIOUS
<1>3. PICK f \in [0 .. l -> X] : Iterates(f, none, step, l)
  <2> HIDE DEF X, step, none
  <2> QED
    BY <1>1, RecursiveFunction
<1>4. f[0] = none /\ \A k \in 1 .. l : f[k] = BelowNext(f[k - 1], p, k - 1)
  <2>1. f[0] = none
    BY <1>3 DEF Iterates
  <2>2. ASSUME NEW k \in 1 .. l PROVE f[k] = BelowNext(f[k - 1], p, k - 1)
    <3>1. f[k - 1] \in X
      OBVIOUS
    <3>2. f[k] = step[<<f[k - 1], k>>]
      BY <1>3 DEF Iterates
    <3> HIDE DEF step, X
    <3> QED
      BY <1>2, <3>1, <3>2
  <2> QED
    BY <2>1, <2>2
<1>5. Eqn(f)
  <2>1. f = [k \in 0 .. l |-> f[k]]
    OBVIOUS
  <2>2. ASSUME NEW k \in 0 .. l
        PROVE  f[k] = IF k = 0 THEN none
                      ELSE IF Partner(p, k - 1) < p
                      THEN Append(f[k - 1], Partner(p, k - 1)) ELSE f[k - 1]
    <3>1. CASE k = 0
      BY <1>4, <3>1
    <3>2. CASE k # 0
      <4>1. k \in 1 .. l
        BY <3>2
      <4> QED
        BY <1>4, <3>2, <4>1 DEF BelowNext
    <3> QED
      BY <3>1, <3>2
  <2> HIDE DEF none
  <2> QED
    BY <2>1, <2>2
<1>6. Eqn(below)
  BY <1>5
<1>7. Below(p, l) = below[l]
  BY DEF Below
<1> HIDE DEF below
<1>8. /\ below[0] = none
      /\ \A k \in 1 .. l : below[k] = BelowNext(below[k - 1], p, k - 1)
  <2>1. \A k \in 0 .. l : below[k] = IF k = 0 THEN none
                      ELSE IF Partner(p, k - 1) < p
                      THEN Append(below[k - 1], Partner(p, k - 1)) ELSE below[k - 1]
    BY <1>6
  <2>2. \A k \in 1 .. l : k \in 0 .. l /\ k # 0
    OBVIOUS
  <2> QED
    BY <2>1, <2>2 DEF BelowNext
<1> DEFINE T == {k \in 0 .. l : IsBelow(below[k], p, k)}
<1>9. 0 \in T
  <2>1. Above(p, 0) = {}
    BY DEF Above
  <2>2. IsFiniteSet(Above(p, 0)) /\ Cardinality(Above(p, 0)) = 0
    BY <2>1, FS_EmptySet
  <2>3. IsBelow(<< >>, p, 0)
    BY <2>2 DEF IsBelow, OnceEach
  <2> QED
    BY <1>8, <2>3
<1> HIDE DEF X, step, Eqn, none
<1>10. ASSUME NEW k \in 1 .. l, k - 1 \in T PROVE k \in T
  <2>1. k - 1 \in Nat /\ k - 1 \in 0 .. l - 1 /\ (k - 1) + 1 = k
    OBVIOUS
  <2>2. IsBelow(below[k - 1], p, k - 1) /\ Partner(p, k - 1) # p
    BY <1>10, <2>1
  <2>3. IsBelow(BelowNext(below[k - 1], p, k - 1), p, k)
    BY <2>1, <2>2, BelowStep
  <2> QED
    BY <1>8, <2>3
<1> HIDE DEF T
<1>11. \A k \in 0 .. l : k \in T
  BY <1>9, <1>10, InductionUpTo
<1> QED
  BY <1>7, <1>11 DEF T

-----------------------------------------------------------------------------
(* The connections of party p of n, and whom its calls reach over them.    *)
Degree(t, n, p) ==
    CASE t = "tree"     -> LogN(n)
      [] t = "pairwise" -> n - 1
      [] t = "collect"  -> IF p = 0 THEN n - 1 ELSE 1

(* Whom the calls reach over connections[k - 1]: PeerOfCall of             *)
(* TopologySetup, for any topology.                                        *)
CallPeer(t, p, k) ==
    CASE t = "tree"     -> Partner(p, k - 1)
      [] t = "pairwise" -> ConnPeer(p, k - 1)
      [] t = "collect"  -> IF p = 0 THEN k ELSE 0

(* p reaches q in its calls.                                               *)
Calls(t, n, p, q) == \E k \in 1 .. Degree(t, n, p) : q = CallPeer(t, p, k)

(* What the constructors' loops connect to and accept: each peer of the    *)
(* calls once, from one side.                                              *)
TargetsOK(t, n, p) ==
    LET T == Targets(t, n, p)
    IN  /\ T \in Seq(0 .. n - 1) /\ OnceEach(T)
        /\ \A j \in 1 .. Len(T) :
             T[j] < p /\ Calls(t, n, p, T[j]) /\ Calls(t, n, T[j], p)
        /\ Degree(t, n, p) \in Nat /\ Accepts(t, n, p) \in Nat
        /\ Len(T) + Accepts(t, n, p) = Degree(t, n, p)

(* The topologies are what the assumption says.                            *)
LEMMA NetKinds ==
    ASSUME NEW t \in DOMAIN Nets
    PROVE  /\ t \in {"tree", "pairwise", "collect"} /\ Nets[t] \in Nat /\ Nets[t] >= 2
           /\ t = "tree" => /\ LogN(Nets[t]) \in Nat
                            /\ PowerOfTwo(LogN(Nets[t])) = Nets[t]
<1>1. t \in {"tree", "pairwise", "collect"} /\ Nets[t] \in Nat /\ Nets[t] >= 2
  BY TopologySetupAssumption
<1>2. ASSUME t = "tree"
      PROVE  LogN(Nets[t]) \in Nat /\ PowerOfTwo(LogN(Nets[t])) = Nets[t]
  <2>1. \E l \in 0 .. Nets[t] : PowerOfTwo(l) = Nets[t]
    BY <1>2, TopologySetupAssumption
  <2>2. PICK n : n = Nets[t]
    OBVIOUS
  <2>3. LogN(n) \in 0 .. n /\ PowerOfTwo(LogN(n)) = n
    BY <2>1, <2>2, LogOf
  <2>4. n \in Nat
    BY <1>1, <2>2
  <2> QED
    BY <2>2, <2>3, <2>4
<1> QED
  BY <1>1, <1>2

(* The tree: the partners below are connected to, those above accepted.    *)
LEMMA TreeTargets ==
    ASSUME NEW n \in Nat, LogN(n) \in Nat, PowerOfTwo(LogN(n)) = n, NEW p \in 0 .. n - 1
    PROVE  TargetsOK("tree", n, p)
<1>1. PICK l \in Nat : l = LogN(n)
  OBVIOUS
<1>2. n = PowerOfTwo(l) /\ p \in Nat
  BY <1>1
<1>3. ASSUME NEW q \in 0 .. n - 1, NEW b \in 0 .. l - 1
      PROVE  Partner(q, b) \in 0 .. n - 1 /\ Partner(q, b) # q /\ Partner(Partner(q, b), b) = q
  BY <1>2, PartnerOf
<1>4. PICK T : T = Below(p, l)
  OBVIOUS
<1>5. IsBelow(T, p, l)
  BY <1>2, <1>3, <1>4, BelowRight
<1>6. /\ Degree("tree", n, p) = l /\ Targets("tree", n, p) = T
      /\ Accepts("tree", n, p) = Cardinality(Above(p, l))
  <2>1. Accepts("tree", n, p) = l - CountOnes(p)
    BY <1>1 DEF Accepts
  <2>2. l - CountOnes(p) = Cardinality(Above(p, l))
    BY <1>2, OnesAreBelow
  <2> QED
    BY <1>1, <1>4, <2>1, <2>2 DEF Degree, Targets
<1>7. /\ T \in Seq(Int) /\ Len(T) \in Nat /\ OnceEach(T)
      /\ Cardinality(Above(p, l)) \in Nat /\ Len(T) + Cardinality(Above(p, l)) = l
  BY <1>5, FS_CardinalityType DEF IsBelow
<1>8. ASSUME NEW j \in 1 .. Len(T)
      PROVE  /\ T[j] \in 0 .. n - 1 /\ T[j] < p
             /\ Calls("tree", n, p, T[j]) /\ Calls("tree", n, T[j], p)
  <2>1. PICK b \in 0 .. l - 1 : T[j] = Partner(p, b) /\ Partner(p, b) < p
    BY <1>5 DEF IsBelow
  <2>2. PICK q : q = Partner(p, b)
    OBVIOUS
  <2>3. q \in 0 .. n - 1 /\ p = Partner(q, b) /\ T[j] = q /\ q < p
    BY <1>3, <2>1, <2>2
  <2>4. b + 1 \in 1 .. l /\ (b + 1) - 1 = b
    BY <1>1
  <2>5. CallPeer("tree", p, b + 1) = q /\ CallPeer("tree", q, b + 1) = p
    BY <2>2, <2>3, <2>4 DEF CallPeer
  <2>6. Degree("tree", n, q) = l /\ Degree("tree", n, p) = l
    BY <1>1 DEF Degree
  <2>7. Calls("tree", n, p, q)
    BY <2>4, <2>5, <2>6 DEF Calls
  <2>8. Calls("tree", n, q, p)
    BY <2>4, <2>5, <2>6 DEF Calls
  <2> QED
    BY <2>3, <2>7, <2>8
<1>9. T \in Seq(0 .. n - 1)
  <2>1. PICK k \in Nat : k = Len(T)
    BY <1>7
  <2>2. T = [j \in 1 .. k |-> T[j]]
    BY <1>7, <2>1
  <2>3. \A j \in 1 .. k : T[j] \in 0 .. n - 1
    BY <1>8, <2>1
  <2>4. T \in [1 .. k -> 0 .. n - 1]
    BY <2>2, <2>3
  <2> QED
    BY <2>4
<1> QED
  BY <1>6, <1>7, <1>8, <1>9 DEF TargetsOK

(* The others connect to all lower ids, or to party 0.                     *)
LEMMA OtherTargets ==
    ASSUME NEW n \in Nat, n >= 2, NEW t \in {"pairwise", "collect"}, NEW p \in 0 .. n - 1
    PROVE  TargetsOK(t, n, p)
<1>1. CASE t = "pairwise"
  <2>1. PICK T : T = [k \in 1 .. p |-> k - 1]
    OBVIOUS
  <2>2. T \in Seq(0 .. n - 1) /\ Len(T) = p /\ \A j \in 1 .. p : T[j] = j - 1
    BY <2>1
  <2>3. /\ Targets(t, n, p) = T /\ Degree(t, n, p) = n - 1 /\ Accepts(t, n, p) = n - p - 1
    BY <1>1, <2>1 DEF Targets, Degree, Accepts
  <2>4. OnceEach(T)
    BY <2>2 DEF OnceEach
  <2>5. ASSUME NEW j \in 1 .. p
        PROVE  j - 1 < p /\ Calls(t, n, p, j - 1) /\ Calls(t, n, j - 1, p)
    <3>1. j \in 1 .. n - 1 /\ p \in 1 .. n - 1
      OBVIOUS
    <3>2. CallPeer(t, p, j) = j - 1
      BY <1>1 DEF CallPeer, ConnPeer
    <3>3. CallPeer(t, j - 1, p) = p
      BY <1>1 DEF CallPeer, ConnPeer
    <3>4. Degree(t, n, p) = n - 1 /\ Degree(t, n, j - 1) = n - 1
      BY <1>1 DEF Degree
    <3> QED
      BY <3>1, <3>2, <3>3, <3>4 DEF Calls
  <2> QED
    BY <2>2, <2>3, <2>4, <2>5 DEF TargetsOK
<1>2. CASE t = "collect"
  <2>1. CASE p = 0
    <3>1. /\ Targets(t, n, p) = << >> /\ Degree(t, n, p) = n - 1
          /\ Accepts(t, n, p) = n - 1
      BY <1>2, <2>1 DEF Targets, Degree, Accepts
    <3> QED
      BY <3>1 DEF TargetsOK, OnceEach
  <2>2. CASE p # 0
    <3>1. /\ Targets(t, n, p) = <<0>> /\ Degree(t, n, p) = 1 /\ Accepts(t, n, p) = 0
      BY <1>2, <2>2 DEF Targets, Degree, Accepts
    <3>2. CallPeer(t, p, 1) = 0 /\ CallPeer(t, 0, p) = p /\ Degree(t, n, 0) = n - 1
      BY <1>2, <2>2 DEF CallPeer, Degree
    <3>3. Calls(t, n, p, 0) /\ Calls(t, n, 0, p)
      BY <2>2, <3>1, <3>2 DEF Calls
    <3>4. <<0>> \in Seq(0 .. n - 1) /\ Len(<<0>>) = 1 /\ <<0>>[1] = 0
      OBVIOUS
    <3> QED
      BY <2>2, <3>1, <3>3, <3>4 DEF TargetsOK, OnceEach
  <2> QED
    BY <2>1, <2>2
<1> QED
  BY <1>1, <1>2

(* In every topology, what a party connects to and what it accepts are the *)
(* connections of its calls.                                               *)
LEMMA TargetsRight ==
    ASSUME NEW t \in DOMAIN Nets, NEW p \in 0 .. Nets[t] - 1
    PROVE  TargetsOK(t, Nets[t], p)
<1>1. /\ t \in {"tree", "pairwise", "collect"} /\ Nets[t] \in Nat /\ Nets[t] >= 2
      /\ t = "tree" => LogN(Nets[t]) \in Nat /\ PowerOfTwo(LogN(Nets[t])) = Nets[t]
  BY NetKinds
<1>2. CASE t = "tree"
  <2>1. PICK n \in Nat : n = Nets[t]
    BY <1>1
  <2>2. TargetsOK("tree", n, p)
    BY <1>1, <1>2, <2>1, TreeTargets
  <2> QED
    BY <1>2, <2>1, <2>2
<1>3. CASE t # "tree"
  BY <1>1, <1>3, OtherTargets
<1> QED
  BY <1>2, <1>3

(* What the connection to a peer is sorted by.                             *)
PlaceIn(t, n, p, q) ==
    IF t = "tree" THEN CHOOSE i \in 0 .. LogN(n) - 1 : Partner(p, i) = q ELSE q

(* The places of the peers of the calls are in the order of the calls.     *)
LEMMA PlacesIncrease ==
    ASSUME NEW t \in DOMAIN Nets, NEW n, n = Nets[t], NEW p \in 0 .. n - 1,
           NEW j \in 1 .. Degree(t, n, p), NEW k \in 1 .. Degree(t, n, p)
    PROVE  /\ PlaceIn(t, n, p, CallPeer(t, p, j)) \in Int
           /\ j < k => PlaceIn(t, n, p, CallPeer(t, p, j)) < PlaceIn(t, n, p, CallPeer(t, p, k))
<1>1. /\ t \in {"tree", "pairwise", "collect"} /\ n \in Nat /\ n >= 2
      /\ t = "tree" => LogN(n) \in Nat
  BY NetKinds
<1>2. p \in Nat
  BY <1>1
<1>3. CASE t = "tree"
  <2>1. PICK l \in Nat : l = LogN(n) /\ l = Degree(t, n, p)
    BY <1>1, <1>3 DEF Degree
  <2>2. ASSUME NEW i \in 1 .. l PROVE PlaceIn(t, n, p, CallPeer(t, p, i)) = i - 1
    <3>1. PICK q : q = Partner(p, i - 1)
      OBVIOUS
    <3>2. CallPeer(t, p, i) = q
      BY <1>3, <3>1 DEF CallPeer
    <3>3. i - 1 \in 0 .. l - 1 /\ \A b \in 0 .. l - 1 : Partner(p, b) = q => b = i - 1
      <4>1. i - 1 \in 0 .. l - 1 /\ i - 1 \in Nat
        OBVIOUS
      <4>2. ASSUME NEW b \in 0 .. l - 1, Partner(p, b) = q PROVE b = i - 1
        <5>1. b \in Nat /\ Partner(p, b) = Partner(p, i - 1)
          BY <3>1, <4>2
        <5> QED
          BY <1>2, <4>1, <5>1, PartnersDiffer
      <4> QED
        BY <4>1, <4>2
    <3>4. (CHOOSE b \in 0 .. l - 1 : Partner(p, b) = q) = i - 1
      BY <3>1, <3>3
    <3> QED
      BY <1>3, <2>1, <3>2, <3>4 DEF PlaceIn
  <2>3. j \in 1 .. l /\ k \in 1 .. l
    BY <2>1
  <2> QED
    BY <2>2, <2>3
<1>4. CASE t # "tree"
  <2>1. /\ PlaceIn(t, n, p, CallPeer(t, p, j)) = CallPeer(t, p, j)
        /\ PlaceIn(t, n, p, CallPeer(t, p, k)) = CallPeer(t, p, k)
    BY <1>4 DEF PlaceIn
  <2>2. CASE t = "pairwise"
    <3>1. j \in Int /\ k \in Int
      BY <1>1, <2>2 DEF Degree
    <3> QED
      BY <1>2, <2>1, <2>2, <3>1 DEF CallPeer, ConnPeer
  <2>3. CASE t = "collect"
    <3>1. CASE p = 0
      <4>1. j \in Int /\ k \in Int
        BY <1>1, <2>3, <3>1 DEF Degree
      <4> QED
        BY <2>1, <2>3, <3>1, <4>1 DEF CallPeer
    <3>2. CASE p # 0
      <4>1. j = 1 /\ k = 1
        BY <2>3, <3>2 DEF Degree
      <4> QED
        BY <2>1, <2>3, <3>2, <4>1 DEF CallPeer
    <3> QED
      BY <3>1, <3>2
  <2> QED
    BY <1>1, <1>4, <2>2, <2>3
<1> QED
  BY <1>3, <1>4

-----------------------------------------------------------------------------
(* h[1], ..., h[m] grow.                                                   *)
Increasing(h, m) ==
    /\ \A k \in 1 .. m : h[k] \in Int
    /\ \A j, k \in 1 .. m : j < k => h[j] < h[k]

(* The keys e[1], ..., e[m] are all there.                                 *)
HasKeys(key, e, m) == \A k \in 1 .. m : \E i \in 1 .. m : key[i] = e[k]

(* o takes the keys in the order e[1], ..., e[m].                          *)
InOrder(key, o, e, m) == \A k \in 1 .. m : key[o[k]] = e[k]

(* Only the identity maps 1 .. m to itself in order.                       *)
LEMMA IncreasingIsIdentity ==
    ASSUME NEW m \in Nat, NEW h \in [1 .. m -> 1 .. m], Increasing(h, m)
    PROVE  \A k \in 1 .. m : h[k] = k
<1> DEFINE Low == {k \in 0 .. m : k = 0 \/ h[k] >= k}
           High == {d \in 0 .. m : d = m \/ h[m - d] <= m - d}
<1>1. 0 \in Low /\ 0 \in High
  OBVIOUS
<1>2. ASSUME NEW k \in 1 .. m, k - 1 \in Low PROVE k \in Low
  <2>1. CASE k = 1
    <3>1. h[1] \in 1 .. m
      BY <2>1
    <3> QED
      BY <2>1, <3>1
  <2>2. CASE k # 1
    <3>1. k - 1 \in 1 .. m /\ h[k - 1] \in 1 .. m /\ h[k] \in 1 .. m
      BY <2>2
    <3>2. h[k - 1] >= k - 1 /\ h[k - 1] < h[k]
      BY <1>2, <2>2, <3>1 DEF Increasing
    <3> QED
      BY <3>1, <3>2
  <2> QED
    BY <2>1, <2>2
<1>3. ASSUME NEW d \in 1 .. m, d - 1 \in High PROVE d \in High
  <2>1. CASE d = m
    BY <2>1
  <2>2. CASE d # m
    <3>1. PICK k \in 1 .. m : k = m - d
      BY <2>2
    <3>2. k + 1 \in 1 .. m /\ m - (d - 1) = k + 1 /\ d - 1 # m
      BY <3>1
    <3>3. h[k + 1] <= k + 1
      BY <1>3, <3>2
    <3>4. h[k] \in 1 .. m /\ h[k + 1] \in 1 .. m /\ h[k] < h[k + 1]
      BY <3>2 DEF Increasing
    <3>5. h[k] <= k
      BY <3>3, <3>4
    <3> QED
      BY <3>1, <3>5
  <2> QED
    BY <2>1, <2>2
<1> HIDE DEF Low, High
<1>4. \A k \in 0 .. m : k \in Low
  BY <1>1, <1>2, InductionUpTo
<1>5. \A d \in 0 .. m : d \in High
  BY <1>1, <1>3, InductionUpTo
<1>6. ASSUME NEW k \in 1 .. m PROVE h[k] = k
  <2>1. h[k] >= k
    BY <1>4 DEF Low
  <2>2. PICK d \in 0 .. m : d = m - k /\ m - d = k /\ d # m
    OBVIOUS
  <2>3. h[k] <= k
    BY <1>5, <2>2 DEF High
  <2> QED
    BY <2>1, <2>3
<1> QED
  BY <1>6

(* o as an arrangement of 1 .. m.                                          *)
OneToOne(o, m) == \A i, j \in 1 .. m : o[i] = o[j] => i = j

Onto(o, m) == \A k \in 1 .. m : \E i \in 1 .. m : o[i] = k

(* A one-to-one map of 1 .. m to itself takes every value.                 *)
LEMMA OneToOneIsOnto ==
    ASSUME NEW m \in Nat, NEW o \in [1 .. m -> 1 .. m], OneToOne(o, m)
    PROVE  Onto(o, m)
<1> DEFINE S == 1 .. m
<1>1. IsFiniteSet(S)
  BY FS_Interval
<1>2. o \in Injection(S, S)
  BY DEF Injection, IsInjective, OneToOne
<1>3. o \in Surjection(S, S)
  <2> HIDE DEF S
  <2> QED
    BY <1>1, <1>2, FS_Injection
<1> QED
  BY <1>3 DEF Surjection, Onto

(* A sequence whose keys are e[1] < ... < e[m] in some order is sorted so  *)
(* that they are in this order.                                            *)
LEMMA SortedRight ==
    ASSUME NEW m \in Nat, NEW s, DOMAIN s = 1 .. m, NEW key, NEW e,
           Increasing(e, m), HasKeys(key, e, m)
    PROVE  \E o \in [1 .. m -> 1 .. m] :
              SortedBy(s, key) = [k \in 1 .. m |-> s[o[k]]] /\ InOrder(key, o, e, m)
<1> DEFINE Orders(o) == /\ IsInjective(o)
                        /\ \A j, k \in DOMAIN s : j < k => key[o[j]] <= key[o[k]]
           w == [k \in 1 .. m |-> CHOOSE i \in 1 .. m : key[i] = e[k]]
           order == CHOOSE o \in [DOMAIN s -> DOMAIN s] : Orders(o)
<1> HIDE DEF Orders, w, order
<1>0. ASSUME NEW j \in 1 .. m, NEW k \in 1 .. m
      PROVE  e[j] \in Int /\ e[k] \in Int /\ (j < k => e[j] < e[k])
  BY DEF Increasing
<1>1. ASSUME NEW j \in 1 .. m, NEW k \in 1 .. m, e[j] = e[k] PROVE j = k
  <2>1. e[j] \in Int /\ (j < k => e[j] < e[k]) /\ (k < j => e[k] < e[j])
    BY <1>0
  <2> QED
    BY <1>1, <2>1
<1>2. w \in [1 .. m -> 1 .. m] /\ \A k \in 1 .. m : key[w[k]] = e[k]
  BY DEF w, HasKeys
<1>3. PICK v : v = w
  OBVIOUS
<1>4. v \in [1 .. m -> 1 .. m] /\ \A k \in 1 .. m : key[v[k]] = e[k]
  BY <1>2, <1>3
<1>5. \A j, k \in 1 .. m : v[j] = v[k] => j = k
  <2>1. ASSUME NEW j \in 1 .. m, NEW k \in 1 .. m, v[j] = v[k] PROVE j = k
    <3>1. e[j] = e[k]
      BY <1>4, <2>1
    <3> QED
      BY <1>1, <3>1
  <2> QED
    BY <2>1
<1>6. Orders(v)
  <2>1. IsInjective(v)
    BY <1>4, <1>5 DEF IsInjective
  <2>2. ASSUME NEW j \in 1 .. m, NEW k \in 1 .. m, j < k PROVE key[v[j]] <= key[v[k]]
    <3>1. key[v[j]] = e[j] /\ key[v[k]] = e[k]
      BY <1>4
    <3>2. e[j] \in Int /\ e[k] \in Int /\ e[j] < e[k]
      BY <1>0, <2>2
    <3> QED
      BY <3>1, <3>2
  <2> QED
    BY <2>1, <2>2 DEF Orders
<1>7. order \in [1 .. m -> 1 .. m] /\ Orders(order)
  BY <1>4, <1>6 DEF order
<1>8. SortedBy(s, key) = [k \in 1 .. m |-> s[order[k]]]
  BY DEF SortedBy, order, Orders
<1>9. PICK o : o = order
  OBVIOUS
<1>10. /\ o \in [1 .. m -> 1 .. m] /\ SortedBy(s, key) = [k \in 1 .. m |-> s[o[k]]]
       /\ \A i, j \in 1 .. m : o[i] = o[j] => i = j
       /\ \A j, k \in 1 .. m : j < k => key[o[j]] <= key[o[k]]
  BY <1>7, <1>8, <1>9 DEF Orders, IsInjective
<1>11. \A i \in 1 .. m : \E k \in 1 .. m : v[k] = i
  <2>1. OneToOne(v, m)
    BY <1>5 DEF OneToOne
  <2>2. Onto(v, m)
    BY <1>4, <2>1, OneToOneIsOnto
  <2> QED
    BY <2>2 DEF Onto
<1>12. \A i \in 1 .. m : \E k \in 1 .. m : key[i] = e[k] /\ v[k] = i
  BY <1>4, <1>11
<1> DEFINE g == [k \in 1 .. m |-> CHOOSE i \in 1 .. m : key[o[k]] = e[i] /\ v[i] = o[k]]
<1> HIDE DEF g
<1>13. PICK h : h = g
  OBVIOUS
<1>14. /\ h \in [1 .. m -> 1 .. m]
       /\ \A k \in 1 .. m : key[o[k]] = e[h[k]] /\ v[h[k]] = o[k]
  <2>1. \A k \in 1 .. m : o[k] \in 1 .. m
    BY <1>10
  <2>2. \A k \in 1 .. m : \E i \in 1 .. m : key[o[k]] = e[i] /\ v[i] = o[k]
    BY <1>12, <2>1
  <2> QED
    BY <1>13, <2>2 DEF g
<1>15. Increasing(h, m)
  <2>1. ASSUME NEW j \in 1 .. m, NEW k \in 1 .. m, j < k PROVE h[j] < h[k]
    <3>1. h[j] \in 1 .. m /\ h[k] \in 1 .. m
      BY <1>14
    <3>2. e[h[j]] <= e[h[k]]
      <4>1. key[o[j]] <= key[o[k]]
        BY <1>10, <2>1
      <4> QED
        BY <1>14, <4>1
    <3>3. ~(h[k] < h[j])
      <4>1. e[h[j]] \in Int /\ e[h[k]] \in Int /\ (h[k] < h[j] => e[h[k]] < e[h[j]])
        BY <1>0, <3>1
      <4> QED
        BY <3>2, <4>1
    <3>4. h[j] # h[k]
      <4>1. h[j] = h[k] => o[j] = o[k]
        BY <1>14
      <4>2. o[j] # o[k]
        <5>1. j # k
          BY <2>1
        <5> QED
          BY <1>10, <5>1
      <4> QED
        BY <4>1, <4>2
    <3> QED
      BY <3>1, <3>3, <3>4
  <2> QED
    BY <1>14, <2>1 DEF Increasing
<1>16. \A k \in 1 .. m : h[k] = k
  BY <1>14, <1>15, IncreasingIsIdentity
<1>17. \A k \in 1 .. m : key[o[k]] = e[k]
  BY <1>14, <1>16
<1> QED
  BY <1>10, <1>17 DEF InOrder

-----------------------------------------------------------------------------
(* All targets of p, those it has connected to included.                   *)
T(p) == Targets(topo, N, p)

(* How many of its targets p is connected to.                              *)
Done(p) == Len(T(p)) - Len(targets[p])

File == [peer : Parties, role : {"Server", "Client"}]

(* p has filed a connection with q, in that role.                          *)
Filed(p, q, role) == \E k \in 1 .. Len(files[p]) : files[p][k] = [peer |-> q, role |-> role]

(* p's accept task has q's connection, or will have it.                    *)
Arriving(q, p) ==
    \/ \E k \in 1 .. Len(backlog[p]) : backlog[p][k] = q
    \/ reading[p] = q
    \/ Filed(p, q, "Server")

(* q has connected to p.                                                   *)
Sent(q, p) ==
    \E j \in 1 .. Len(T(q)) :
        /\ T(q)[j] = p
        /\ j <= Done(q) \/ (j = Done(q) + 1 /\ phase[q] \in {"greet", "panicked"})

(* The sets the variables are of.                                          *)
Shapes ==
    /\ topo \in DOMAIN Nets
    /\ phase \in [Parties -> {"start", "connect", "greet", "up", "panicked"}]
    /\ targets \in [Parties -> Seq(Parties)]
    /\ tries \in [Parties -> 0 .. MaxTries]
    /\ backlog \in [Parties -> Seq(Parties)]
    /\ reading \in [Parties -> Parties \cup {-1}]
    /\ left \in [Parties -> Nat]
    /\ files \in [Parties -> Seq(File)]
    /\ conns \in [Parties -> Seq(File)]

(* p still has the last of its targets to connect to.                      *)
MainOK(p) ==
    /\ Len(targets[p]) <= Len(T(p))
    /\ \A k \in 1 .. Len(targets[p]) : targets[p][k] = T(p)[Done(p) + k]
    /\ phase[p] = "greet" => targets[p] # << >>
    /\ phase[p] # "panicked" => tries[p] < MaxTries

(* It is the client of those before; it has one connection with a peer,    *)
(* and the accept task has counted its own.                                *)
FilesOK(p) ==
    /\ \A q \in Parties : Filed(p, q, "Client") => \E j \in 1 .. Done(p) : T(p)[j] = q
    /\ \A k, l \in 1 .. Len(files[p]) : files[p][k].peer = files[p][l].peer => k = l
    /\ Len(files[p]) + left[p] = Done(p) + Accepts(topo, N, p)
    /\ left[p] <= Accepts(topo, N, p)

(* What p's accept task gets is sent by a party that has p as its target;  *)
(* a connection is in one place.                                           *)
AcceptsOK(p) ==
    /\ \A q \in Parties : Arriving(q, p) => Sent(q, p)
    /\ OnceEach(backlog[p])
    /\ \A k \in 1 .. Len(backlog[p]) :
         backlog[p][k] # reading[p] /\ ~Filed(p, backlog[p][k], "Server")
    /\ reading[p] # -1 => ~Filed(p, reading[p], "Server") /\ left[p] > 0

(* What new returned is in the order of the calls.                         *)
ConnsOK(p) ==
    phase[p] = "up" =>
        /\ Len(conns[p]) = Degree(topo, N, p)
        /\ \A k \in 1 .. Degree(topo, N, p) : conns[p][k].peer = CallPeer(topo, p, k)

PartyOK(p) == MainOK(p) /\ FilesOK(p) /\ AcceptsOK(p) /\ ConnsOK(p)

(* The inductive invariant.                                                *)
IInv == Shapes /\ \A p \in Parties : PartyOK(p)

-----------------------------------------------------------------------------
(* The targets of a party are parties with lower ids.                      *)
LEMMA TargetFacts ==
    ASSUME Shapes, NEW p \in Parties
    PROVE  /\ N \in Nat /\ p \in Nat
           /\ T(p) \in Seq(Parties) /\ Len(T(p)) \in Nat /\ OnceEach(T(p))
           /\ \A j \in 1 .. Len(T(p)) :
                /\ T(p)[j] \in Parties /\ T(p)[j] < p
                /\ Calls(topo, N, p, T(p)[j]) /\ Calls(topo, N, T(p)[j], p)
           /\ Accepts(topo, N, p) \in Nat /\ Degree(topo, N, p) \in Nat
           /\ Len(T(p)) + Accepts(topo, N, p) = Degree(topo, N, p)
<1>1. topo \in DOMAIN Nets /\ N = Nets[topo] /\ p \in 0 .. Nets[topo] - 1
  BY DEF Shapes, N, Parties
<1>2. TargetsOK(topo, N, p)
  BY <1>1, TargetsRight
<1>3. N \in Nat
  BY <1>1, TopologySetupAssumption
<1>4. /\ T(p) \in Seq(0 .. N - 1) /\ OnceEach(T(p))
      /\ \A j \in 1 .. Len(T(p)) :
           T(p)[j] < p /\ Calls(topo, N, p, T(p)[j]) /\ Calls(topo, N, T(p)[j], p)
      /\ Degree(topo, N, p) \in Nat /\ Accepts(topo, N, p) \in Nat
      /\ Len(T(p)) + Accepts(topo, N, p) = Degree(topo, N, p)
  BY <1>2 DEF TargetsOK, T
<1>5. \A j \in 1 .. Len(T(p)) : T(p)[j] \in 0 .. N - 1
  <2>1. PICK t, S : t = T(p) /\ S = 0 .. N - 1
    OBVIOUS
  <2>2. t \in Seq(S)
    BY <1>4, <2>1
  <2>3. \A j \in 1 .. Len(t) : t[j] \in S
    BY <2>2
  <2> QED
    BY <2>1, <2>3
<1> QED
  BY <1>3, <1>4, <1>5 DEF Parties

(* Who connects has the lower id as its peer.                              *)
LEMMA SentIsHigher ==
    ASSUME Shapes, NEW p \in Parties, NEW q \in Parties, Sent(q, p)
    PROVE  p < q /\ Calls(topo, N, p, q)
BY TargetFacts DEF Sent

(* The topology stays.                                                     *)
LEMMA TopologyStays ==
    ASSUME topo' = topo
    PROVE  N' = N /\ Parties' = Parties /\ File' = File /\ \A p : T(p)' = T(p)
BY DEF N, Parties, File, T

(* What an action may do to q's main task.                                 *)
Moves(q) ==
    \/ /\ targets'[q] = targets[q]
       /\ phase[q] \in {"greet", "panicked"} => phase'[q] \in {"greet", "panicked"}
    \/ targets[q] # << >> /\ targets'[q] = Tail(targets[q])

(* A connection that was made stays made.                                  *)
LEMMA SentStays ==
    ASSUME Shapes, topo' = topo, NEW q \in Parties, NEW p, Sent(q, p), Moves(q)
    PROVE  Sent(q, p)'
<1>1. T(q)' = T(q)
  BY TopologyStays
<1>2. targets[q] \in Seq(Parties) /\ Len(T(q)) \in Nat
  BY TargetFacts DEF Shapes
<1>3. PICK j \in 1 .. Len(T(q)) :
         /\ T(q)[j] = p
         /\ j <= Done(q) \/ (j = Done(q) + 1 /\ phase[q] \in {"greet", "panicked"})
  BY DEF Sent
<1>4. CASE targets[q] # << >> /\ targets'[q] = Tail(targets[q])
  <2>1. Len(targets'[q]) = Len(targets[q]) - 1 /\ Len(targets[q]) \in Nat
    BY <1>2, <1>4
  <2>2. Done(q)' = Done(q) + 1
    BY <1>1, <1>2, <2>1 DEF Done
  <2>3. Done(q) \in Int
    BY <1>2 DEF Done
  <2>4. j <= Done(q)'
    BY <1>2, <1>3, <2>2, <2>3
  <2> QED
    BY <1>1, <1>3, <2>4 DEF Sent
<1>5. CASE /\ targets'[q] = targets[q]
           /\ phase[q] \in {"greet", "panicked"} => phase'[q] \in {"greet", "panicked"}
  <2>1. Done(q)' = Done(q)
    BY <1>1, <1>5 DEF Done
  <2> QED
    BY <1>1, <1>3, <1>5, <2>1 DEF Sent
<1> QED
  BY <1>4, <1>5 DEF Moves

(* A part of the invariant stays when the variables it is about do.        *)
LEMMA MainStays ==
    ASSUME NEW p, MainOK(p), topo' = topo, targets'[p] = targets[p],
           phase'[p] = phase[p], tries'[p] = tries[p]
    PROVE  MainOK(p)'
<1>1. T(p)' = T(p)
  BY TopologyStays
<1>2. Done(p)' = Done(p)
  BY <1>1 DEF Done
<1> QED
  BY <1>1, <1>2 DEF MainOK

(* The same of the connections p has.                                      *)
LEMMA FilesStay ==
    ASSUME NEW p, FilesOK(p), topo' = topo, targets'[p] = targets[p],
           files'[p] = files[p], left'[p] = left[p]
    PROVE  FilesOK(p)'
<1>1. T(p)' = T(p) /\ N' = N /\ Parties' = Parties
  BY TopologyStays
<1>2. Done(p)' = Done(p) /\ \A q : Filed(p, q, "Client")' <=> Filed(p, q, "Client")
  BY <1>1 DEF Done, Filed
<1>3. Accepts(topo, N, p)' = Accepts(topo, N, p)
  BY <1>1
<1> QED
  BY <1>1, <1>2, <1>3 DEF FilesOK

(* The same of what p's accept task gets.                                  *)
LEMMA AcceptsStay ==
    ASSUME NEW p, AcceptsOK(p), topo' = topo,
           backlog'[p] = backlog[p], reading'[p] = reading[p],
           files'[p] = files[p], left'[p] = left[p],
           \A q \in Parties : Sent(q, p) => Sent(q, p)'
    PROVE  AcceptsOK(p)'
<1>1. Parties' = Parties
  BY TopologyStays
<1>2. \A q : Filed(p, q, "Server")' <=> Filed(p, q, "Server")
  BY DEF Filed
<1>3. \A q : Arriving(q, p)' <=> Arriving(q, p)
  BY <1>2 DEF Arriving
<1>4. OnceEach(backlog[p])'
  BY DEF AcceptsOK, OnceEach
<1>5. Filed(p, reading[p], "Server")' <=> Filed(p, reading[p], "Server")
  BY DEF Filed
<1>6. \A k \in 1 .. Len(backlog[p]) :
         Filed(p, backlog[p][k], "Server")' <=> Filed(p, backlog[p][k], "Server")
  BY DEF Filed
<1> QED
  BY <1>1, <1>3, <1>4, <1>5, <1>6 DEF AcceptsOK

(* The same of what new returned.                                          *)
LEMMA ConnsStay ==
    ASSUME NEW p, ConnsOK(p), topo' = topo,
           phase'[p] = "up" => phase[p] = "up" /\ conns'[p] = conns[p]
    PROVE  ConnsOK(p)'
<1>1. N' = N
  BY TopologyStays
<1>2. Degree(topo, N, p)' = Degree(topo, N, p)
      /\ \A k : CallPeer(topo, p, k)' = CallPeer(topo, p, k)
  BY <1>1
<1> QED
  BY <1>2 DEF ConnsOK

(* One more connection.                                                    *)
LEMMA FiledNext ==
    ASSUME Shapes, NEW p \in Parties, NEW f \in File, files'[p] = Append(files[p], f)
    PROVE  \A q, role :
              Filed(p, q, role)' <=> Filed(p, q, role) \/ f = [peer |-> q, role |-> role]
<1>1. files[p] \in Seq(File)
  BY DEF Shapes
<1>2. PICK s : s = files'[p]
  OBVIOUS
<1>3. /\ Len(s) = Len(files[p]) + 1 /\ Len(files[p]) \in Nat
      /\ s[Len(files[p]) + 1] = f /\ \A k \in 1 .. Len(files[p]) : s[k] = files[p][k]
  BY <1>1, <1>2
<1>4. \A k \in 1 .. Len(s) : k \in 1 .. Len(files[p]) \/ k = Len(files[p]) + 1
  BY <1>3
<1>5. \A k \in 1 .. Len(files[p]) : k \in 1 .. Len(s)
  BY <1>3
<1>6. Len(files[p]) + 1 \in 1 .. Len(s)
  BY <1>3
<1> QED
  BY <1>2, <1>3, <1>4, <1>5, <1>6 DEF Filed

-----------------------------------------------------------------------------
(* Nothing is connected at first.                                          *)
LEMMA InitIInv == Init => IInv
<1> SUFFICES ASSUME Init PROVE IInv
  OBVIOUS
<1>1. \A p \in Parties : /\ phase[p] = "start" /\ targets[p] = T(p) /\ tries[p] = 0
                         /\ backlog[p] = << >> /\ reading[p] = -1
                         /\ left[p] = Accepts(topo, N, p)
                         /\ files[p] = << >> /\ conns[p] = << >>
  BY DEF Init, T
<1>2. topo \in DOMAIN Nets
  BY DEF Init
<1>3. \A p \in Parties : T(p) \in Seq(Parties) /\ Accepts(topo, N, p) \in Nat
  <2>1. ASSUME NEW p \in Parties PROVE T(p) \in Seq(Parties) /\ Accepts(topo, N, p) \in Nat
    <3>1. N = Nets[topo] /\ p \in 0 .. Nets[topo] - 1
      BY DEF N, Parties
    <3>2. TargetsOK(topo, N, p)
      BY <1>2, <3>1, TargetsRight
    <3> QED
      BY <3>2 DEF TargetsOK, T, Parties
  <2> QED
    BY <2>1
<1>4. Shapes
  <2>1. /\ phase = [p \in Parties |-> "start"] /\ targets = [p \in Parties |-> T(p)]
        /\ tries = [p \in Parties |-> 0] /\ backlog = [p \in Parties |-> << >>]
        /\ reading = [p \in Parties |-> -1]
        /\ left = [p \in Parties |-> Accepts(topo, N, p)]
        /\ files = [p \in Parties |-> << >>] /\ conns = [p \in Parties |-> << >>]
    BY DEF Init, T
  <2>2. 0 \in 0 .. MaxTries
    BY TopologySetupAssumption
  <2> QED
    BY <1>2, <1>3, <2>1, <2>2 DEF Shapes
<1>5. ASSUME NEW p \in Parties PROVE PartyOK(p)
  <2>1. Done(p) = 0 /\ Len(T(p)) \in Nat
    BY <1>1, <1>3 DEF Done
  <2>2. MainOK(p)
    BY <1>1, <2>1, TopologySetupAssumption DEF MainOK
  <2>3. \A q, role : ~Filed(p, q, role)
    BY <1>1 DEF Filed
  <2>4. FilesOK(p)
    BY <1>1, <1>3, <2>1, <2>3 DEF FilesOK
  <2>5. \A q \in Parties : ~Arriving(q, p)
    <3>1. \A q \in Parties : q # -1
      BY DEF Parties
    <3> QED
      BY <1>1, <2>3, <3>1 DEF Arriving
  <2>6. AcceptsOK(p)
    BY <1>1, <2>3, <2>5 DEF AcceptsOK, OnceEach
  <2>7. ConnsOK(p)
    BY <1>1 DEF ConnsOK
  <2> QED
    BY <2>2, <2>4, <2>6, <2>7 DEF PartyOK
<1> QED
  BY <1>4, <1>5 DEF IInv

(* The next target of a main task that is not through.                     *)
LEMMA HeadTarget ==
    ASSUME Shapes, NEW p \in Parties, MainOK(p), targets[p] # << >>
    PROVE  /\ Head(targets[p]) \in Parties /\ Head(targets[p]) = T(p)[Done(p) + 1]
           /\ Done(p) \in Nat /\ Done(p) + 1 \in 1 .. Len(T(p))
           /\ \A j \in 1 .. Len(T(p)) : T(p)[j] = Head(targets[p]) => j = Done(p) + 1
<1>1. targets[p] \in Seq(Parties) /\ Len(T(p)) \in Nat
  BY TargetFacts DEF Shapes
<1>2. Head(targets[p]) \in Parties /\ Head(targets[p]) = targets[p][1] /\ Len(targets[p]) \in Nat \ {0}
  BY <1>1
<1>3. Len(targets[p]) <= Len(T(p))
  BY DEF MainOK
<1>4. Done(p) \in Nat /\ Done(p) + 1 \in 1 .. Len(T(p))
  BY <1>1, <1>2, <1>3 DEF Done
<1>5. targets[p][1] = T(p)[Done(p) + 1]
  BY <1>2 DEF MainOK
<1>6. OnceEach(T(p))
  BY TargetFacts
<1> QED
  BY <1>2, <1>4, <1>5, <1>6 DEF OnceEach

(* The listener is bound.                                                  *)
LEMMA BindStep ==
    ASSUME IInv, NEW p \in Parties, Bind(p)
    PROVE  IInv'
<1>1. /\ Shapes /\ topo' = topo /\ targets' = targets /\ tries' = tries
      /\ backlog' = backlog /\ reading' = reading /\ left' = left /\ files' = files
      /\ conns' = conns /\ phase[p] = "start" /\ phase' = [phase EXCEPT ![p] = "connect"]
  BY DEF IInv, Bind
<1>2. Parties' = Parties /\ File' = File
  BY <1>1, TopologyStays
<1>3. Shapes'
  BY <1>1, <1>2 DEF Shapes
<1>4. phase'[p] = "connect" /\ \A r \in Parties : r # p => phase'[r] = phase[r]
  BY <1>1 DEF Shapes
<1>5. \A q \in Parties : Moves(q)
  BY <1>1, <1>4 DEF Moves
<1>6. ASSUME NEW r \in Parties PROVE PartyOK(r)'
  <2>1. MainOK(r) /\ FilesOK(r) /\ AcceptsOK(r) /\ ConnsOK(r)
    BY DEF IInv, PartyOK
  <2>2. MainOK(r)'
    <3>1. CASE r = p
      <4>1. T(p)' = T(p) /\ Done(p)' = Done(p)
        BY <1>1, TopologyStays DEF Done
      <4> QED
        BY <1>1, <1>4, <2>1, <3>1, <4>1 DEF MainOK
    <3>2. CASE r # p
      BY <1>1, <1>4, <2>1, <3>2, MainStays
    <3> QED
      BY <3>1, <3>2
  <2>3. FilesOK(r)'
    BY <1>1, <2>1, FilesStay
  <2>4. AcceptsOK(r)'
    <3>1. \A q \in Parties : Sent(q, r) => Sent(q, r)'
      BY <1>1, <1>5, SentStays
    <3> QED
      BY <1>1, <2>1, <3>1, AcceptsStay
  <2>5. ConnsOK(r)'
    BY <1>1, <1>4, <2>1, ConnsStay
  <2> QED
    BY <2>2, <2>3, <2>4, <2>5 DEF PartyOK
<1> QED
  BY <1>2, <1>3, <1>6 DEF IInv

(* A connection is made: it was not there before, for its client has only  *)
(* now come to this target.                                                *)
LEMMA ConnectStep ==
    ASSUME IInv, NEW p \in Parties, Connect(p)
    PROVE  IInv'
<1>1. PICK q : q = Head(targets[p])
  OBVIOUS
<1>2. /\ Shapes /\ topo' = topo /\ targets' = targets /\ tries' = tries
      /\ backlog' = [backlog EXCEPT ![q] = Append(@, p)]
      /\ reading' = reading /\ left' = left /\ files' = files /\ conns' = conns
      /\ phase[p] = "connect" /\ targets[p] # << >>
      /\ phase' = [phase EXCEPT ![p] = "greet"]
  BY <1>1 DEF IInv, Connect, Connecting
<1>3. MainOK(p)
  BY DEF IInv, PartyOK
<1>4. /\ q \in Parties /\ q = T(p)[Done(p) + 1] /\ Done(p) \in Nat
      /\ Done(p) + 1 \in 1 .. Len(T(p))
      /\ \A j \in 1 .. Len(T(p)) : T(p)[j] = q => j = Done(p) + 1
  BY <1>1, <1>2, <1>3, HeadTarget
<1>5. Parties' = Parties /\ File' = File /\ T(p)' = T(p) /\ Done(p)' = Done(p)
  BY <1>2, TopologyStays DEF Done
<1>6. phase'[p] = "greet" /\ \A r \in Parties : r # p => phase'[r] = phase[r]
  BY <1>2 DEF Shapes
<1>7. backlog'[q] = Append(backlog[q], p) /\ \A r \in Parties : r # q => backlog'[r] = backlog[r]
  BY <1>2, <1>4 DEF Shapes
<1>8. backlog[q] \in Seq(Parties) /\ Append(backlog[q], p) \in Seq(Parties)
  <2>1. PICK S : S = Parties
    OBVIOUS
  <2>2. backlog[q] \in Seq(S) /\ p \in S
    BY <1>2, <1>4, <2>1 DEF Shapes
  <2>3. Append(backlog[q], p) \in Seq(S)
    BY <2>2
  <2> QED
    BY <2>1, <2>2, <2>3
<1>9. Shapes'
  BY <1>2, <1>4, <1>5, <1>8 DEF Shapes
<1>10. \A x \in Parties : Moves(x)
  BY <1>2, <1>6 DEF Moves
<1>11. \A x, r \in Parties : Sent(x, r) => Sent(x, r)'
  BY <1>2, <1>10, SentStays
<1>12. ~Arriving(p, q)
  <2>1. ~Sent(p, q)
    BY <1>2, <1>4 DEF Sent
  <2> QED
    BY <1>4, <2>1 DEF IInv, PartyOK, AcceptsOK
<1>13. Sent(p, q)'
  BY <1>4, <1>5, <1>6 DEF Sent
<1>14. AcceptsOK(q)'
  <2>1. AcceptsOK(q)
    BY <1>4 DEF IInv, PartyOK
  <2>2. PICK b : b = backlog'[q]
    OBVIOUS
  <2>3. /\ Len(b) = Len(backlog[q]) + 1 /\ Len(backlog[q]) \in Nat
        /\ b[Len(backlog[q]) + 1] = p
        /\ \A k \in 1 .. Len(backlog[q]) : b[k] = backlog[q][k]
    BY <1>7, <1>8, <2>2
  <2>4. \A k \in 1 .. Len(b) : k \in 1 .. Len(backlog[q]) \/ k = Len(backlog[q]) + 1
    BY <2>3
  <2>5. \A x, role : Filed(q, x, role)' <=> Filed(q, x, role)
    BY <1>2 DEF Filed
  <2>6. \A k \in 1 .. Len(backlog[q]) : backlog[q][k] # p
    BY <1>12 DEF Arriving
  <2>7. reading[q] # p /\ ~Filed(q, p, "Server")
    BY <1>12 DEF Arriving
  <2>8. \A x \in Parties : Arriving(x, q)' => Sent(x, q)'
    <3>1. ASSUME NEW x \in Parties, Arriving(x, q)' PROVE Arriving(x, q) \/ x = p
      BY <1>2, <2>2, <2>3, <2>4, <2>5, <3>1 DEF Arriving
    <3> QED
      BY <1>4, <1>11, <1>13, <2>1, <3>1 DEF AcceptsOK
  <2>9. OnceEach(b)
    <3>1. ASSUME NEW i \in 1 .. Len(b), NEW j \in 1 .. Len(b), b[i] = b[j] PROVE i = j
      BY <2>1, <2>3, <2>4, <2>6, <3>1 DEF AcceptsOK, OnceEach
    <3> QED
      BY <3>1 DEF OnceEach
  <2>10. \A k \in 1 .. Len(b) : b[k] # reading[q] /\ ~Filed(q, b[k], "Server")
    BY <2>1, <2>3, <2>4, <2>7 DEF AcceptsOK
  <2>11. OnceEach(backlog[q])'
    BY <2>2, <2>9 DEF OnceEach
  <2>12. \A k \in 1 .. Len(b) : b[k] # reading'[q] /\ ~Filed(q, b[k], "Server")'
    BY <1>2, <2>5, <2>10
  <2>13. reading'[q] # -1 => ~Filed(q, reading[q], "Server")' /\ left'[q] > 0
    BY <1>2, <2>1, <2>5 DEF AcceptsOK
  <2>14. \A k \in 1 .. Len(backlog'[q]) : ~Filed(q, backlog[q][k], "Server")'
    BY <2>2, <2>12 DEF Filed
  <2>15. Filed(q, reading[q], "Server")' <=> Filed(q, reading[q], "Server")
    BY <1>2 DEF Filed
  <2> QED
    BY <1>2, <1>5, <2>1, <2>2, <2>8, <2>11, <2>12, <2>14, <2>15 DEF AcceptsOK
<1>15. ASSUME NEW r \in Parties PROVE PartyOK(r)'
  <2>1. MainOK(r) /\ FilesOK(r) /\ AcceptsOK(r) /\ ConnsOK(r)
    BY DEF IInv, PartyOK
  <2>2. MainOK(r)'
    <3>1. CASE r = p
      BY <1>2, <1>5, <1>6, <2>1, <3>1 DEF MainOK
    <3>2. CASE r # p
      BY <1>2, <1>6, <2>1, <3>2, MainStays
    <3> QED
      BY <3>1, <3>2
  <2>3. FilesOK(r)'
    BY <1>2, <2>1, FilesStay
  <2>4. AcceptsOK(r)'
    <3>1. CASE r = q
      BY <1>14, <3>1
    <3>2. CASE r # q
      BY <1>2, <1>7, <1>11, <2>1, <3>2, AcceptsStay
    <3> QED
      BY <3>1, <3>2
  <2>5. ConnsOK(r)'
    BY <1>2, <1>6, <2>1, ConnsStay
  <2> QED
    BY <2>2, <2>3, <2>4, <2>5 DEF PartyOK
<1> QED
  BY <1>5, <1>9, <1>15 DEF IInv

(* An attempt fails, and the last one ends the process.                    *)
LEMMA RefusedStep ==
    ASSUME IInv, NEW p \in Parties, Refused(p)
    PROVE  IInv'
<1>1. /\ Shapes /\ topo' = topo /\ targets' = targets /\ backlog' = backlog
      /\ reading' = reading /\ left' = left /\ files' = files /\ conns' = conns
      /\ phase[p] = "connect" /\ tries' = [tries EXCEPT ![p] = @ + 1]
      /\ phase' = [phase EXCEPT ![p] = IF tries[p] + 1 = MaxTries THEN "panicked" ELSE @]
  BY DEF IInv, Refused, Connecting
<1>2. Parties' = Parties /\ File' = File /\ T(p)' = T(p) /\ Done(p)' = Done(p)
  BY <1>1, TopologyStays DEF Done
<1>3. /\ phase'[p] = IF tries[p] + 1 = MaxTries THEN "panicked" ELSE "connect"
      /\ tries'[p] = tries[p] + 1
      /\ \A r \in Parties : r # p => phase'[r] = phase[r] /\ tries'[r] = tries[r]
  BY <1>1 DEF Shapes
<1>4. MainOK(p) /\ tries[p] \in 0 .. MaxTries /\ MaxTries \in Nat
  BY <1>1, TopologySetupAssumption DEF IInv, PartyOK, Shapes
<1>5. tries[p] + 1 \in 0 .. MaxTries /\ (phase'[p] # "panicked" => tries[p] + 1 < MaxTries)
  BY <1>1, <1>3, <1>4 DEF MainOK
<1>6. Shapes'
  BY <1>1, <1>2, <1>5 DEF Shapes
<1>7. \A q \in Parties : Moves(q)
  BY <1>1, <1>3 DEF Moves
<1>8. ASSUME NEW r \in Parties PROVE PartyOK(r)'
  <2>1. MainOK(r) /\ FilesOK(r) /\ AcceptsOK(r) /\ ConnsOK(r)
    BY DEF IInv, PartyOK
  <2>2. MainOK(r)'
    <3>1. CASE r = p
      BY <1>1, <1>2, <1>3, <1>5, <2>1, <3>1 DEF MainOK
    <3>2. CASE r # p
      BY <1>1, <1>3, <2>1, <3>2, MainStays
    <3> QED
      BY <3>1, <3>2
  <2>3. FilesOK(r)'
    BY <1>1, <2>1, FilesStay
  <2>4. AcceptsOK(r)'
    <3>1. \A q \in Parties : Sent(q, r) => Sent(q, r)'
      BY <1>1, <1>7, SentStays
    <3> QED
      BY <1>1, <2>1, <3>1, AcceptsStay
  <2>5. ConnsOK(r)'
    BY <1>1, <1>3, <2>1, ConnsStay
  <2> QED
    BY <2>2, <2>3, <2>4, <2>5 DEF PartyOK
<1> QED
  BY <1>2, <1>6, <1>8 DEF IInv

(* The peer is gone, and p's process ends.                                 *)
LEMMA GreetFailsStep ==
    ASSUME IInv, NEW p \in Parties, GreetFails(p)
    PROVE  IInv'
<1>1. /\ Shapes /\ topo' = topo /\ targets' = targets /\ tries' = tries
      /\ backlog' = backlog /\ reading' = reading /\ left' = left /\ files' = files
      /\ conns' = conns /\ phase[p] = "greet" /\ phase' = [phase EXCEPT ![p] = "panicked"]
  BY DEF IInv, GreetFails
<1>2. Parties' = Parties /\ File' = File /\ T(p)' = T(p) /\ Done(p)' = Done(p)
  BY <1>1, TopologyStays DEF Done
<1>3. Shapes'
  BY <1>1, <1>2 DEF Shapes
<1>4. phase'[p] = "panicked" /\ \A r \in Parties : r # p => phase'[r] = phase[r]
  BY <1>1 DEF Shapes
<1>5. \A q \in Parties : Moves(q)
  BY <1>1, <1>4 DEF Moves
<1>6. ASSUME NEW r \in Parties PROVE PartyOK(r)'
  <2>1. MainOK(r) /\ FilesOK(r) /\ AcceptsOK(r) /\ ConnsOK(r)
    BY DEF IInv, PartyOK
  <2>2. MainOK(r)'
    <3>1. CASE r = p
      BY <1>1, <1>2, <1>4, <2>1, <3>1 DEF MainOK
    <3>2. CASE r # p
      BY <1>1, <1>4, <2>1, <3>2, MainStays
    <3> QED
      BY <3>1, <3>2
  <2>3. FilesOK(r)'
    BY <1>1, <2>1, FilesStay
  <2>4. AcceptsOK(r)'
    <3>1. \A q \in Parties : Sent(q, r) => Sent(q, r)'
      BY <1>1, <1>5, SentStays
    <3> QED
      BY <1>1, <2>1, <3>1, AcceptsStay
  <2>5. ConnsOK(r)'
    BY <1>1, <1>4, <2>1, ConnsStay
  <2> QED
    BY <2>2, <2>3, <2>4, <2>5 DEF PartyOK
<1> QED
  BY <1>2, <1>3, <1>6 DEF IInv

(* The connections in s, as files[p] holds them.                           *)
PeersDiffer(s) == \A k, l \in 1 .. Len(s) : s[k].peer = s[l].peer => k = l

HasPeer(s, q) == \E k \in 1 .. Len(s) : s[k].peer = q

(* A connection with a new peer.                                           *)
LEMMA FilesOnce ==
    ASSUME NEW F, NEW s \in Seq(F), NEW f \in F, NEW r, r = Append(s, f),
           PeersDiffer(s), ~HasPeer(s, f.peer)
    PROVE  r \in Seq(F) /\ Len(r) = Len(s) + 1 /\ PeersDiffer(r)
<1>1. /\ r \in Seq(F) /\ Len(r) = Len(s) + 1 /\ Len(s) \in Nat
      /\ r[Len(s) + 1] = f /\ \A k \in 1 .. Len(s) : r[k] = s[k]
  OBVIOUS
<1>2. ASSUME NEW k \in 1 .. Len(r), NEW l \in 1 .. Len(r), r[k].peer = r[l].peer
      PROVE  k = l
  <2>1. /\ k \in 1 .. Len(s) \/ k = Len(s) + 1
        /\ l \in 1 .. Len(s) \/ l = Len(s) + 1
    BY <1>1
  <2> QED
    BY <1>1, <1>2, <2>1 DEF PeersDiffer, HasPeer
<1> QED
  BY <1>1, <1>2 DEF PeersDiffer

(* A file is one of the two kinds.                                         *)
LEMMA FileKinds ==
    ASSUME Shapes, NEW p \in Parties, NEW k \in 1 .. Len(files[p])
    PROVE  /\ files[p][k].peer \in Parties
           /\ \/ Filed(p, files[p][k].peer, "Client")
              \/ Filed(p, files[p][k].peer, "Server")
<1>1. files[p] \in Seq(File)
  BY DEF Shapes
<1>2. files[p][k] \in File
  BY <1>1
<1>3. PICK f \in File : f = files[p][k]
  BY <1>2
<1>4. /\ f.peer \in Parties /\ f.role \in {"Server", "Client"}
      /\ f = [peer |-> f.peer, role |-> f.role]
  BY DEF File
<1> QED
  BY <1>3, <1>4 DEF Filed

(* The id goes out.  The peer is new: a client before would have been an   *)
(* earlier target, and a server has a higher id.                           *)
LEMMA GreetStep ==
    ASSUME IInv, NEW p \in Parties, Greet(p)
    PROVE  IInv'
<1>1. PICK q : q = Head(targets[p])
  OBVIOUS
<1>2. PICK f : f = [peer |-> q, role |-> "Client"]
  OBVIOUS
<1>3. /\ Shapes /\ topo' = topo /\ phase[p] = "greet"
      /\ phase' = [phase EXCEPT ![p] = "connect"]
      /\ targets' = [targets EXCEPT ![p] = Tail(@)]
      /\ tries' = [tries EXCEPT ![p] = 0] /\ files' = [files EXCEPT ![p] = Append(@, f)]
      /\ backlog' = backlog /\ reading' = reading /\ left' = left /\ conns' = conns
  BY <1>1, <1>2 DEF IInv, Greet
<1>4. MainOK(p) /\ FilesOK(p) /\ AcceptsOK(p) /\ targets[p] # << >>
  BY <1>3 DEF IInv, PartyOK, MainOK
<1>5. /\ q \in Parties /\ q = T(p)[Done(p) + 1] /\ Done(p) \in Nat
      /\ Done(p) + 1 \in 1 .. Len(T(p))
      /\ \A j \in 1 .. Len(T(p)) : T(p)[j] = q => j = Done(p) + 1
  BY <1>1, <1>3, <1>4, HeadTarget
<1>6. f \in File /\ f.peer = q
  BY <1>2, <1>5 DEF File
<1>7. Parties' = Parties /\ File' = File /\ T(p)' = T(p) /\ N' = N
  BY <1>3, TopologyStays
<1>8. /\ phase'[p] = "connect" /\ targets'[p] = Tail(targets[p]) /\ tries'[p] = 0
      /\ files'[p] = Append(files[p], f)
      /\ \A r \in Parties : r # p => /\ phase'[r] = phase[r] /\ targets'[r] = targets[r]
                                     /\ tries'[r] = tries[r] /\ files'[r] = files[r]
  BY <1>3 DEF Shapes
<1>9. PICK t : t = Tail(targets[p])
  OBVIOUS
<1>10. /\ t \in Seq(Parties) /\ Len(t) = Len(targets[p]) - 1 /\ Len(targets[p]) \in Nat
       /\ Len(T(p)) \in Nat /\ \A k \in 1 .. Len(t) : t[k] = targets[p][k + 1]
  <2>1. PICK S : S = Parties
    OBVIOUS
  <2>2. targets[p] \in Seq(S)
    BY <1>3, <2>1 DEF Shapes
  <2>3. /\ t \in Seq(S) /\ Len(t) = Len(targets[p]) - 1 /\ Len(targets[p]) \in Nat
        /\ \A k \in 1 .. Len(t) : t[k] = targets[p][k + 1]
    BY <1>4, <1>9, <2>2
  <2> QED
    BY <1>3, <2>1, <2>3, TargetFacts
<1>11. Done(p)' = Done(p) + 1
  <2>1. targets'[p] = t
    BY <1>8, <1>9
  <2>2. Done(p)' = Len(T(p)) - Len(t)
    BY <1>7, <2>1 DEF Done
  <2>3. PICK a, b, c : a = Len(T(p)) /\ b = Len(targets[p]) /\ c = Len(t)
    OBVIOUS
  <2>4. a \in Nat /\ b \in Nat /\ c = b - 1
    BY <1>10, <2>3
  <2>5. a - c = (a - b) + 1
    BY <2>4
  <2> QED
    BY <2>2, <2>3, <2>5 DEF Done
<1>12. \A k \in 1 .. Len(files[p]) : files[p][k].peer # q
  <2>1. ASSUME NEW k \in 1 .. Len(files[p]), files[p][k].peer = q PROVE FALSE
    <3>1. CASE Filed(p, q, "Client")
      <4>1. PICK j \in 1 .. Done(p) : T(p)[j] = q
        BY <1>4, <1>5, <3>1 DEF FilesOK
      <4> QED
        BY <1>5, <4>1
    <3>2. CASE Filed(p, q, "Server")
      <4>1. Sent(q, p)
        BY <1>4, <1>5, <3>2 DEF AcceptsOK, Arriving
      <4>2. p < q
        BY <1>3, <1>5, <4>1, SentIsHigher
      <4>3. q < p /\ p \in Nat /\ q \in Nat
        BY <1>3, <1>5, TargetFacts
      <4> QED
        BY <4>2, <4>3
    <3> QED
      BY <1>3, <2>1, <3>1, <3>2, FileKinds
  <2> QED
    BY <2>1
<1>13. PICK s : s = files'[p]
  OBVIOUS
<1>14. /\ s \in Seq(File) /\ Len(s) = Len(files[p]) + 1
       /\ \A k, l \in 1 .. Len(s) : s[k].peer = s[l].peer => k = l
  <2>1. files[p] \in Seq(File)
    BY <1>3 DEF Shapes
  <2>2. PICK F, g : F = File /\ g = files[p]
    OBVIOUS
  <2>3. g \in Seq(F) /\ f \in F /\ s = Append(g, f)
    BY <1>6, <1>8, <1>13, <2>1, <2>2
  <2>4. PeersDiffer(g)
    BY <1>4, <2>2 DEF FilesOK, PeersDiffer
  <2>5. ~HasPeer(g, f.peer)
    BY <1>6, <1>12, <2>2 DEF HasPeer
  <2>6. s \in Seq(F) /\ Len(s) = Len(g) + 1 /\ PeersDiffer(s)
    BY <2>3, <2>4, <2>5, FilesOnce
  <2> QED
    BY <2>2, <2>6 DEF PeersDiffer
<1>15. \A x, role : Filed(p, x, role)' <=> Filed(p, x, role) \/ f = [peer |-> x, role |-> role]
  BY <1>3, <1>6, <1>8, FiledNext
<1>16. Shapes'
  <2>1. targets' \in [Parties -> Seq(Parties)]
    BY <1>3, <1>9, <1>10 DEF Shapes
  <2>2. files' \in [Parties -> Seq(File)]
    BY <1>3, <1>8, <1>13, <1>14 DEF Shapes
  <2>3. 0 \in 0 .. MaxTries
    BY TopologySetupAssumption
  <2> QED
    BY <1>3, <1>7, <2>1, <2>2, <2>3 DEF Shapes
<1>17. \A x \in Parties : Moves(x)
  BY <1>3, <1>4, <1>8 DEF Moves
<1>18. \A x, r \in Parties : Sent(x, r) => Sent(x, r)'
  BY <1>3, <1>17, SentStays
<1>19. MainOK(p)'
  <2>1. ASSUME NEW k \in 1 .. Len(t) PROVE t[k] = T(p)[Done(p) + 1 + k]
    <3>1. k + 1 \in 1 .. Len(targets[p]) /\ Done(p) + (k + 1) = Done(p) + 1 + k
      <4>1. PICK d, m, c : d = Done(p) /\ m = Len(targets[p]) /\ c = Len(t)
        OBVIOUS
      <4>2. d \in Nat /\ m \in Nat /\ c = m - 1 /\ k \in 1 .. c
        BY <1>5, <1>10, <4>1
      <4>3. k + 1 \in 1 .. m /\ d + (k + 1) = d + 1 + k
        BY <4>2
      <4> QED
        BY <4>1, <4>3
    <3>2. targets[p][k + 1] = T(p)[Done(p) + (k + 1)]
      BY <1>4, <3>1 DEF MainOK
    <3> QED
      BY <1>10, <3>1, <3>2
  <2>2. Len(t) <= Len(T(p))
    BY <1>4, <1>10 DEF MainOK
  <2>3. 0 < MaxTries
    BY TopologySetupAssumption
  <2> QED
    BY <1>7, <1>8, <1>9, <1>11, <2>1, <2>2, <2>3 DEF MainOK
<1>20. FilesOK(p)'
  <2>1. ASSUME NEW x \in Parties, Filed(p, x, "Client")'
        PROVE  \E j \in 1 .. Done(p) + 1 : T(p)[j] = x
    <3>1. CASE Filed(p, x, "Client")
      <4>1. PICK j \in 1 .. Done(p) : T(p)[j] = x
        BY <1>4, <3>1 DEF FilesOK
      <4>2. j \in 1 .. Done(p) + 1
        BY <1>5
      <4> QED
        BY <4>1, <4>2
    <3>2. CASE f = [peer |-> x, role |-> "Client"]
      <4>1. x = q
        BY <1>6, <3>2
      <4>2. Done(p) + 1 \in 1 .. Done(p) + 1
        BY <1>5
      <4> QED
        BY <1>5, <4>1, <4>2
    <3> QED
      BY <1>15, <2>1, <3>1, <3>2
  <2>2. Len(s) + left[p] = (Done(p) + 1) + Accepts(topo, N, p)
    <3>1. Len(files[p]) + left[p] = Done(p) + Accepts(topo, N, p)
      BY <1>4 DEF FilesOK
    <3>2. left[p] \in Nat /\ Accepts(topo, N, p) \in Nat /\ Len(files[p]) \in Nat
      BY <1>3, TargetFacts DEF Shapes
    <3>3. PICK a, b, c, d, e : /\ a = Len(files[p]) /\ b = left[p] /\ c = Done(p)
                               /\ d = Accepts(topo, N, p) /\ e = Len(s)
      OBVIOUS
    <3>4. /\ a \in Nat /\ b \in Nat /\ c \in Nat /\ d \in Nat /\ e = a + 1
          /\ a + b = c + d
      BY <1>5, <1>14, <3>1, <3>2, <3>3
    <3>5. e + b = (c + 1) + d
      BY <3>4
    <3> QED
      BY <3>3, <3>5
  <2>3. Accepts(topo, N, p)' = Accepts(topo, N, p)
    BY <1>3, <1>7
  <2>4. left[p] <= Accepts(topo, N, p)
    BY <1>4 DEF FilesOK
  <2> QED
    BY <1>3, <1>7, <1>11, <1>13, <1>14, <2>1, <2>2, <2>3, <2>4 DEF FilesOK
<1>21. AcceptsOK(p)'
  <2>1. \A x : Filed(p, x, "Server")' <=> Filed(p, x, "Server")
    <3>1. \A x : f # [peer |-> x, role |-> "Server"]
      BY <1>2
    <3> QED
      BY <1>15, <3>1
  <2>2. \A x : Arriving(x, p)' <=> Arriving(x, p)
    BY <1>3, <2>1 DEF Arriving
  <2>3. OnceEach(backlog[p])'
    BY <1>3, <1>4 DEF AcceptsOK, OnceEach
  <2>4. PICK b, y : b = backlog[p] /\ y = reading[p]
    OBVIOUS
  <2>5. (\A k \in 1 .. Len(b) : ~Filed(p, b[k], "Server")') /\ (y # -1 => ~Filed(p, y, "Server")')
    BY <1>4, <2>1, <2>4 DEF AcceptsOK
  <2>6. (\A k \in 1 .. Len(b) : b[k] # y) /\ (y # -1 => left[p] > 0)
    BY <1>4, <2>4 DEF AcceptsOK
  <2>7. \A k \in 1 .. Len(b) : Filed(p, backlog[p][k], "Server")' <=> Filed(p, b[k], "Server")'
    BY <1>3, <2>4 DEF Filed
  <2>8. Filed(p, reading[p], "Server")' <=> Filed(p, y, "Server")'
    BY <1>3, <2>4 DEF Filed
  <2> QED
    BY <1>3, <1>4, <1>7, <1>18, <2>2, <2>3, <2>4, <2>5, <2>6, <2>7, <2>8 DEF AcceptsOK
<1>22. ASSUME NEW r \in Parties PROVE PartyOK(r)'
  <2>1. MainOK(r) /\ FilesOK(r) /\ AcceptsOK(r) /\ ConnsOK(r)
    BY DEF IInv, PartyOK
  <2>2. ConnsOK(r)'
    BY <1>3, <1>8, <2>1, ConnsStay
  <2>3. CASE r = p
    BY <1>19, <1>20, <1>21, <2>2, <2>3 DEF PartyOK
  <2>4. CASE r # p
    <3>1. MainOK(r)'
      BY <1>3, <1>8, <2>1, <2>4, MainStays
    <3>2. FilesOK(r)'
      BY <1>3, <1>8, <2>1, <2>4, FilesStay
    <3>3. AcceptsOK(r)'
      BY <1>3, <1>8, <1>18, <2>1, <2>4, AcceptsStay
    <3> QED
      BY <2>2, <3>1, <3>2, <3>3 DEF PartyOK
  <2> QED
    BY <2>3, <2>4
<1> QED
  BY <1>7, <1>16, <1>22 DEF IInv

(* The accept task takes the first connection there is.                    *)
LEMMA AcceptStep ==
    ASSUME IInv, NEW p \in Parties, Accept(p)
    PROVE  IInv'
<1>1. PICK x, t : x = Head(backlog[p]) /\ t = Tail(backlog[p])
  OBVIOUS
<1>2. /\ Shapes /\ topo' = topo /\ phase' = phase /\ targets' = targets /\ tries' = tries
      /\ left' = left /\ files' = files /\ conns' = conns
      /\ left[p] > 0 /\ reading[p] = -1 /\ backlog[p] # << >>
      /\ reading' = [reading EXCEPT ![p] = x] /\ backlog' = [backlog EXCEPT ![p] = t]
  BY <1>1 DEF IInv, Accept, Listening
<1>3. AcceptsOK(p)
  BY DEF IInv, PartyOK
<1>4. /\ x \in Parties /\ t \in Seq(Parties) /\ x = backlog[p][1]
      /\ Len(backlog[p]) \in Nat \ {0} /\ Len(t) = Len(backlog[p]) - 1
      /\ \A k \in 1 .. Len(t) : t[k] = backlog[p][k + 1]
  <2>1. PICK S : S = Parties
    OBVIOUS
  <2>2. backlog[p] \in Seq(S)
    BY <1>2, <2>1 DEF Shapes
  <2>3. /\ x \in S /\ t \in Seq(S) /\ x = backlog[p][1]
        /\ Len(backlog[p]) \in Nat \ {0} /\ Len(t) = Len(backlog[p]) - 1
        /\ \A k \in 1 .. Len(t) : t[k] = backlog[p][k + 1]
    BY <1>1, <1>2, <2>2
  <2> QED
    BY <2>1, <2>3
<1>5. Parties' = Parties /\ File' = File
  BY <1>2, TopologyStays
<1>6. /\ reading'[p] = x /\ backlog'[p] = t
      /\ \A r \in Parties : r # p => reading'[r] = reading[r] /\ backlog'[r] = backlog[r]
  BY <1>2 DEF Shapes
<1>7. Shapes'
  BY <1>2, <1>4, <1>5 DEF Shapes
<1>8. \A q \in Parties : Moves(q)
  BY <1>2 DEF Moves
<1>9. \A q, r \in Parties : Sent(q, r) => Sent(q, r)'
  BY <1>2, <1>8, SentStays
<1>10. \A k \in 1 .. Len(t) : k + 1 \in 1 .. Len(backlog[p]) /\ k + 1 # 1
  <2>1. PICK a, b : a = Len(t) /\ b = Len(backlog[p])
    OBVIOUS
  <2>2. b \in Nat /\ a = b - 1
    BY <1>4, <2>1
  <2>3. \A k \in 1 .. a : k + 1 \in 1 .. b /\ k + 1 # 1
    BY <2>2
  <2> QED
    BY <2>1, <2>3
<1>11. 1 \in 1 .. Len(backlog[p])
  BY <1>4
<1>12. AcceptsOK(p)'
  <2>1. \A y, role : Filed(p, y, role)' <=> Filed(p, y, role)
    BY <1>2 DEF Filed
  <2>2. ASSUME NEW y \in Parties, Arriving(y, p)' PROVE Arriving(y, p)
    <3>1. CASE \E k \in 1 .. Len(t) : t[k] = y
      BY <1>4, <1>10, <3>1 DEF Arriving
    <3>2. CASE x = y
      BY <1>4, <1>11, <3>2 DEF Arriving
    <3>3. CASE Filed(p, y, "Server")
      BY <3>3 DEF Arriving
    <3> QED
      BY <1>6, <2>1, <2>2, <3>1, <3>2, <3>3 DEF Arriving
  <2>3. \A i, j \in 1 .. Len(backlog[p]) : backlog[p][i] = backlog[p][j] => i = j
    BY <1>3 DEF AcceptsOK, OnceEach
  <2>4. ASSUME NEW i \in 1 .. Len(t), NEW j \in 1 .. Len(t), t[i] = t[j] PROVE i = j
    <3>1. i + 1 = j + 1
      BY <1>4, <1>10, <2>3, <2>4
    <3> QED
      BY <3>1
  <2>5. \A k \in 1 .. Len(t) : t[k] # x /\ ~Filed(p, t[k], "Server")
    <3>1. ASSUME NEW k \in 1 .. Len(t) PROVE t[k] # x /\ ~Filed(p, t[k], "Server")
      <4>1. k + 1 \in 1 .. Len(backlog[p]) /\ k + 1 # 1 /\ t[k] = backlog[p][k + 1]
        BY <1>4, <1>10
      <4>2. t[k] # x
        BY <1>4, <1>11, <2>3, <4>1
      <4> QED
        BY <1>3, <4>1, <4>2 DEF AcceptsOK
    <3> QED
      BY <3>1
  <2>6. ~Filed(p, x, "Server")
    BY <1>3, <1>4, <1>11 DEF AcceptsOK
  <2>7. OnceEach(backlog[p])'
    BY <1>6, <2>4 DEF OnceEach
  <2>8. (\A k \in 1 .. Len(t) : ~Filed(p, t[k], "Server")') /\ ~Filed(p, x, "Server")'
    BY <2>1, <2>5, <2>6
  <2>9. \A k \in 1 .. Len(t) : Filed(p, backlog[p][k], "Server")' <=> Filed(p, t[k], "Server")'
    BY <1>6 DEF Filed
  <2>10. Filed(p, reading[p], "Server")' <=> Filed(p, x, "Server")'
    BY <1>6 DEF Filed
  <2> QED
    BY <1>2, <1>5, <1>6, <1>9, <1>3, <2>2, <2>5, <2>7, <2>8, <2>9, <2>10 DEF AcceptsOK
<1>13. ASSUME NEW r \in Parties PROVE PartyOK(r)'
  <2>1. MainOK(r) /\ FilesOK(r) /\ AcceptsOK(r) /\ ConnsOK(r)
    BY DEF IInv, PartyOK
  <2>2. MainOK(r)'
    BY <1>2, <2>1, MainStays
  <2>3. FilesOK(r)'
    BY <1>2, <2>1, FilesStay
  <2>4. AcceptsOK(r)'
    <3>1. CASE r = p
      BY <1>12, <3>1
    <3>2. CASE r # p
      BY <1>2, <1>6, <1>9, <2>1, <3>2, AcceptsStay
    <3> QED
      BY <3>1, <3>2
  <2>5. ConnsOK(r)'
    BY <1>2, <2>1, ConnsStay
  <2> QED
    BY <2>2, <2>3, <2>4, <2>5 DEF PartyOK
<1> QED
  BY <1>5, <1>7, <1>13 DEF IInv

(* The id is read, and the connection filed.  Its peer is new: it has a    *)
(* higher id, and one connection in all.                                   *)
LEMMA ReadIdStep ==
    ASSUME IInv, NEW p \in Parties, ReadId(p)
    PROVE  IInv'
<1>1. PICK q : q = reading[p]
  OBVIOUS
<1>2. PICK f : f = [peer |-> q, role |-> "Server"]
  OBVIOUS
<1>3. /\ Shapes /\ topo' = topo /\ phase' = phase /\ targets' = targets /\ tries' = tries
      /\ backlog' = backlog /\ conns' = conns /\ q # -1
      /\ files' = [files EXCEPT ![p] = Append(@, f)]
      /\ reading' = [reading EXCEPT ![p] = -1] /\ left' = [left EXCEPT ![p] = @ - 1]
  BY <1>1, <1>2 DEF IInv, ReadId
<1>4. FilesOK(p) /\ AcceptsOK(p)
  BY DEF IInv, PartyOK
<1>5. /\ q \in Parties /\ left[p] \in Nat /\ left[p] > 0 /\ ~Filed(p, q, "Server")
  BY <1>1, <1>3, <1>4 DEF Shapes, AcceptsOK
<1>6. f \in File /\ f.peer = q
  BY <1>2, <1>5 DEF File
<1>7. Parties' = Parties /\ File' = File /\ T(p)' = T(p) /\ N' = N /\ Done(p)' = Done(p)
  BY <1>3, TopologyStays DEF Done
<1>8. /\ files'[p] = Append(files[p], f) /\ reading'[p] = -1 /\ left'[p] = left[p] - 1
      /\ \A r \in Parties : r # p => /\ files'[r] = files[r] /\ reading'[r] = reading[r]
                                     /\ left'[r] = left[r]
  BY <1>3 DEF Shapes
<1>9. \A x \in Parties : Moves(x)
  BY <1>3 DEF Moves
<1>10. \A x, r \in Parties : Sent(x, r) => Sent(x, r)'
  BY <1>3, <1>9, SentStays
<1>11. p < q
  <2>1. Sent(q, p)
    BY <1>1, <1>4, <1>5 DEF AcceptsOK, Arriving
  <2> QED
    BY <1>3, <1>5, <2>1, SentIsHigher
<1>12. \A k \in 1 .. Len(files[p]) : files[p][k].peer # q
  <2>1. ASSUME NEW k \in 1 .. Len(files[p]), files[p][k].peer = q PROVE FALSE
    <3>1. Filed(p, q, "Client")
      BY <1>3, <1>5, <2>1, FileKinds
    <3>2. PICK j \in 1 .. Done(p) : T(p)[j] = q
      BY <1>4, <1>5, <3>1 DEF FilesOK
    <3>3. j \in 1 .. Len(T(p))
      <4>1. Len(targets[p]) \in Nat /\ Len(T(p)) \in Nat
        BY <1>3, TargetFacts DEF Shapes
      <4> QED
        BY <4>1 DEF Done
    <3>4. q < p /\ p \in Nat /\ q \in Nat
      BY <1>3, <1>5, <3>2, <3>3, TargetFacts
    <3> QED
      BY <1>11, <3>4
  <2> QED
    BY <2>1
<1>13. PICK s : s = files'[p]
  OBVIOUS
<1>14. /\ s \in Seq(File) /\ Len(s) = Len(files[p]) + 1
       /\ \A k, l \in 1 .. Len(s) : s[k].peer = s[l].peer => k = l
  <2>1. files[p] \in Seq(File)
    BY <1>3 DEF Shapes
  <2>2. PICK F, g : F = File /\ g = files[p]
    OBVIOUS
  <2>3. g \in Seq(F) /\ f \in F /\ s = Append(g, f)
    BY <1>6, <1>8, <1>13, <2>1, <2>2
  <2>4. PeersDiffer(g)
    BY <1>4, <2>2 DEF FilesOK, PeersDiffer
  <2>5. ~HasPeer(g, f.peer)
    BY <1>6, <1>12, <2>2 DEF HasPeer
  <2>6. s \in Seq(F) /\ Len(s) = Len(g) + 1 /\ PeersDiffer(s)
    BY <2>3, <2>4, <2>5, FilesOnce
  <2> QED
    BY <2>2, <2>6 DEF PeersDiffer
<1>15. \A x, role : Filed(p, x, role)' <=> Filed(p, x, role) \/ f = [peer |-> x, role |-> role]
  BY <1>3, <1>6, <1>8, FiledNext
<1>16. Shapes'
  <2>1. files' \in [Parties -> Seq(File)]
    BY <1>3, <1>8, <1>13, <1>14 DEF Shapes
  <2>2. left' \in [Parties -> Nat]
    <3>1. left \in [Parties -> Nat] /\ left[p] - 1 \in Nat
      BY <1>3, <1>5 DEF Shapes
    <3> QED
      BY <1>3, <3>1
  <2> QED
    BY <1>3, <1>7, <2>1, <2>2 DEF Shapes
<1>17. FilesOK(p)'
  <2>1. \A x : Filed(p, x, "Client")' <=> Filed(p, x, "Client")
    <3>1. \A x : f # [peer |-> x, role |-> "Client"]
      BY <1>2
    <3> QED
      BY <1>15, <3>1
  <2>2. Len(s) + left'[p] = Done(p) + Accepts(topo, N, p)
    <3>1. Len(files[p]) + left[p] = Done(p) + Accepts(topo, N, p)
      BY <1>4 DEF FilesOK
    <3>2. Len(files[p]) \in Nat
      BY <1>3 DEF Shapes
    <3>3. Len(s) + left'[p] = Len(files[p]) + left[p]
      <4>1. PICK a, b, c, d : /\ a = Len(files[p]) /\ b = left[p]
                              /\ c = Len(s) /\ d = left'[p]
        OBVIOUS
      <4>2. a \in Nat /\ b \in Nat /\ c = a + 1 /\ d = b - 1
        BY <1>5, <1>8, <1>14, <3>2, <4>1
      <4>3. c + d = a + b
        BY <4>2
      <4> QED
        BY <4>1, <4>3
    <3> QED
      BY <3>1, <3>3
  <2>3. Accepts(topo, N, p)' = Accepts(topo, N, p)
    BY <1>3, <1>7
  <2>4. left'[p] <= Accepts(topo, N, p)
    <3>1. left[p] <= Accepts(topo, N, p) /\ Accepts(topo, N, p) \in Nat
      BY <1>3, <1>4, TargetFacts DEF FilesOK
    <3> QED
      BY <1>5, <1>8, <3>1
  <2> QED
    BY <1>4, <1>7, <1>13, <1>14, <2>1, <2>2, <2>3, <2>4 DEF FilesOK
<1>18. AcceptsOK(p)'
  <2>1. PICK b : b = backlog[p]
    OBVIOUS
  <2>2. \A x : Filed(p, x, "Server")' <=> Filed(p, x, "Server") \/ x = q
    <3>1. \A x : f = [peer |-> x, role |-> "Server"] <=> x = q
      BY <1>2
    <3> QED
      BY <1>15, <3>1
  <2>3. ASSUME NEW x \in Parties, Arriving(x, p)' PROVE Arriving(x, p)
    <3>1. x # -1
      BY DEF Parties
    <3>2. Filed(p, x, "Server")' => Arriving(x, p)
      BY <1>1, <2>2 DEF Arriving
    <3> QED
      BY <1>3, <1>8, <2>3, <3>1, <3>2 DEF Arriving
  <2>4. \A k \in 1 .. Len(b) : b[k] # q /\ ~Filed(p, b[k], "Server")
    BY <1>1, <1>4, <2>1 DEF AcceptsOK
  <2>5. \A k \in 1 .. Len(b) : b[k] # -1
    <3>1. PICK S : S = Parties
      OBVIOUS
    <3>2. b \in Seq(S)
      BY <1>3, <2>1, <3>1 DEF Shapes
    <3>3. \A k \in 1 .. Len(b) : b[k] \in S
      BY <3>2
    <3>4. -1 \notin S
      BY <3>1 DEF Parties
    <3> QED
      BY <3>3, <3>4
  <2>6. \A k \in 1 .. Len(b) : ~Filed(p, b[k], "Server")'
    BY <2>2, <2>4
  <2>7. \A k \in 1 .. Len(b) : Filed(p, backlog[p][k], "Server")' <=> Filed(p, b[k], "Server")'
    BY <1>3, <2>1 DEF Filed
  <2>8. OnceEach(backlog[p])'
    BY <1>3, <1>4 DEF AcceptsOK, OnceEach
  <2> QED
    BY <1>3, <1>4, <1>7, <1>8, <1>10, <2>1, <2>3, <2>5, <2>6, <2>7, <2>8 DEF AcceptsOK
<1>19. ASSUME NEW r \in Parties PROVE PartyOK(r)'
  <2>1. MainOK(r) /\ FilesOK(r) /\ AcceptsOK(r) /\ ConnsOK(r)
    BY DEF IInv, PartyOK
  <2>2. MainOK(r)' /\ ConnsOK(r)'
    BY <1>3, <2>1, MainStays, ConnsStay
  <2>3. CASE r = p
    BY <1>17, <1>18, <2>2, <2>3 DEF PartyOK
  <2>4. CASE r # p
    <3>1. FilesOK(r)'
      BY <1>3, <1>8, <2>1, <2>4, FilesStay
    <3>2. AcceptsOK(r)'
      BY <1>3, <1>8, <1>10, <2>1, <2>4, AcceptsStay
    <3> QED
      BY <2>2, <3>1, <3>2 DEF PartyOK
  <2> QED
    BY <2>3, <2>4
<1> QED
  BY <1>7, <1>16, <1>19 DEF IInv

(* The peers of a party that has connected and accepted all are those of   *)
(* its calls: they are called, they differ, and there are as many.         *)
LEMMA AllCalledAreFiled ==
    ASSUME IInv, NEW p \in Parties, targets[p] = << >>, left[p] = 0
    PROVE  /\ Len(files[p]) = Degree(topo, N, p)
           /\ \A k \in 1 .. Len(files[p]) : Calls(topo, N, p, files[p][k].peer)
           /\ \A j \in 1 .. Degree(topo, N, p) :
                \E k \in 1 .. Len(files[p]) : files[p][k].peer = CallPeer(topo, p, j)
<1>1. Shapes /\ FilesOK(p) /\ AcceptsOK(p)
  BY DEF IInv, PartyOK
<1>2. PICK m, s : m = Degree(topo, N, p) /\ s = files[p]
  OBVIOUS
<1>3. /\ m \in Nat /\ Len(T(p)) + Accepts(topo, N, p) = m
      /\ Len(T(p)) \in Nat /\ Accepts(topo, N, p) \in Nat
  BY <1>1, <1>2, TargetFacts
<1>4. Done(p) = Len(T(p))
  BY <1>3 DEF Done
<1>5. Len(s) = m
  <2>1. Len(s) + 0 = Len(T(p)) + Accepts(topo, N, p)
    BY <1>1, <1>2, <1>4 DEF FilesOK
  <2>2. Len(s) \in Nat
    BY <1>1, <1>2 DEF Shapes
  <2> QED
    BY <1>3, <2>1, <2>2
<1>6. ASSUME NEW k \in 1 .. m PROVE \E j \in 1 .. m : s[k].peer = CallPeer(topo, p, j)
  <2>1. PICK q : q = s[k].peer
    OBVIOUS
  <2>2. q \in Parties /\ (Filed(p, q, "Client") \/ Filed(p, q, "Server"))
    BY <1>1, <1>2, <1>5, <2>1, FileKinds
  <2>3. CASE Filed(p, q, "Client")
    <3>1. PICK j \in 1 .. Len(T(p)) : T(p)[j] = q
      BY <1>1, <1>4, <2>2, <2>3 DEF FilesOK
    <3>2. Calls(topo, N, p, q)
      BY <1>1, <3>1, TargetFacts
    <3> QED
      BY <1>2, <2>1, <3>2 DEF Calls
  <2>4. CASE Filed(p, q, "Server")
    <3>1. Sent(q, p)
      BY <1>1, <2>2, <2>4 DEF AcceptsOK, Arriving
    <3>2. Calls(topo, N, p, q)
      BY <1>1, <2>2, <3>1, SentIsHigher
    <3> QED
      BY <1>2, <2>1, <3>2 DEF Calls
  <2> QED
    BY <2>2, <2>3, <2>4
<1> DEFINE g == [k \in 1 .. m |-> CHOOSE j \in 1 .. m : s[k].peer = CallPeer(topo, p, j)]
<1> HIDE DEF g
<1>7. PICK h : h = g
  OBVIOUS
<1>8. h \in [1 .. m -> 1 .. m] /\ \A k \in 1 .. m : s[k].peer = CallPeer(topo, p, h[k])
  BY <1>6, <1>7 DEF g
<1>9. OneToOne(h, m)
  <2>1. \A i, j \in 1 .. m : s[i].peer = s[j].peer => i = j
    BY <1>1, <1>2, <1>5 DEF FilesOK
  <2> QED
    BY <1>8, <2>1 DEF OneToOne
<1>10. Onto(h, m)
  <2>1. h \in [1 .. m -> 1 .. m]
    BY <1>8
  <2> QED
    BY <1>3, <1>9, <2>1, OneToOneIsOnto
<1>11. \A j \in 1 .. m : \E k \in 1 .. m : s[k].peer = CallPeer(topo, p, j)
  BY <1>8, <1>10 DEF Onto
<1>12. \A k \in 1 .. m : Calls(topo, N, p, s[k].peer)
  BY <1>2, <1>6 DEF Calls
<1> QED
  BY <1>2, <1>5, <1>11, <1>12

(* Sorted, they are in the order of the calls, whatever order they came in.*)
LEMMA ArrangedRight ==
    ASSUME IInv, NEW p \in Parties, targets[p] = << >>, left[p] = 0
    PROVE  /\ Arranged(p) \in Seq(File) /\ Len(Arranged(p)) = Degree(topo, N, p)
           /\ \A k \in 1 .. Degree(topo, N, p) :
                Arranged(p)[k].peer = CallPeer(topo, p, k)
<1>1. Shapes
  BY DEF IInv
<1>2. PICK m, s : m = Degree(topo, N, p) /\ s = files[p]
  OBVIOUS
<1>3. m \in Nat /\ s \in Seq(File) /\ Len(s) = m /\ DOMAIN s = 1 .. m
  <2>1. m \in Nat /\ s \in Seq(File) /\ Len(s) = m
    BY <1>1, <1>2, AllCalledAreFiled, TargetFacts DEF Shapes
  <2> QED
    BY <2>1
<1>4. ASSUME NEW k \in 1 .. m
      PROVE  \E j \in 1 .. m : s[k].peer = CallPeer(topo, p, j)
  <2>1. Calls(topo, N, p, files[p][k].peer)
    BY <1>2, <1>3, AllCalledAreFiled
  <2> QED
    BY <1>2, <2>1 DEF Calls
<1>5. ASSUME NEW j \in 1 .. m
      PROVE  \E k \in 1 .. m : s[k].peer = CallPeer(topo, p, j)
  BY <1>2, <1>3, AllCalledAreFiled
<1> DEFINE keys == [k \in DOMAIN s |-> Place(p, s[k].peer)]
           places == [k \in 1 .. m |-> PlaceIn(topo, N, p, CallPeer(topo, p, k))]
<1>6. Arranged(p) = SortedBy(s, keys)
  BY <1>2 DEF Arranged
<1> HIDE DEF keys, places
<1>7. PICK key, e : key = keys /\ e = places
  OBVIOUS
<1>8. \A k \in 1 .. m : key[k] = PlaceIn(topo, N, p, s[k].peer)
  BY <1>3, <1>7 DEF keys, Place, PlaceIn
<1>9. \A k \in 1 .. m : e[k] = PlaceIn(topo, N, p, CallPeer(topo, p, k))
  BY <1>7 DEF places
<1>10. Increasing(e, m)
  <2>1. topo \in DOMAIN Nets /\ N = Nets[topo] /\ p \in 0 .. N - 1
    BY <1>1 DEF Shapes, N, Parties
  <2>2. PICK n : n = N
    OBVIOUS
  <2>3. \A j, k \in 1 .. m :
          /\ PlaceIn(topo, n, p, CallPeer(topo, p, j)) \in Int
          /\ j < k => PlaceIn(topo, n, p, CallPeer(topo, p, j))
                         < PlaceIn(topo, n, p, CallPeer(topo, p, k))
    BY <1>2, <2>1, <2>2, PlacesIncrease
  <2> QED
    BY <1>9, <2>2, <2>3 DEF Increasing
<1>11. HasKeys(key, e, m)
  <2>1. ASSUME NEW j \in 1 .. m PROVE \E i \in 1 .. m : key[i] = e[j]
    <3>1. PICK i \in 1 .. m : s[i].peer = CallPeer(topo, p, j)
      BY <1>5
    <3> QED
      BY <1>8, <1>9, <3>1
  <2> QED
    BY <2>1 DEF HasKeys
<1>12. PICK o \in [1 .. m -> 1 .. m] :
          SortedBy(s, key) = [k \in 1 .. m |-> s[o[k]]] /\ InOrder(key, o, e, m)
  BY <1>3, <1>10, <1>11, SortedRight
<1>13. PICK c : c = Arranged(p)
  OBVIOUS
<1>14. c = [k \in 1 .. m |-> s[o[k]]] /\ \A k \in 1 .. m : o[k] \in 1 .. m
  BY <1>6, <1>7, <1>12, <1>13
<1>15. c \in Seq(File) /\ Len(c) = m
  <2>1. PICK F : F = File
    OBVIOUS
  <2>2. s \in Seq(F)
    BY <1>3, <2>1
  <2>3. \A k \in 1 .. m : s[o[k]] \in F
    BY <1>3, <1>14, <2>2
  <2>4. c \in Seq(F) /\ Len(c) = m
    BY <1>3, <1>14, <2>3
  <2> QED
    BY <2>1, <2>4
<1>16. ASSUME NEW k \in 1 .. m PROVE c[k].peer = CallPeer(topo, p, k)
  <2>1. PICK i \in 1 .. m : i = o[k] /\ c[k] = s[i]
    BY <1>14
  <2>2. PICK j \in 1 .. m : s[i].peer = CallPeer(topo, p, j)
    BY <1>4
  <2>3. key[i] = e[k]
    BY <1>12, <2>1 DEF InOrder
  <2>4. e[j] = e[k]
    BY <1>8, <1>9, <2>2, <2>3
  <2>5. j = k
    <3>1. PICK x, y : x = e[j] /\ y = e[k]
      OBVIOUS
    <3>2. x \in Int /\ y \in Int /\ (j < k => x < y) /\ (k < j => y < x)
      BY <1>10, <3>1 DEF Increasing
    <3> QED
      BY <2>4, <3>1, <3>2
  <2> QED
    BY <2>1, <2>2, <2>5
<1> QED
  BY <1>2, <1>13, <1>15, <1>16

(* new returns.                                                            *)
LEMMA ReturnStep ==
    ASSUME IInv, NEW p \in Parties, Return(p)
    PROVE  IInv'
<1>1. /\ Shapes /\ topo' = topo /\ targets' = targets /\ tries' = tries
      /\ backlog' = backlog /\ reading' = reading /\ left' = left /\ files' = files
      /\ phase[p] = "connect" /\ targets[p] = << >> /\ left[p] = 0
      /\ phase' = [phase EXCEPT ![p] = "up"]
      /\ conns' = [conns EXCEPT ![p] = Arranged(p)]
  BY DEF IInv, Return
<1>2. Parties' = Parties /\ File' = File /\ T(p)' = T(p) /\ Done(p)' = Done(p) /\ N' = N
  BY <1>1, TopologyStays DEF Done
<1>3. /\ Arranged(p) \in Seq(File) /\ Len(Arranged(p)) = Degree(topo, N, p)
      /\ \A k \in 1 .. Degree(topo, N, p) : Arranged(p)[k].peer = CallPeer(topo, p, k)
  BY <1>1, ArrangedRight
<1>4. /\ phase'[p] = "up" /\ conns'[p] = Arranged(p)
      /\ \A r \in Parties : r # p => phase'[r] = phase[r] /\ conns'[r] = conns[r]
  BY <1>1 DEF Shapes
<1>5. Shapes'
  BY <1>1, <1>2, <1>3 DEF Shapes
<1>6. \A q \in Parties : Moves(q)
  BY <1>1, <1>4 DEF Moves
<1>7. ConnsOK(p)'
  <2>1. PICK c : c = conns'[p]
    OBVIOUS
  <2>2. /\ Len(c) = Degree(topo, N, p)
        /\ \A k \in 1 .. Degree(topo, N, p) : c[k].peer = CallPeer(topo, p, k)
    BY <1>3, <1>4, <2>1
  <2>3. /\ Degree(topo, N, p)' = Degree(topo, N, p)
        /\ \A k : CallPeer(topo, p, k)' = CallPeer(topo, p, k)
    BY <1>1, <1>2
  <2> QED
    BY <2>1, <2>2, <2>3 DEF ConnsOK
<1>8. ASSUME NEW r \in Parties PROVE PartyOK(r)'
  <2>1. MainOK(r) /\ FilesOK(r) /\ AcceptsOK(r) /\ ConnsOK(r)
    BY DEF IInv, PartyOK
  <2>2. MainOK(r)'
    <3>1. CASE r = p
      BY <1>1, <1>2, <1>4, <2>1, <3>1 DEF MainOK
    <3>2. CASE r # p
      BY <1>1, <1>4, <2>1, <3>2, MainStays
    <3> QED
      BY <3>1, <3>2
  <2>3. FilesOK(r)'
    BY <1>1, <2>1, FilesStay
  <2>4. AcceptsOK(r)'
    <3>1. \A q \in Parties : Sent(q, r) => Sent(q, r)'
      BY <1>1, <1>6, SentStays
    <3> QED
      BY <1>1, <2>1, <3>1, AcceptsStay
  <2>5. ConnsOK(r)'
    <3>1. CASE r = p
      BY <1>7, <3>1
    <3>2. CASE r # p
      BY <1>1, <1>4, <2>1, <3>2, ConnsStay
    <3> QED
      BY <3>1, <3>2
  <2> QED
    BY <2>2, <2>3, <2>4, <2>5 DEF PartyOK
<1> QED
  BY <1>2, <1>5, <1>8 DEF IInv

(* The invariant is inductive.                                             *)
LEMMA NextIInv == IInv /\ [Next]_vars => IInv'
<1> SUFFICES ASSUME IInv, [Next]_vars PROVE IInv'
  OBVIOUS
<1>1. CASE UNCHANGED vars
  <2>1. /\ Shapes /\ topo' = topo /\ phase' = phase /\ targets' = targets /\ tries' = tries
        /\ backlog' = backlog /\ reading' = reading /\ left' = left /\ files' = files
        /\ conns' = conns
    BY <1>1 DEF IInv, vars
  <2>2. Parties' = Parties /\ File' = File
    BY <2>1, TopologyStays
  <2>3. Shapes'
    BY <2>1, <2>2 DEF Shapes
  <2>4. \A q, r \in Parties : Sent(q, r) => Sent(q, r)'
    BY <2>1, SentStays DEF Moves
  <2>5. ASSUME NEW r \in Parties PROVE PartyOK(r)'
    <3>1. MainOK(r) /\ FilesOK(r) /\ AcceptsOK(r) /\ ConnsOK(r)
      BY DEF IInv, PartyOK
    <3>2. MainOK(r)' /\ FilesOK(r)'
      BY <2>1, <3>1, MainStays, FilesStay
    <3>3. AcceptsOK(r)'
      BY <2>1, <2>4, <3>1, AcceptsStay
    <3>4. ConnsOK(r)'
      BY <2>1, <3>1, ConnsStay
    <3> QED
      BY <3>2, <3>3, <3>4 DEF PartyOK
  <2> QED
    BY <2>2, <2>3, <2>5 DEF IInv
<1>2. CASE Next
  <2>1. PICK p \in Parties : MainTask(p) \/ AcceptTask(p)
    BY <1>2 DEF Next
  <2>2. CASE Bind(p)
    BY <2>2, BindStep
  <2>3. CASE Connect(p)
    BY <2>3, ConnectStep
  <2>4. CASE Refused(p)
    BY <2>4, RefusedStep
  <2>5. CASE Greet(p)
    BY <2>5, GreetStep
  <2>6. CASE GreetFails(p)
    BY <2>6, GreetFailsStep
  <2>7. CASE Return(p)
    BY <2>7, ReturnStep
  <2>8. CASE Accept(p)
    BY <2>8, AcceptStep
  <2>9. CASE ReadId(p)
    BY <2>9, ReadIdStep
  <2> QED
    BY <2>1, <2>2, <2>3, <2>4, <2>5, <2>6, <2>7, <2>8, <2>9 DEF MainTask, AcceptTask
<1> QED
  BY <1>1, <1>2

-----------------------------------------------------------------------------
(* The invariant holds in every reachable state, for every number of       *)
(* parties and of attempts and every set of topologies: new connects a     *)
(* party to each peer once, from one side (TcpTree::new, TcpPairWise::new, *)
(* TcpCollect::new).                                                       *)
THEOREM Invariance == Spec => []IInv
<1>1. Init => IInv
  BY InitIInv
<1>2. IInv /\ [Next]_vars => IInv'
  BY NextIInv
<1> QED
  BY <1>1, <1>2, PTL DEF Spec

(* A party never makes more attempts than it may, nor accepts more         *)
(* connections than it counted (the retry and the client_count loops).     *)
THEOREM TypeCorrect == Spec => []TypeOK
<1>1. IInv => TypeOK
  <2> SUFFICES ASSUME IInv PROVE TypeOK
    OBVIOUS
  <2>1. Shapes
    BY DEF IInv
  <2>2. ASSUME NEW p \in Parties PROVE IsSuffix(targets[p], Targets(topo, N, p))
    <3>1. PICK s, t, S : s = targets[p] /\ t = T(p) /\ S = Parties
      OBVIOUS
    <3>2. s \in Seq(S) /\ t \in Seq(S)
      BY <2>1, <3>1, TargetFacts DEF Shapes
    <3>3. Len(s) <= Len(t) /\ \A k \in 1 .. Len(s) : s[k] = t[Len(t) - Len(s) + k]
      BY <3>1 DEF IInv, PartyOK, MainOK, Done
    <3>4. IsSuffix(s, t)
      BY <3>2, <3>3, SuffixSplit
    <3> QED
      BY <3>1, <3>4 DEF T
  <2>3. ASSUME NEW p \in Parties PROVE left[p] \in 0 .. Accepts(topo, N, p)
    <3>1. left[p] <= Accepts(topo, N, p)
      BY DEF IInv, PartyOK, FilesOK
    <3>2. left[p] \in Nat /\ Accepts(topo, N, p) \in Nat
      BY <2>1, TargetFacts DEF Shapes
    <3> QED
      BY <3>1, <3>2
  <2>4. ASSUME NEW p \in Parties
        PROVE  ToSet(files[p]) \subseteq [peer : Parties, role : {"Server", "Client"}]
    <3>1. PICK s, F : s = files[p] /\ F = File
      OBVIOUS
    <3>2. s \in Seq(F)
      BY <2>1, <3>1 DEF Shapes
    <3>3. ToSet(s) \subseteq F
      BY <3>2 DEF ToSet
    <3> QED
      BY <3>1, <3>3 DEF File
  <2> QED
    BY <2>1, <2>2, <2>3, <2>4 DEF TypeOK, Shapes
<1> QED
  BY <1>1, Invariance, PTL

(* No pair of parties connects twice, and of the two ends one is the       *)
(* server: the lower id, whom the other has connected to.                  *)
THEOREM RolesOpposite == Spec => []OppositeRoles
<1>1. IInv => OppositeRoles
  <2> SUFFICES ASSUME IInv PROVE OppositeRoles
    OBVIOUS
  <2>1. Shapes
    BY DEF IInv
  <2>2. ASSUME NEW p \in Parties, NEW q \in Parties,
               NEW k \in DOMAIN files[p], files[p][k].peer = q
        PROVE  /\ k \in 1 .. Len(files[p])
               /\ q < p => files[p][k].role = "Client"
               /\ p < q => files[p][k].role = "Server"
               /\ p # q
    <3>1. files[p] \in Seq(File)
      BY <2>1 DEF Shapes
    <3>2. k \in 1 .. Len(files[p]) /\ files[p][k] \in File
      BY <3>1
    <3>3. PICK f \in File : f = files[p][k]
      BY <3>2
    <3>4. f.role \in {"Server", "Client"} /\ f = [peer |-> q, role |-> f.role]
      BY <2>2, <3>3 DEF File
    <3>5. p \in Nat /\ q \in Nat
      BY <2>1, TargetFacts
    <3>6. FilesOK(p) /\ AcceptsOK(p) /\ MainOK(p)
      BY DEF IInv, PartyOK
    <3>7. CASE f.role = "Client"
      <4>1. Filed(p, q, "Client")
        BY <3>2, <3>3, <3>4, <3>7 DEF Filed
      <4>2. PICK j \in 1 .. Done(p) : T(p)[j] = q
        BY <3>6, <4>1 DEF FilesOK
      <4>3. j \in 1 .. Len(T(p))
        <5>1. targets[p] \in Seq(Parties)
          BY <2>1 DEF Shapes
        <5>2. Len(targets[p]) \in Nat
          BY <5>1
        <5>3. Len(T(p)) \in Nat
          BY <2>1, TargetFacts
        <5> QED
          BY <5>2, <5>3 DEF Done
      <4>4. q < p
        BY <2>1, <4>2, <4>3, TargetFacts
      <4> QED
        BY <3>2, <3>3, <3>5, <3>7, <4>4
    <3>8. CASE f.role = "Server"
      <4>1. Filed(p, q, "Server")
        BY <3>2, <3>3, <3>4, <3>8 DEF Filed
      <4>2. Sent(q, p)
        BY <3>6, <4>1 DEF AcceptsOK, Arriving
      <4>3. p < q
        BY <2>1, <4>2, SentIsHigher
      <4> QED
        BY <3>2, <3>3, <3>5, <3>8, <4>3
    <3> QED
      BY <3>4, <3>7, <3>8
  <2>3. ASSUME NEW p \in Parties, NEW q \in Parties,
               NEW k \in DOMAIN files[p], NEW l \in DOMAIN files[p],
               files[p][k].peer = q, files[p][l].peer = q
        PROVE  k = l
    <3>1. k \in 1 .. Len(files[p]) /\ l \in 1 .. Len(files[p])
      BY <2>2, <2>3
    <3>2. FilesOK(p)
      BY DEF IInv, PartyOK
    <3> QED
      BY <2>3, <3>1, <3>2 DEF FilesOK
  <2>4. ASSUME NEW p \in Parties, NEW q \in Parties,
               NEW k \in DOMAIN files[p], NEW l \in DOMAIN files[q],
               files[p][k].peer = q, files[q][l].peer = p
        PROVE  /\ p # q
               /\ {files[p][k].role} \cup {files[q][l].role} = {"Client", "Server"}
    <3>1. p \in Nat /\ q \in Nat
      BY <2>1, TargetFacts
    <3>2. /\ p # q
          /\ q < p => files[p][k].role = "Client" /\ files[q][l].role = "Server"
          /\ p < q => files[p][k].role = "Server" /\ files[q][l].role = "Client"
      BY <2>2, <2>4
    <3> QED
      BY <3>1, <3>2
  <2> DEFINE Between(a, b) == {k \in DOMAIN files[a] : files[a][k].peer = b}
             Roles(a, b) == {files[a][k].role : k \in Between(a, b)}
  <2>5. ASSUME NEW p \in Parties, NEW q \in Parties
        PROVE  /\ \A k, l \in Between(p, q) : k = l
               /\ Between(p, q) # {} /\ Between(q, p) # {} =>
                      Roles(p, q) \cup Roles(q, p) = {"Client", "Server"}
    <3>1. \A k, l \in Between(p, q) : k = l
      BY <2>3
    <3>2. ASSUME NEW k \in Between(p, q), NEW l \in Between(q, p)
          PROVE  Roles(p, q) \cup Roles(q, p) = {"Client", "Server"}
      <4>1. Between(p, q) = {k} /\ Between(q, p) = {l}
        BY <2>3
      <4>2. Roles(p, q) = {files[p][k].role} /\ Roles(q, p) = {files[q][l].role}
        BY <4>1
      <4>3. {files[p][k].role} \cup {files[q][l].role} = {"Client", "Server"}
        BY <2>4
      <4> HIDE DEF Between, Roles
      <4> QED
        BY <4>2, <4>3
    <3> QED
      BY <3>1, <3>2
  <2> QED
    BY <2>5 DEF OppositeRoles
<1> QED
  BY <1>1, Invariance, PTL

(* A constructor that returns has all its connections, each where the      *)
(* calls of the topology look for that peer (Option slots of TcpTree, the  *)
(* sort_unstable_by_key of the others).                                    *)
THEOREM ReturnsConnected == Spec => []FullyConnected
<1>1. IInv => FullyConnected
  <2> SUFFICES ASSUME IInv, NEW p \in Parties, phase[p] = "up"
               PROVE  /\ Len(conns[p]) = Connections(p)
                      /\ \A k \in 1 .. Len(conns[p]) : conns[p][k].peer = PeerOfCall(p, k)
    BY DEF FullyConnected
  <2>1. /\ Len(conns[p]) = Degree(topo, N, p)
        /\ \A k \in 1 .. Degree(topo, N, p) : conns[p][k].peer = CallPeer(topo, p, k)
    BY DEF IInv, PartyOK, ConnsOK
  <2>2. Connections(p) = Degree(topo, N, p) /\ \A k : PeerOfCall(p, k) = CallPeer(topo, p, k)
    BY DEF Connections, Degree, PeerOfCall, CallPeer
  <2> QED
    BY <2>1, <2>2
<1> QED
  BY <1>1, Invariance, PTL
=============================================================================
