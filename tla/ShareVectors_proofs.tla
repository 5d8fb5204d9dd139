------------------------- MODULE ShareVectors_proofs -------------------------
(***************************************************************************)
(* Proofs about ShareVectors, for every number of parties, every length of *)
(* a share and every modulus up to half a word: what the callers of the    *)
(* fast path add up is the sum at every place.                             *)
(***************************************************************************)
EXTENDS ShareVectors, SequenceTheorems, NumberTheorems

Places == 1 .. ShareLen

(* The values of the parties at place i, party by party.                   *)
Column(i) ==
    [k \in 0 .. G - 1 |-> IF k = 0 THEN initial[i] ELSE others[(k - 1) * ShareLen + i]]

(* Their running sum.                                                      *)
Total(i) == CHOOSE S : IsSum(S, Column(i), G - 1)

(* Before chunk next, the shares of next - 1 other parties are added up.   *)
IInv ==
    /\ p0 \in [Places -> Values]
    /\ initial \in [Places -> Values]
    /\ others \in [1 .. (G - 1) * ShareLen -> Values]
    /\ next \in 1 .. G
    /\ \A i \in Places : p0[i] = Total(i)[next - 1] % Modulus

-----------------------------------------------------------------------------

(* For moduli up to half a word nothing wraps.                             *)
Half(m) == m \in Nat \ {0} /\ 2 * m <= Word

(* So that add_mod_u128 adds modulo m.                                     *)
LEMMA AddModIsMod ==
    ASSUME NEW m, Half(m), NEW a \in 0 .. m - 1, NEW b \in 0 .. m - 1
    PROVE  AddMod(a, b, m) = (a + b) % m
<1>1. PICK t : t = a + b
  OBVIOUS
<1>2. m \in Nat \ {0} /\ t \in Nat /\ t < Word /\ t <= 2 * m - 2
  BY <1>1, WordAssumption DEF Half
<1>3. Wrap(a + b) = t
  BY <1>1, <1>2, ModSmall, WordAssumption DEF Wrap
<1>4. AddMod(a, b, m) = IF t >= m THEN t - m ELSE t
  BY <1>3 DEF AddMod
<1>5. CASE t >= m
  <2>1. PICK r : r = t - m
    OBVIOUS
  <2>2. r \in 0 .. m - 1 /\ t = m * 1 + r
    BY <1>2, <1>5, <2>1
  <2>3. ((m * 1 + r) % m) = r
    BY <1>2, <2>2, DivModUnique
  <2> QED
    BY <1>1, <1>4, <1>5, <2>1, <2>2, <2>3
<1>6. CASE ~(t >= m)
  <2>1. t \in 0 .. m - 1
    BY <1>2, <1>6
  <2>2. (t % m) = t
    BY <1>2, <2>1, ModSmall
  <2> QED
    BY <1>1, <1>4, <1>6, <2>2
<1> QED
  BY <1>5, <1>6

(* What the constants are.                                                 *)
LEMMA Numbers ==
    /\ G \in Nat /\ G >= 2 /\ G - 1 \in Nat
    /\ ShareLen \in Nat \ {0}
    /\ Modulus \in Nat \ {0} /\ Half(Modulus)
BY ShareVectorsAssumption DEF Half

(* The buffer holds one chunk for every other party.                       *)
LEMMA ChunkCount ==
    ASSUME Fast, others \in [1 .. (G - 1) * ShareLen -> Values]
    PROVE  Chunks = G - 1
<1> DEFINE n == (G - 1) * ShareLen
<1>1. n \in Nat
  BY Numbers
<1> HIDE DEF n
<1>2. Len(others) = n
  BY <1>1 DEF n
<1>3. (ShareLen * (G - 1) + 0) \div ShareLen = G - 1
  BY Numbers, DivModUnique
<1>4. n = ShareLen * (G - 1) + 0
  BY Numbers DEF n
<1> QED
  BY <1>2, <1>3, <1>4 DEF Chunks, ChunkLen

(* Every place of every chunk is in the gathered buffer.                   *)
LEMMA InOthers ==
    ASSUME NEW k \in 1 .. G - 1, NEW i \in Places
    PROVE  (k - 1) * ShareLen + i \in 1 .. (G - 1) * ShareLen
<1>1. /\ (k - 1) * ShareLen \in Nat
      /\ (G - 1) * ShareLen = (k - 1) * ShareLen + ShareLen + (G - 1 - k) * ShareLen
      /\ (G - 1 - k) * ShareLen \in Nat
  BY Numbers
<1> QED
  BY <1>1, Numbers DEF Places

(* A column has a running sum.                                             *)
LEMMA ColumnSums ==
    ASSUME initial \in [Places -> Values],
           others \in [1 .. (G - 1) * ShareLen -> Values],
           NEW i \in Places
    PROVE  /\ \A k \in 0 .. G - 1 : Column(i)[k] \in Values
           /\ IsSum(Total(i), Column(i), G - 1)
<1>1. ASSUME NEW k \in 0 .. G - 1 PROVE Column(i)[k] \in Values
  <2>1. k # 0 => (k - 1) * ShareLen + i \in 1 .. (G - 1) * ShareLen
    BY InOthers
  <2> QED
    BY <2>1 DEF Column
<1>2. \A k \in 0 .. G - 1 : Column(i)[k] \in Int
  BY <1>1, Numbers DEF Values
<1>3. \E S : IsSum(S, Column(i), G - 1)
  BY <1>2, Numbers, SumExists
<1> QED
  BY <1>1, <1>3 DEF Total

(* The invariant holds at first,                                           *)
LEMMA InitEstablishes == Init => IInv
<1> SUFFICES ASSUME Init PROVE IInv
  OBVIOUS
<1>1. /\ p0 \in [Places -> Values] /\ initial = p0 /\ next = 1 /\ next \in 1 .. G
      /\ others \in [1 .. (G - 1) * ShareLen -> Values]
  BY Numbers DEF Init, Places
<1>2. ASSUME NEW i \in Places PROVE p0[i] = Total(i)[next - 1] % Modulus
  <2>1. Total(i)[0] = Column(i)[0] /\ Column(i)[0] = p0[i]
    BY <1>1, ColumnSums, Numbers DEF IsSum, Column
  <2>2. p0[i] \in 0 .. Modulus - 1
    BY <1>1 DEF Values
  <2>3. p0[i] % Modulus = p0[i]
    BY <2>2, ModSmall, Numbers
  <2> QED
    BY <1>1, <2>1, <2>3
<1> QED
  BY <1>1, <1>2 DEF IInv

(* and adding a chunk keeps it.                                            *)
LEMMA AddChunkStep ==
    ASSUME Fast, IInv, AddChunk
    PROVE  IInv'
<1>1. /\ next \in 1 .. G - 1 /\ next' = next + 1
      /\ others' = others /\ initial' = initial
      /\ p0 \in [Places -> Values] /\ initial \in [Places -> Values]
      /\ others \in [1 .. (G - 1) * ShareLen -> Values]
  BY ChunkCount, Numbers DEF AddChunk, IInv
<1>2. \A i \in Places : Total(i)' = Total(i)
  BY <1>1 DEF Total, Column
<1>3. ASSUME NEW i \in Places
      PROVE  p0'[i] = Total(i)[next] % Modulus
  <2> DEFINE x == others[(next - 1) * ShareLen + i]
             t == Total(i)[next - 1]
  <2>1. p0'[i] = AddMod(p0[i], x, Modulus)
    BY DEF AddChunk, ChunkLen, Places
  <2>2. /\ x \in 0 .. Modulus - 1 /\ p0[i] \in 0 .. Modulus - 1
        /\ Column(i)[next] = x
    BY <1>1, InOthers DEF Column, Values
  <2>3. t \in Int /\ Total(i)[next] = t + x
    <3>1. IsSum(Total(i), Column(i), G - 1)
      BY <1>1, ColumnSums
    <3>2. next - 1 \in 0 .. G - 1 /\ next \in 1 .. G - 1
      BY <1>1, Numbers
    <3> QED
      BY <2>2, <3>1, <3>2 DEF IsSum
  <2>4. p0[i] = t % Modulus
    BY DEF IInv
  <2> HIDE DEF x, t
  <2>5. p0'[i] = (p0[i] + x) % Modulus
    BY <2>1, <2>2, AddModIsMod, Numbers
  <2>6. ((t % Modulus) + x) % Modulus = (t + x) % Modulus
    <3>1. x \in Int /\ Modulus \in Nat \ {0}
      BY <2>2, Numbers
    <3> QED
      BY <2>3, <3>1, ModAdd
  <2> QED
    BY <2>3, <2>4, <2>5, <2>6
<1>4. p0' \in [Places -> Values]
  <2>0. \A i \in Places : IsSum(Total(i), Column(i), G - 1)
    BY <1>1, ColumnSums
  <2>1. \A i \in Places : Total(i)[next] \in Int
    BY <1>1, <2>0, Numbers DEF IsSum
  <2>2. \A i \in Places : p0'[i] \in Values
    BY <1>3, <2>1, DivMod, Numbers DEF Values
  <2>3. p0' = [i \in Places |-> p0'[i]]
    BY DEF AddChunk, Places
  <2> QED
    BY <2>2, <2>3
<1>5. \A i \in Places : p0'[i] = Total(i)'[next' - 1] % Modulus
  BY <1>1, <1>2, <1>3
<1> QED
  BY <1>1, <1>4, <1>5, Numbers DEF IInv

(* The invariant holds throughout, for a modulus that takes the fast path. *)
THEOREM Invariance ==
    ASSUME Fast
    PROVE  Spec => []IInv
<1>1. IInv /\ [Next]_vars => IInv'
  <2> SUFFICES ASSUME IInv, [Next]_vars PROVE IInv'
    OBVIOUS
  <2>1. CASE AddChunk
    BY <2>1, AddChunkStep
  <2>2. CASE UNCHANGED vars
    <3>1. \A i : Total(i)' = Total(i)
      BY <2>2 DEF vars, Total, Column
    <3> QED
      BY <2>2, <3>1 DEF vars, IInv
  <2> QED
    BY <2>1, <2>2 DEF Next, Finished
<1> QED
  BY InitEstablishes, <1>1, PTL DEF Spec

(* The recursive function in SumsPlaceByPlace is the running sum.          *)
LEMMA SumIsTotal ==
    ASSUME initial \in [Places -> Values],
           others \in [1 .. (G - 1) * ShareLen -> Values],
           NEW i \in Places
    PROVE  LET sum[k \in 0 .. G - 1] ==
                 IF k = 0 THEN initial[i]
                 ELSE sum[k - 1] + others[(k - 1) * ShareLen + i]
           IN  sum[G - 1] = Total(i)[G - 1]
<1> DEFINE Eqn(f) == f = [k \in 0 .. G - 1 |->
                            IF k = 0 THEN initial[i]
                            ELSE f[k - 1] + others[(k - 1) * ShareLen + i]]
           sum == CHOOSE f : Eqn(f)
           S == Total(i)
<1>1. IsSum(S, Column(i), G - 1)
  BY ColumnSums
<1>2. Eqn(S)
  <2>1. S \in [0 .. G - 1 -> Int]
    BY <1>1 DEF IsSum
  <2>2. ASSUME NEW k \in 0 .. G - 1
        PROVE  S[k] = IF k = 0 THEN initial[i]
                      ELSE S[k - 1] + others[(k - 1) * ShareLen + i]
    <3> HIDE DEF S
    <3>1. CASE k = 0
      BY <1>1, <3>1 DEF IsSum, Column
    <3>2. CASE k # 0
      <4>1. k \in 1 .. G - 1
        BY <3>2
      <4>2. S[k] = S[k - 1] + Column(i)[k]
        BY <1>1, <4>1 DEF IsSum
      <4> QED
        BY <3>2, <4>2 DEF Column
    <3> QED
      BY <3>1, <3>2
  <2> HIDE DEF S
  <2> QED
    BY <2>1, <2>2
<1>3. Eqn(sum)
  BY <1>2
<1>4. ASSUME NEW k \in 0 .. G - 1, k = 0 \/ sum[k - 1] = S[k - 1]
      PROVE  sum[k] = S[k]
  <2> HIDE DEF sum, S
  <2> QED
    BY <1>2, <1>3, <1>4
<1> DEFINE T == {k \in 0 .. G - 1 : sum[k] = S[k]}
<1>5. 0 \in T /\ \A k \in 1 .. G - 1 : k - 1 \in T => k \in T
  BY <1>4, Numbers
<1>6. G - 1 \in T
  <2> HIDE DEF T
  <2>1. \A k \in 0 .. G - 1 : k \in T
    BY <1>5, InductionUpTo, Numbers
  <2> QED
    BY <2>1, Numbers
<1> QED
  BY <1>6

(* The sum at every place is the sum of what the parties have there, mod   *)
(* the modulus: the chunks the callers cut are the parties' shares.        *)
THEOREM SumsAreRight ==
    ASSUME Fast
    PROVE  Spec => []SumsPlaceByPlace
<1>1. IInv => SumsPlaceByPlace
  <2> SUFFICES ASSUME IInv, next > Chunks, NEW i \in 1 .. ShareLen
               PROVE  LET sum[k \in 0 .. G - 1] ==
                            IF k = 0 THEN initial[i]
                            ELSE sum[k - 1] + others[(k - 1) * ShareLen + i]
                      IN  p0[i] = sum[G - 1] % Modulus
    BY DEF SumsPlaceByPlace
  <2>1. next = G
    BY ChunkCount, Numbers DEF IInv
  <2>2. p0[i] = Total(i)[G - 1] % Modulus
    BY <2>1 DEF IInv, Places
  <2> QED
    BY <2>2, SumIsTotal DEF IInv, Places
<1> QED
  BY Invariance, <1>1, PTL
=============================================================================
