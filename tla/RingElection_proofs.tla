------------------------ MODULE RingElection_proofs ------------------------
(***************************************************************************)
(* What an election decodes opens under the key of the party whose number  *)
(* is the sum of the degrees, for every number of parties, ring, modulus,  *)
(* set of keys, degrees and random values.                                 *)
(*                                                                         *)
(* A polynomial with X^len = -1 is taken as a function of all integers     *)
(* that changes its sign every len places, a wave: a rotation is a shift   *)
(* then, and every step of the protocol is followed on the waves, up to    *)
(* congruence modulo P (Represents).                                       *)
(*   1. Sums: SumBelow is linear, and sums of sums can be exchanged.       *)
(*   2. generate_init_acc is the mark; external_product_chain shifts it by *)
(*      the sum of the degrees; partial expansion leaves marks in the      *)
(*      selector of one party only.                                        *)
(*   3. Encoding and aggregation: the product of that mark with the sum of *)
(*      this party's commits.                                              *)
(*   4. div_v_inplace: of that product, the commit itself, alone (Spread). *)
(*   5. decode_commit: it is in two chunks, with one sign; put together,   *)
(*      they are the commit, rotated (Decodes).                            *)
(*   6. A rotated encryption of zero is still one: it opens.               *)
(* The inductive invariant IInv says that everybody encodes the product of *)
(* the same degrees and decodes the sum of the same encodings.             *)
(* No other key opens what is decoded, unless it does the same to what all *)
(* have drawn for the leader's commit (SameProducts).  So the leader is    *)
(* the only one if the keys are told apart, and, told apart or not, the    *)
(* election implements Election.  The benchmark's partial sums come to the *)
(* same.                                                                   *)
(***************************************************************************)
EXTENDS RingElection, NumberTheorems

(* Congruence modulo the commit modulus.                                   *)
Same(x, y) == x % P = y % P

(* The coefficients of a polynomial are integers.                          *)
IsPoly(f, len) == \A i \in 0 .. len - 1 : f[i] \in Int

(* x, with the sign of (-1)^k.                                             *)
Signed(k, x) == IF k % 2 = 0 THEN x ELSE -x

(* Tables, for sums of sums.                                               *)
IsTable(t, m, n) == \A p \in 0 .. m - 1, j \in 0 .. n - 1 : t[p][j] \in Int
Column(t, j, m) == [p \in 0 .. m - 1 |-> t[p][j]]
RowSums(r, t, m, n) == \A p \in 0 .. m - 1 : r[p] = SumBelow(n, t[p])
ColumnSums(c, t, m, n) == \A j \in 0 .. n - 1 : c[j] = SumBelow(m, Column(t, j, m))

(* A function of the integers that changes its sign every len places, as   *)
(* the coefficients of a polynomial do when X^len = -1.                    *)
Wave(A, len) ==
    /\ A \in [Int -> Int]
    /\ \A x, k \in Int : A[x + len * k] = Signed(k, A[x])

(* f has the coefficients of the wave A.                                   *)
Represents(f, A, len) ==
    /\ IsPoly(f, len)
    /\ Wave(A, len)
    /\ \A i \in 0 .. len - 1 : Same(f[i], A[i])

(* The polynomial f, going on.                                             *)
WaveOf(f, len) == [x \in Int |-> Signed(x \div len, f[x % len])]

(* X^d * A, and the product of A with the polynomial g of length n.        *)
Shift(A, d) == [x \in Int |-> A[x - d]]
Product(A, g, n) ==
    [x \in Int |-> SumBelow(n, [j \in 0 .. n - 1 |-> A[x - j] * g[j]])]

(* The terms a coefficient of the product is the sum of.                   *)
Terms(f, A, g, n, x) == \A j \in 0 .. n - 1 : f[j] = A[x - j] * g[j]

-----------------------------------------------------------------------------

(* What the constants are.                                                 *)
LEMMA Constants ==
    /\ G \in Nat \ {0} /\ N \in Nat \ {0} /\ CommitLen \in Nat \ {0} /\ P \in Nat \ {0}
    /\ G >= 2 /\ P >= 3 /\ CommitLen <= N /\ N > 2 * CommitLen
    /\ G - 1 \in Nat /\ CommitLen - 1 \in Nat /\ N - 1 \in Nat
    /\ Parties = 0 .. G - 1
BY RingElectionAssumption DEF Parties

(* SumBelow is a running sum.                                              *)
LEMMA SumBelowIs ==
    ASSUME NEW n \in Nat \ {0}, NEW f, \A k \in 0 .. n - 1 : f[k] \in Int
    PROVE  \E S : IsSum(S, f, n - 1) /\ SumBelow(n, f) = S[n - 1]
<1> DEFINE m == n - 1
<1>1. m \in Nat
  OBVIOUS
<1>2. PICK S : IsSum(S, f, m)
  <2> HIDE DEF m
  <2>1. \A k \in 0 .. m : f[k] \in Int
    BY DEF m
  <2> QED
    BY <1>1, <2>1, SumExists
<1> DEFINE Eqn(h) == h = [i \in 0 .. m |-> IF i = 0 THEN f[0] ELSE h[i - 1] + f[i]]
           sum == CHOOSE h : Eqn(h)
           R == [i \in 0 .. m |-> S[i]]
<1>3. SumBelow(n, f) = sum[m]
  BY DEF SumBelow
<1>4. ASSUME NEW i \in 0 .. m PROVE R[i] = IF i = 0 THEN f[0] ELSE R[i - 1] + f[i]
  <2>1. CASE i = 0
    BY <1>2, <2>1 DEF IsSum
  <2>2. CASE i # 0
    <3>1. i \in 1 .. m /\ i - 1 \in 0 .. m
      BY <2>2
    <3>2. S[i] = S[i - 1] + f[i]
      BY <1>2, <3>1 DEF IsSum
    <3> QED
      BY <2>2, <3>1, <3>2
  <2> QED
    BY <2>1, <2>2
<1>5. R = [i \in 0 .. m |-> R[i]]
  OBVIOUS
<1>6. Eqn(R)
  <2> HIDE DEF R
  <2> QED
    BY <1>4, <1>5
<1>7. Eqn(sum)
  BY <1>6
<1> HIDE DEF sum, m
<1>8. \A i \in 0 .. m : sum[i] = IF i = 0 THEN f[0] ELSE sum[i - 1] + f[i]
  BY <1>7
<1>9. sum[0] = S[0]
  BY <1>1, <1>2, <1>8 DEF IsSum
<1>10. \A i \in 1 .. m : sum[i - 1] = S[i - 1] => sum[i] = S[i]
  <2>1. ASSUME NEW i \in 1 .. m, sum[i - 1] = S[i - 1] PROVE sum[i] = S[i]
    <3>1. i \in 0 .. m /\ i # 0
      BY <1>1
    <3>2. sum[i] = sum[i - 1] + f[i]
      BY <1>8, <3>1
    <3>3. S[i] = S[i - 1] + f[i]
      BY <1>2 DEF IsSum
    <3> QED
      BY <2>1, <3>2, <3>3
  <2> QED
    BY <2>1
<1>11. sum[m] = S[m]
  <2>1. PICK g : g = sum
    OBVIOUS
  <2>2. \A k \in 0 .. m : g[k] = S[k]
    BY <1>1, <1>9, <1>10, <2>1, SameRecursion
  <2> QED
    BY <1>1, <2>1, <2>2
<1>12. IsSum(S, f, m) /\ SumBelow(n, f) = S[m]
  BY <1>2, <1>3, <1>11
<1> QED
  BY <1>12 DEF m

(* A sum of integers is one.                                               *)
LEMMA SumBelowType ==
    ASSUME NEW n \in Nat \ {0}, NEW f, \A k \in 0 .. n - 1 : f[k] \in Int
    PROVE  SumBelow(n, f) \in Int
<1>1. n - 1 \in Nat
  OBVIOUS
<1>2. PICK m \in Nat : m = n - 1
  BY <1>1
<1>3. PICK S : IsSum(S, f, m) /\ SumBelow(n, f) = S[m]
  BY <1>2, SumBelowIs
<1>4. \A k \in 0 .. m : S[k] \in Int
  BY <1>3, SumType
<1> QED
  BY <1>3, <1>4

(* Sums are linear.                                                        *)
LEMMA SumBelowLinear ==
    ASSUME NEW n \in Nat \ {0}, NEW f, NEW g, NEW h, NEW a \in Int, NEW b \in Int,
           \A k \in 0 .. n - 1 : f[k] \in Int /\ g[k] \in Int,
           \A k \in 0 .. n - 1 : h[k] = a * f[k] + b * g[k]
    PROVE  SumBelow(n, h) = a * SumBelow(n, f) + b * SumBelow(n, g)
<1>1. PICK m \in Nat : m = n - 1
  OBVIOUS
<1>2. \A k \in 0 .. m : f[k] \in Int /\ g[k] \in Int
  BY <1>1
<1>3. \A k \in 0 .. m : h[k] = a * f[k] + b * g[k]
  BY <1>1
<1>4. \A k \in 0 .. m : h[k] \in Int
  BY <1>2, <1>3
<1>5. PICK S : IsSum(S, f, m) /\ SumBelow(n, f) = S[m]
  BY <1>1, <1>2, SumBelowIs
<1>6. PICK T : IsSum(T, g, m) /\ SumBelow(n, g) = T[m]
  BY <1>1, <1>2, SumBelowIs
<1>7. PICK U : IsSum(U, h, m) /\ SumBelow(n, h) = U[m]
  BY <1>1, <1>4, SumBelowIs
<1>8. Combines(h, a, f, b, g, m)
  BY <1>3 DEF Combines
<1>9. U[m] = a * S[m] + b * T[m]
  BY <1>2, <1>5, <1>6, <1>7, <1>8, SumLinear
<1> QED
  BY <1>5, <1>6, <1>7, <1>9

(* Sums of the same values are the same.                                   *)
LEMMA SumBelowEqual ==
    ASSUME NEW n \in Nat \ {0}, NEW f, NEW g,
           \A k \in 0 .. n - 1 : f[k] \in Int /\ f[k] = g[k]
    PROVE  SumBelow(n, f) = SumBelow(n, g)
<1>1. PICK m \in Nat : m = n - 1
  OBVIOUS
<1>2. \A k \in 0 .. m : f[k] \in Int
  BY <1>1
<1>3. \A k \in 0 .. m : g[k] \in Int
  BY <1>1
<1>4. \A k \in 0 .. m : f[k] = g[k]
  BY <1>1
<1>5. PICK S : IsSum(S, f, m) /\ SumBelow(n, f) = S[m]
  BY <1>1, <1>2, SumBelowIs
<1>6. PICK T : IsSum(T, g, m) /\ SumBelow(n, g) = T[m]
  BY <1>1, <1>3, SumBelowIs
<1> QED
  BY <1>4, <1>5, <1>6, SumUnique

(* Sums of congruent values are congruent.                                 *)
LEMMA SumBelowSame ==
    ASSUME NEW n \in Nat \ {0}, NEW f, NEW g,
           \A k \in 0 .. n - 1 : f[k] \in Int /\ g[k] \in Int,
           \A k \in 0 .. n - 1 : Same(f[k], g[k])
    PROVE  Same(SumBelow(n, f), SumBelow(n, g))
<1>1. PICK m \in Nat : m = n - 1
  OBVIOUS
<1>2. \A k \in 0 .. m : f[k] \in Int
  BY <1>1
<1>3. \A k \in 0 .. m : g[k] \in Int
  BY <1>1
<1>4. PICK M \in Nat \ {0} : M = P
  BY Constants
<1>5. \A k \in 0 .. m : f[k] \in Int /\ g[k] \in Int /\ f[k] % M = g[k] % M
  BY <1>1, <1>4 DEF Same
<1>6. PICK S : IsSum(S, f, m) /\ SumBelow(n, f) = S[m]
  BY <1>1, <1>2, SumBelowIs
<1>7. PICK T : IsSum(T, g, m) /\ SumBelow(n, g) = T[m]
  BY <1>1, <1>3, SumBelowIs
<1>8. \A k \in 0 .. m : S[k] % M = T[k] % M
  BY <1>5, <1>6, <1>7, SumModSame
<1>9. S[m] % M = T[m] % M
  BY <1>8
<1> QED
  BY <1>4, <1>6, <1>7, <1>9 DEF Same

(* A sum of which one term is not 0 is that term.                          *)
LEMMA SumBelowSingle ==
    ASSUME NEW n \in Nat \ {0}, NEW f, NEW l \in 0 .. n - 1, f[l] \in Int,
           \A k \in 0 .. n - 1 : k # l => f[k] = 0
    PROVE  SumBelow(n, f) = f[l]
<1>1. PICK m \in Nat : m = n - 1
  OBVIOUS
<1>2. \A k \in 0 .. m : f[k] \in Int
  BY <1>1
<1>3. PICK S : IsSum(S, f, m) /\ SumBelow(n, f) = S[m]
  BY <1>1, <1>2, SumBelowIs
<1> DEFINE T == {k \in 0 .. m : S[k] = IF k < l THEN 0 ELSE f[l]}
<1>4. 0 \in T
  <2>1. S[0] = f[0]
    BY <1>3 DEF IsSum
  <2> QED
    BY <1>1, <2>1
<1>5. ASSUME NEW k \in 1 .. m, k - 1 \in T PROVE k \in T
  <2>1. S[k] = S[k - 1] + f[k]
    BY <1>3 DEF IsSum
  <2>2. S[k - 1] = IF k - 1 < l THEN 0 ELSE f[l]
    BY <1>5
  <2>3. k # l => f[k] = 0
    BY <1>1
  <2>4. S[k] = IF k < l THEN 0 ELSE f[l]
    BY <2>1, <2>2, <2>3
  <2> QED
    BY <2>4
<1> HIDE DEF T
<1>6. \A k \in 0 .. m : k \in T
  BY <1>4, <1>5, InductionUpTo
<1>7. m \in T
  BY <1>6
<1> QED
  BY <1>1, <1>3, <1>7 DEF T

(* The sum of the sums,                                                    *)
LEMMA SumBelowPlus ==
    ASSUME NEW n \in Nat \ {0}, NEW f, NEW g, NEW h,
           \A k \in 0 .. n - 1 : f[k] \in Int /\ g[k] \in Int,
           \A k \in 0 .. n - 1 : h[k] = f[k] + g[k]
    PROVE  SumBelow(n, h) = SumBelow(n, f) + SumBelow(n, g)
<1>1. PICK one \in Int : one = 1
  OBVIOUS
<1>2. \A x \in Int : one * x = x
  BY <1>1
<1>3. \A k \in 0 .. n - 1 : h[k] = one * f[k] + one * g[k]
  BY <1>2
<1>4. SumBelow(n, h) = one * SumBelow(n, f) + one * SumBelow(n, g)
  BY <1>3, SumBelowLinear
<1>5. SumBelow(n, f) \in Int
  BY SumBelowType
<1>6. SumBelow(n, g) \in Int
  BY SumBelowType
<1> QED
  BY <1>2, <1>4, <1>5, <1>6

(* and of a table, which is added up row by row or column by column.       *)
LEMMA Exchange ==
    ASSUME NEW m \in Nat \ {0}, NEW n \in Nat \ {0}, NEW t, IsTable(t, m, n),
           NEW r, RowSums(r, t, m, n), NEW c, ColumnSums(c, t, m, n)
    PROVE  SumBelow(m, r) = SumBelow(n, c)
<1>1. PICK l \in Nat : l = m - 1
  OBVIOUS
<1>2. ASSUME NEW p \in 0 .. l PROVE \A j \in 0 .. n - 1 : t[p][j] \in Int
  BY <1>1 DEF IsTable
<1>3. ASSUME NEW p \in 0 .. l PROVE r[p] \in Int /\ r[p] = SumBelow(n, t[p])
  <2>1. PICK f : f = t[p]
    OBVIOUS
  <2>2. \A j \in 0 .. n - 1 : f[j] \in Int
    BY <1>2, <2>1
  <2>3. SumBelow(n, f) \in Int
    BY <2>2, SumBelowType
  <2> QED
    BY <1>1, <2>1, <2>3 DEF RowSums
<1> DEFINE Good(j, s) == IsSum(s, Column(t, j, m), l) /\ c[j] = s[l]
           S == [j \in 0 .. n - 1 |-> CHOOSE s : Good(j, s)]
<1>4. ASSUME NEW j \in 0 .. n - 1 PROVE Good(j, S[j])
  <2>1. PICK f : f = Column(t, j, m)
    OBVIOUS
  <2>2. \A p \in 0 .. m - 1 : f[p] \in Int
    BY <1>1, <1>2, <2>1 DEF Column
  <2>3. PICK s : IsSum(s, f, m - 1) /\ SumBelow(m, f) = s[m - 1]
    BY <2>2, SumBelowIs
  <2>4. Good(j, s)
    BY <1>1, <2>1, <2>3 DEF ColumnSums
  <2> HIDE DEF Good
  <2> QED
    BY <2>4
<1> HIDE DEF S
<1>5. ASSUME NEW j \in 0 .. n - 1
      PROVE  /\ S[j][0] = t[0][j]
             /\ \A k \in 1 .. l : S[j][k] = S[j][k - 1] + t[k][j]
             /\ \A k \in 0 .. l : S[j][k] \in Int
             /\ c[j] = S[j][l]
  <2>1. PICK s, f : s = S[j] /\ f = Column(t, j, m)
    OBVIOUS
  <2>2. IsSum(s, f, l) /\ c[j] = s[l]
    BY <1>4, <2>1
  <2>3. \A p \in 0 .. l : f[p] = t[p][j]
    BY <1>1, <2>1 DEF Column
  <2>4. s[0] = f[0] /\ \A k \in 1 .. l : s[k] = s[k - 1] + f[k]
    BY <2>2 DEF IsSum
  <2>5. \A k \in 0 .. l : s[k] \in Int
    BY <2>2 DEF IsSum
  <2>6. s[0] = t[0][j] /\ \A k \in 1 .. l : s[k] = s[k - 1] + t[k][j]
    BY <2>3, <2>4
  <2> QED
    BY <2>1, <2>2, <2>5, <2>6
<1>6. PICK R : IsSum(R, r, l) /\ SumBelow(m, r) = R[l]
  BY <1>1, <1>3, SumBelowIs
<1> DEFINE h(k) == [j \in 0 .. n - 1 |-> S[j][k]]
           T == {k \in 0 .. l : R[k] = SumBelow(n, h(k))}
<1>7. 0 \in T
  <2>1. R[0] = SumBelow(n, t[0])
    BY <1>3, <1>6 DEF IsSum
  <2>2. PICK f, g : f = t[0] /\ g = h(0)
    OBVIOUS
  <2>3. \A j \in 0 .. n - 1 : f[j] \in Int /\ f[j] = g[j]
    BY <1>2, <1>5, <2>2
  <2>4. SumBelow(n, f) = SumBelow(n, g)
    BY <2>3, SumBelowEqual
  <2> QED
    BY <2>1, <2>2, <2>4
<1>8. ASSUME NEW k \in 1 .. l, k - 1 \in T PROVE k \in T
  <2>1. R[k] = R[k - 1] + r[k]
    BY <1>6 DEF IsSum
  <2>2. PICK f, g, u : f = h(k - 1) /\ g = t[k] /\ u = h(k)
    OBVIOUS
  <2>3. \A j \in 0 .. n - 1 : f[j] \in Int /\ g[j] \in Int
    <3>1. k - 1 \in 0 .. l /\ k \in 0 .. l
      OBVIOUS
    <3>2. \A j \in 0 .. n - 1 : f[j] \in Int
      BY <1>5, <2>2, <3>1
    <3>3. \A j \in 0 .. n - 1 : g[j] \in Int
      BY <1>2, <2>2, <3>1
    <3> QED
      BY <3>2, <3>3
  <2>4. \A j \in 0 .. n - 1 : u[j] = f[j] + g[j]
    BY <1>5, <2>2
  <2>5. SumBelow(n, u) = SumBelow(n, f) + SumBelow(n, g)
    BY <2>3, <2>4, SumBelowPlus
  <2>6. R[k - 1] = SumBelow(n, f)
    BY <1>8, <2>2
  <2>7. r[k] = SumBelow(n, g)
    BY <1>3, <2>2
  <2>8. R[k] = SumBelow(n, u)
    BY <2>1, <2>5, <2>6, <2>7
  <2> QED
    BY <2>2, <2>8
<1>9. R[l] = SumBelow(n, h(l))
  <2>1. l \in T
    <3> HIDE DEF T
    <3>1. \A k \in 0 .. l : k \in T
      BY <1>7, <1>8, InductionUpTo
    <3> QED
      BY <3>1
  <2> QED
    BY <2>1
<1>10. SumBelow(n, h(l)) = SumBelow(n, c)
  <2>1. PICK f : f = h(l)
    OBVIOUS
  <2>2. \A j \in 0 .. n - 1 : f[j] \in Int /\ f[j] = c[j]
    BY <1>5, <2>1
  <2>3. SumBelow(n, f) = SumBelow(n, c)
    BY <2>2, SumBelowEqual
  <2> QED
    BY <2>1, <2>3
<1> QED
  BY <1>6, <1>9, <1>10

(* A sum of nothing but 0.                                                 *)
LEMMA SumBelowZero ==
    ASSUME NEW n \in Nat \ {0}, NEW f, \A k \in 0 .. n - 1 : f[k] = 0
    PROVE  SumBelow(n, f) = 0
<1>1. PICK l \in 0 .. n - 1 : l = 0
  OBVIOUS
<1>2. \A k \in 0 .. n - 1 : k # l => f[k] = 0
  OBVIOUS
<1>3. f[l] = 0
  OBVIOUS
<1> QED
  BY <1>2, <1>3, SumBelowSingle

-----------------------------------------------------------------------------

(* Congruence is a difference of a multiple of P.                          *)
LEMMA SameBy ==
    ASSUME NEW x \in Int, NEW y \in Int, NEW k \in Int, x = y + P * k
    PROVE  Same(x, y)
<1>1. PICK m \in Nat \ {0} : m = P
  BY Constants
<1>2. (y + m * k) % m = y % m
  BY ModShift
<1> QED
  BY <1>1, <1>2 DEF Same

(* What is congruent differs by a multiple of the modulus.                 *)
LEMMA SameDiffers ==
    ASSUME NEW x \in Int, NEW y \in Int, Same(x, y)
    PROVE  \E k \in Int : x = y + P * k
<1>1. PICK m \in Nat \ {0} : m = P
  BY Constants
<1>2. x % m = y % m
  BY <1>1 DEF Same
<1>3. PICK k \in Int : x = y + m * k
  BY <1>2, ModSame
<1> QED
  BY <1>1, <1>3

(* It respects addition, subtraction and multiplication,                   *)
LEMMA SameRing ==
    ASSUME NEW x \in Int, NEW y \in Int, NEW u \in Int, NEW v \in Int,
           Same(x, y), Same(u, v)
    PROVE  /\ Same(x + u, y + v)
           /\ Same(x - u, y - v)
           /\ Same(x * u, y * v)
           /\ Same(-x, -y)
<1>1. PICK k \in Int : x = y + P * k
  BY SameDiffers
<1>2. PICK l \in Int : u = v + P * l
  BY SameDiffers
<1>3. P \in Int
  BY Constants
<1>4. Same(x + u, y + v)
  <2>1. x + u = (y + v) + P * (k + l)
    BY <1>1, <1>2, <1>3
  <2>2. PICK a, b, c : a = x + u /\ b = y + v /\ c = k + l
    OBVIOUS
  <2>3. a \in Int /\ b \in Int /\ c \in Int
    BY <2>2
  <2>4. a = b + P * c
    BY <2>1, <2>2
  <2> QED
    BY <2>2, <2>3, <2>4, SameBy
<1>5. Same(x - u, y - v)
  <2>1. x - u = (y - v) + P * (k - l)
    BY <1>1, <1>2, <1>3
  <2>2. PICK a, b, c : a = x - u /\ b = y - v /\ c = k - l
    OBVIOUS
  <2>3. a \in Int /\ b \in Int /\ c \in Int
    BY <2>2
  <2>4. a = b + P * c
    BY <2>1, <2>2
  <2> QED
    BY <2>2, <2>3, <2>4, SameBy
<1>6. Same(x * u, y * v)
  <2>1. x * u = (y * v) + P * (k * u + y * l)
    <3>1. x * u = y * u + (P * k) * u
      BY <1>1, <1>3
    <3>2. y * u = y * v + y * (P * l)
      BY <1>2, <1>3
    <3>3. (P * k) * u = P * (k * u)
      BY <1>3
    <3>4. y * (P * l) = P * (y * l)
      BY <1>3
    <3>5. P * (k * u) + P * (y * l) = P * (k * u + y * l)
      BY <1>3
    <3>6. PICK a, b, c, d, e : /\ a = y * u /\ b = y * v /\ c = P * (k * u)
                               /\ d = P * (y * l) /\ e = P * (k * u + y * l)
      OBVIOUS
    <3>7. a \in Int /\ b \in Int /\ c \in Int /\ d \in Int /\ e \in Int
      BY <1>3, <3>6
    <3>8. x * u = a + c /\ a = b + d /\ c + d = e
      BY <3>1, <3>2, <3>3, <3>4, <3>5, <3>6
    <3>9. x * u = b + e
      BY <3>7, <3>8
    <3> QED
      BY <3>6, <3>9
  <2>2. PICK a, b, c : a = x * u /\ b = y * v /\ c = k * u + y * l
    OBVIOUS
  <2>3. a \in Int /\ b \in Int /\ c \in Int
    BY <2>2
  <2>4. a = b + P * c
    BY <2>1, <2>2
  <2> QED
    BY <2>2, <2>3, <2>4, SameBy
<1>7. Same(-x, -y)
  <2>1. -x = (-y) + P * (-k)
    BY <1>1, <1>3
  <2>2. PICK a, b, c : a = -x /\ b = -y /\ c = -k
    OBVIOUS
  <2>3. a \in Int /\ b \in Int /\ c \in Int
    BY <2>2
  <2>4. a = b + P * c
    BY <2>1, <2>2
  <2> QED
    BY <2>2, <2>3, <2>4, SameBy
<1> QED
  BY <1>4, <1>5, <1>6, <1>7

(* and a number is congruent to its remainder, which is the only one among *)
(* 0 .. P - 1.                                                             *)
LEMMA SameMod ==
    ASSUME NEW x \in Int
    PROVE  Same(x % P, x) /\ Same(x, x % P) /\ x % P \in 0 .. P - 1
<1>1. PICK m \in Nat \ {0} : m = P
  BY Constants
<1>2. PICK r \in 0 .. m - 1 : r = x % m
  OBVIOUS
<1>3. r % m = r
  BY ModSmall
<1> QED
  BY <1>1, <1>2, <1>3 DEF Same

(* Residues that are congruent are equal.                                  *)
LEMMA SameResidue ==
    ASSUME NEW x \in 0 .. P - 1, NEW y \in 0 .. P - 1, Same(x, y)
    PROVE  x = y
<1>1. PICK m \in Nat \ {0} : m = P
  BY Constants
<1>2. x % m = x
  BY <1>1, ModSmall
<1>3. y % m = y
  BY <1>1, ModSmall
<1> QED
  BY <1>1, <1>2, <1>3 DEF Same

(* Congruence is transitive.                                               *)
LEMMA SameTrans ==
    ASSUME NEW x, NEW y, NEW z, Same(x, y), Same(y, z)
    PROVE  Same(x, z)
BY DEF Same

(* Congruence is symmetric.                                                *)
LEMMA SameSym ==
    ASSUME NEW x, NEW y, Same(x, y)
    PROVE  Same(y, x)
BY DEF Same

(* Congruence is reflexive.                                                *)
LEMMA SameSelf == \A x : Same(x, x)
BY DEF Same

-----------------------------------------------------------------------------

(* Signs.                                                                  *)
LEMMA SignedFacts ==
    ASSUME NEW k \in Int, NEW x \in Int
    PROVE  /\ Signed(k, x) \in Int
           /\ Signed(k, -x) = -Signed(k, x)
           /\ Signed(-k, x) = Signed(k, x)
           /\ Signed(0, x) = x
           /\ Signed(1, x) = -x
           /\ Signed(k + 1, x) = -Signed(k, x)
           /\ Signed(k - 1, x) = -Signed(k, x)
           /\ Signed(k, Signed(k, x)) = x
<1>1. k % 2 \in {0, 1} /\ (-k) % 2 = k % 2
  OBVIOUS
<1>2. k % 2 = 0 <=> (k + 1) % 2 # 0
  OBVIOUS
<1>3. k % 2 = 0 <=> (k - 1) % 2 # 0
  OBVIOUS
<1> QED
  BY <1>1, <1>2, <1>3 DEF Signed

(* Signs multiply.                                                         *)
LEMMA SignedPlus ==
    ASSUME NEW k \in Int, NEW l \in Int, NEW x \in Int
    PROVE  Signed(k + l, x) = Signed(k, Signed(l, x))
<1>1. (k + l) % 2 = 0 <=> (k % 2 = 0 <=> l % 2 = 0)
  OBVIOUS
<1> QED
  BY <1>1 DEF Signed

(* A factor of a product gives the product its sign.                       *)
LEMMA SignedTimes ==
    ASSUME NEW k \in Int, NEW x \in Int, NEW y \in Int
    PROVE  Signed(k, x * y) = Signed(k, x) * y
BY DEF Signed

(* Congruence is kept by a sign.                                           *)
LEMMA SignedSame ==
    ASSUME NEW k \in Int, NEW x \in Int, NEW y \in Int, Same(x, y)
    PROVE  Same(Signed(k, x), Signed(k, y))
<1>1. Same(-x, -y)
  BY SameRing
<1> QED
  BY <1>1 DEF Signed

(* A place of the integers within a period.                                *)
LEMMA Place ==
    ASSUME NEW len \in Nat \ {0}, NEW x \in Int
    PROVE  \E k \in Int, i \in 0 .. len - 1 :
               x = i + len * k /\ k = x \div len /\ i = x % len
<1>1. /\ x % len \in 0 .. len - 1 /\ x \div len \in Int
      /\ x = len * (x \div len) + (x % len)
  BY DivMod
<1> QED
  BY <1>1

(* A wave has integers.                                                    *)
LEMMA WaveType ==
    ASSUME NEW len, NEW A, Wave(A, len), NEW x \in Int
    PROVE  A[x] \in Int
BY DEF Wave

(* A polynomial that goes on is a wave, and begins with the polynomial.    *)
LEMMA WaveOfIsWave ==
    ASSUME NEW len \in Nat \ {0}, NEW f, IsPoly(f, len)
    PROVE  /\ Wave(WaveOf(f, len), len)
           /\ \A i \in 0 .. len - 1 : WaveOf(f, len)[i] = f[i]
<1> DEFINE A == WaveOf(f, len)
<1>1. ASSUME NEW i \in 0 .. len - 1, NEW k \in Int
      PROVE  A[len * k + i] = Signed(k, f[i]) /\ A[len * k + i] \in Int
  <2>1. PICK x \in Int : x = len * k + i
    OBVIOUS
  <2>2. x % len = i /\ x \div len = k
    BY <2>1, DivModUnique
  <2>3. f[i] \in Int
    BY DEF IsPoly
  <2> QED
    BY <2>1, <2>2, <2>3, SignedFacts DEF WaveOf
<1>2. ASSUME NEW i \in 0 .. len - 1 PROVE A[i] = f[i]
  <2>1. PICK z \in Int : z = 0
    OBVIOUS
  <2>2. len * z + i = i
    BY <2>1
  <2>3. A[len * z + i] = Signed(z, f[i])
    BY <1>1
  <2>4. f[i] \in Int
    BY DEF IsPoly
  <2> QED
    BY <2>1, <2>2, <2>3, <2>4, SignedFacts
<1>3. ASSUME NEW x \in Int, NEW k \in Int PROVE A[x + len * k] = Signed(k, A[x])
  <2>1. PICK l \in Int, i \in 0 .. len - 1 : x = i + len * l
    BY Place
  <2>2. PICK m \in Int : m = k + l
    OBVIOUS
  <2>3. x = len * l + i /\ x + len * k = len * m + i
    BY <2>1, <2>2
  <2>4. A[len * l + i] = Signed(l, f[i])
    BY <1>1
  <2>5. A[len * m + i] = Signed(m, f[i])
    BY <1>1
  <2>6. f[i] \in Int
    BY DEF IsPoly
  <2>7. Signed(k + l, f[i]) = Signed(k, Signed(l, f[i]))
    BY <2>6, SignedPlus
  <2> QED
    BY <2>2, <2>3, <2>4, <2>5, <2>7
<1>4. A \in [Int -> Int]
  <2>1. ASSUME NEW x \in Int PROVE A[x] \in Int
    <3>1. PICK l \in Int, i \in 0 .. len - 1 : x = i + len * l
      BY Place
    <3>2. x = len * l + i
      BY <3>1
    <3> QED
      BY <1>1, <3>2
  <2> QED
    BY <2>1 DEF WaveOf
<1> QED
  BY <1>2, <1>3, <1>4 DEF Wave

(* A shifted wave is one.                                                  *)
LEMMA ShiftIsWave ==
    ASSUME NEW len \in Nat \ {0}, NEW A, Wave(A, len), NEW d \in Int
    PROVE  Wave(Shift(A, d), len)
<1>1. ASSUME NEW x \in Int, NEW k \in Int
      PROVE  Shift(A, d)[x + len * k] = Signed(k, Shift(A, d)[x])
  <2>1. PICK y \in Int : y = x - d
    OBVIOUS
  <2>2. PICK z \in Int : z = x + len * k
    OBVIOUS
  <2>3. z - d = y + len * k
    BY <2>1, <2>2
  <2>4. A[y + len * k] = Signed(k, A[y])
    BY DEF Wave
  <2> QED
    BY <2>1, <2>2, <2>3, <2>4 DEF Shift
<1>2. Shift(A, d) \in [Int -> Int]
  BY DEF Shift, Wave
<1> QED
  BY <1>1, <1>2 DEF Wave

(* Waves that are congruent for a period are congruent.                    *)
LEMMA WavesSame ==
    ASSUME NEW len \in Nat \ {0}, NEW A, NEW B, Wave(A, len), Wave(B, len),
           \A i \in 0 .. len - 1 : Same(A[i], B[i]),
           NEW x \in Int
    PROVE  Same(A[x], B[x])
<1>1. PICK l \in Int, i \in 0 .. len - 1 : x = i + len * l
  BY Place
<1>2. A[i + len * l] = Signed(l, A[i]) /\ B[i + len * l] = Signed(l, B[i])
  BY DEF Wave
<1>3. A[i] \in Int /\ B[i] \in Int
  BY DEF Wave
<1>4. Same(Signed(l, A[i]), Signed(l, B[i]))
  BY <1>3, SignedSame
<1> QED
  BY <1>1, <1>2, <1>4

(* A polynomial that is represented by a wave is congruent to it when it   *)
(* goes on.                                                                *)
LEMMA RepresentsAll ==
    ASSUME NEW len \in Nat \ {0}, NEW f, NEW A, Represents(f, A, len), NEW x \in Int
    PROVE  WaveOf(f, len)[x] \in Int /\ Same(WaveOf(f, len)[x], A[x])
<1>1. IsPoly(f, len) /\ Wave(A, len) /\ \A i \in 0 .. len - 1 : Same(f[i], A[i])
  BY DEF Represents
<1>2. PICK B : B = WaveOf(f, len)
  OBVIOUS
<1>3. Wave(B, len) /\ \A i \in 0 .. len - 1 : B[i] = f[i]
  BY <1>1, <1>2, WaveOfIsWave
<1>4. \A i \in 0 .. len - 1 : Same(B[i], A[i])
  BY <1>1, <1>3
<1> QED
  BY <1>1, <1>2, <1>3, <1>4, WavesSame, WaveType

(* MulMonomial shifts.                                                     *)
LEMMA MonomialAt ==
    ASSUME NEW len \in Nat \ {0}, NEW f, IsPoly(f, len), NEW d \in Nat,
           NEW i \in 0 .. len - 1
    PROVE  /\ MulMonomial(f, d, len)[i] \in Int
           /\ Same(MulMonomial(f, d, len)[i], WaveOf(f, len)[i - d])
<1>1. PICK q \in Int, r \in 0 .. len - 1 : d = r + len * q /\ q = d \div len /\ r = d % len
  BY Place
<1> DEFINE a == IF i < r THEN 1 ELSE 0
           flips == a + q
           j == i - r + (IF i < r THEN len ELSE 0)
<1>2. j \in 0 .. len - 1 /\ flips \in Int
  OBVIOUS
<1>3. i - d = len * (-flips) + j
  <2>1. CASE i < r
    <3>1. len * (-flips) = -len - len * q
      BY <2>1
    <3> QED
      BY <1>1, <2>1, <3>1
  <2>2. CASE i >= r
    <3>1. len * (-flips) = - (len * q)
      BY <2>2
    <3> QED
      BY <1>1, <2>2, <3>1
  <2> QED
    BY <2>1, <2>2
<1> HIDE DEF j, flips
<1>4. (i - d) % len = j /\ (i - d) \div len = -flips
  <2>1. PICK m \in Int : m = -flips
    BY <1>2
  <2>2. (len * m + j) % len = j /\ (len * m + j) \div len = m
    BY <1>2, <2>1, DivModUnique
  <2> QED
    BY <1>3, <2>1, <2>2
<1>5. f[j] \in Int
  BY <1>2 DEF IsPoly
<1>6. MulMonomial(f, d, len)[i] = IF flips % 2 = 0 THEN f[j] ELSE (-f[j]) % P
  BY <1>1, <1>4 DEF MulMonomial, flips
<1>7. i - d \in Int
  OBVIOUS
<1>8. WaveOf(f, len)[i - d] = Signed(flips, f[j])
  <2>1. WaveOf(f, len)[i - d] = Signed(-flips, f[j])
    BY <1>4, <1>7 DEF WaveOf
  <2> QED
    BY <1>2, <1>5, <2>1, SignedFacts
<1>9. CASE flips % 2 = 0
  BY <1>5, <1>6, <1>8, <1>9, SameSelf DEF Signed
<1>10. CASE flips % 2 # 0
  <2>1. PICK y \in Int : y = -f[j]
    BY <1>5
  <2>2. Same(y % P, y) /\ y % P \in 0 .. P - 1
    BY SameMod
  <2> QED
    BY <1>6, <1>8, <1>10, <2>1, <2>2, Constants DEF Signed
<1> QED
  BY <1>9, <1>10

(* X^d * f is represented by the wave of f, shifted by d.                  *)
LEMMA MonomialRepresents ==
    ASSUME NEW len \in Nat \ {0}, NEW f, NEW A, Represents(f, A, len), NEW d \in Nat
    PROVE  Represents(MulMonomial(f, d, len), Shift(A, d), len)
<1>1. IsPoly(f, len) /\ Wave(A, len)
  BY DEF Represents
<1>2. Wave(Shift(A, d), len)
  BY <1>1, ShiftIsWave
<1>3. ASSUME NEW i \in 0 .. len - 1
      PROVE  /\ MulMonomial(f, d, len)[i] \in Int
             /\ Same(MulMonomial(f, d, len)[i], Shift(A, d)[i])
  <2>1. /\ MulMonomial(f, d, len)[i] \in Int
        /\ Same(MulMonomial(f, d, len)[i], WaveOf(f, len)[i - d])
    BY <1>1, MonomialAt
  <2>2. PICK x \in Int : x = i - d
    OBVIOUS
  <2>3. Same(WaveOf(f, len)[x], A[x])
    BY RepresentsAll
  <2>4. Shift(A, d)[i] = A[x]
    BY <2>2 DEF Shift
  <2> QED
    BY <2>1, <2>2, <2>3, <2>4, SameTrans
<1> QED
  BY <1>2, <1>3 DEF Represents, IsPoly

(* A common factor comes out of a sum.                                     *)
LEMMA SumBelowScale ==
    ASSUME NEW n \in Nat \ {0}, NEW f, NEW h, NEW a \in Int,
           \A k \in 0 .. n - 1 : f[k] \in Int,
           \A k \in 0 .. n - 1 : h[k] = a * f[k]
    PROVE  SumBelow(n, h) = a * SumBelow(n, f)
<1>1. PICK z \in Int : z = 0
  OBVIOUS
<1>2. ASSUME NEW k \in 0 .. n - 1 PROVE h[k] = a * f[k] + z * f[k]
  <2>1. PICK y \in Int : y = a * f[k]
    OBVIOUS
  <2>2. z * f[k] = 0
    BY <1>1
  <2> QED
    BY <2>1, <2>2
<1>3. \A k \in 0 .. n - 1 : f[k] \in Int /\ f[k] \in Int
  OBVIOUS
<1>4. SumBelow(n, h) = a * SumBelow(n, f) + z * SumBelow(n, f)
  BY <1>2, <1>3, SumBelowLinear
<1>5. SumBelow(n, f) \in Int
  BY SumBelowType
<1>6. z * SumBelow(n, f) = 0 /\ a * SumBelow(n, f) \in Int
  BY <1>1, <1>5
<1> QED
  BY <1>4, <1>6

(* The value of a product at a place.                                      *)
LEMMA ProductAt ==
    ASSUME NEW n \in Nat \ {0}, NEW A \in [Int -> Int], NEW g, IsPoly(g, n), NEW x \in Int,
           NEW f, Terms(f, A, g, n, x)
    PROVE  /\ Product(A, g, n)[x] = SumBelow(n, f)
           /\ Product(A, g, n)[x] \in Int
           /\ \A j \in 0 .. n - 1 : f[j] \in Int
<1> DEFINE h == [j \in 0 .. n - 1 |-> A[x - j] * g[j]]
<1>1. Product(A, g, n)[x] = SumBelow(n, h)
  BY DEF Product
<1>2. ASSUME NEW j \in 0 .. n - 1 PROVE h[j] \in Int /\ h[j] = f[j]
  <2>1. A[x - j] \in Int /\ g[j] \in Int
    BY DEF IsPoly
  <2> QED
    BY <2>1 DEF Terms
<1> HIDE DEF h
<1>3. SumBelow(n, h) = SumBelow(n, f)
  BY <1>2, SumBelowEqual
<1>4. SumBelow(n, h) \in Int
  BY <1>2, SumBelowType
<1> QED
  BY <1>1, <1>2, <1>3, <1>4

(* The product of a wave with a polynomial is a wave of the same length.   *)
LEMMA ProductIsWave ==
    ASSUME NEW len \in Nat \ {0}, NEW n \in Nat \ {0},
           NEW A, Wave(A, len), NEW g, IsPoly(g, n)
    PROVE  Wave(Product(A, g, n), len)
<1>1. A \in [Int -> Int]
  BY DEF Wave
<1>2. ASSUME NEW x \in Int
      PROVE  \E f : /\ Terms(f, A, g, n, x)
                    /\ Product(A, g, n)[x] = SumBelow(n, f)
                    /\ Product(A, g, n)[x] \in Int
                    /\ \A j \in 0 .. n - 1 : f[j] \in Int
  <2>1. PICK f : Terms(f, A, g, n, x)
    <3>1. Terms([i \in 0 .. n - 1 |-> A[x - i] * g[i]], A, g, n, x)
      BY DEF Terms
    <3> QED
      BY <3>1
  <2> QED
    BY <1>1, <2>1, ProductAt
<1>3. ASSUME NEW x \in Int, NEW k \in Int
      PROVE  Product(A, g, n)[x + len * k] = Signed(k, Product(A, g, n)[x])
  <2>1. PICK y \in Int : y = x + len * k
    OBVIOUS
  <2>2. PICK f : /\ Terms(f, A, g, n, x)
                 /\ Product(A, g, n)[x] = SumBelow(n, f)
                 /\ Product(A, g, n)[x] \in Int
                 /\ \A j \in 0 .. n - 1 : f[j] \in Int
    BY <1>2
  <2>3. PICK h : /\ Terms(h, A, g, n, y)
                 /\ Product(A, g, n)[y] = SumBelow(n, h)
    BY <1>2
  <2>4. PICK c \in Int : c = IF k % 2 = 0 THEN 1 ELSE -1
    OBVIOUS
  <2>5. \A z \in Int : Signed(k, z) = c * z
    BY <2>4 DEF Signed
  <2>6. ASSUME NEW j \in 0 .. n - 1 PROVE h[j] = c * f[j]
    <3>1. PICK z \in Int : z = x - j
      OBVIOUS
    <3>2. y - j = z + len * k
      BY <2>1, <3>1
    <3>3. A[z + len * k] = Signed(k, A[z])
      BY DEF Wave
    <3>4. A[z] \in Int /\ g[j] \in Int
      BY <1>1 DEF IsPoly
    <3>5. h[j] = (c * A[z]) * g[j]
      BY <2>3, <2>5, <3>2, <3>3, <3>4 DEF Terms
    <3>6. f[j] = A[z] * g[j]
      BY <2>2, <3>1 DEF Terms
    <3> QED
      BY <3>4, <3>5, <3>6
  <2>7. SumBelow(n, h) = c * SumBelow(n, f)
    BY <2>2, <2>6, SumBelowScale
  <2> QED
    BY <2>1, <2>2, <2>3, <2>5, <2>7
<1>4. Product(A, g, n) \in [Int -> Int]
  BY <1>2 DEF Product
<1> QED
  BY <1>3, <1>4 DEF Wave

(* Products of congruent waves are congruent.                              *)
LEMMA ProductSame ==
    ASSUME NEW n \in Nat \ {0}, NEW A \in [Int -> Int], NEW B \in [Int -> Int],
           NEW g, NEW h, IsPoly(g, n), IsPoly(h, n),
           \A x \in Int : Same(A[x], B[x]),
           \A j \in 0 .. n - 1 : Same(g[j], h[j]),
           NEW x \in Int
    PROVE  Same(Product(A, g, n)[x], Product(B, h, n)[x])
<1>1. PICK u : u = [j \in 0 .. n - 1 |-> A[x - j] * g[j]]
  OBVIOUS
<1>2. PICK v : v = [j \in 0 .. n - 1 |-> B[x - j] * h[j]]
  OBVIOUS
<1>3. Terms(u, A, g, n, x)
  BY <1>1 DEF Terms
<1>4. Terms(v, B, h, n, x)
  BY <1>2 DEF Terms
<1>5. Product(A, g, n)[x] = SumBelow(n, u) /\ \A j \in 0 .. n - 1 : u[j] \in Int
  BY <1>3, ProductAt
<1>6. Product(B, h, n)[x] = SumBelow(n, v) /\ \A j \in 0 .. n - 1 : v[j] \in Int
  BY <1>4, ProductAt
<1>7. ASSUME NEW j \in 0 .. n - 1 PROVE Same(u[j], v[j])
  <2>1. PICK y \in Int : y = x - j
    OBVIOUS
  <2>2. A[y] \in Int /\ B[y] \in Int /\ g[j] \in Int /\ h[j] \in Int
    BY DEF IsPoly
  <2>3. Same(A[y], B[y]) /\ Same(g[j], h[j])
    OBVIOUS
  <2>4. Same(A[y] * g[j], B[y] * h[j])
    BY <2>2, <2>3, SameRing
  <2> QED
    BY <1>3, <1>4, <2>1, <2>4 DEF Terms
<1>8. Same(SumBelow(n, u), SumBelow(n, v))
  BY <1>5, <1>6, <1>7, SumBelowSame
<1> QED
  BY <1>5, <1>6, <1>8

(* Mul multiplies.                                                         *)
LEMMA MulRepresents ==
    ASSUME NEW len \in Nat \ {0}, NEW n \in 1 .. len, NEW f, NEW A, Represents(f, A, len),
           NEW g, IsPoly(g, n)
    PROVE  /\ Represents(Mul(f, g, len, n), Product(A, g, n), len)
           /\ \A i \in 0 .. len - 1 : Mul(f, g, len, n)[i] \in 0 .. P - 1
<1>1. IsPoly(f, len) /\ Wave(A, len)
  BY DEF Represents
<1>2. PICK B : B = WaveOf(f, len)
  OBVIOUS
<1>3. Wave(B, len) /\ \A i \in 0 .. len - 1 : B[i] = f[i]
  BY <1>1, <1>2, WaveOfIsWave
<1>4. Wave(Product(A, g, n), len)
  BY <1>1, ProductIsWave
<1>5. A \in [Int -> Int] /\ B \in [Int -> Int]
  BY <1>1, <1>3 DEF Wave
<1>6. \A x \in Int : Same(B[x], A[x])
  BY <1>2, RepresentsAll
<1>7. ASSUME NEW i \in 0 .. len - 1
      PROVE  /\ Mul(f, g, len, n)[i] \in 0 .. P - 1
             /\ Same(Mul(f, g, len, n)[i], Product(A, g, n)[i])
  <2>1. PICK u : u = [j \in 0 .. n - 1 |->
                        IF i >= j THEN f[i - j] * g[j] ELSE -(f[len + i - j] * g[j])]
    OBVIOUS
  <2>2. Mul(f, g, len, n)[i] = SumBelow(n, u) % P
    BY <2>1 DEF Mul
  <2>3. ASSUME NEW j \in 0 .. n - 1 PROVE u[j] = B[i - j] * g[j]
    <3>1. CASE i >= j
      <4>1. i - j \in 0 .. len - 1
        BY <3>1
      <4>2. B[i - j] = f[i - j]
        BY <1>3, <4>1
      <4> QED
        BY <2>1, <3>1, <4>2
    <3>2. CASE i < j
      <4>1. PICK y \in 0 .. len - 1 : y = len + i - j
        BY <3>2
      <4>2. PICK m \in Int : m = -1
        OBVIOUS
      <4>3. i - j = y + len * m
        BY <4>1, <4>2
      <4>4. B[y + len * m] = Signed(m, B[y])
        BY <1>3, <4>1 DEF Wave
      <4>5. B[y] = f[y] /\ f[y] \in Int /\ g[j] \in Int
        BY <1>1, <1>3 DEF IsPoly
      <4>6. B[i - j] = -f[y]
        BY <4>2, <4>3, <4>4, <4>5 DEF Signed
      <4>7. u[j] = -(f[y] * g[j])
        BY <2>1, <3>2, <4>1
      <4> QED
        BY <4>5, <4>6, <4>7
    <3> QED
      BY <3>1, <3>2
  <2>4. PICK x \in Int : x = i
    OBVIOUS
  <2>5. Terms(u, B, g, n, x)
    BY <2>3, <2>4 DEF Terms
  <2>6. Product(B, g, n)[x] = SumBelow(n, u) /\ Product(B, g, n)[x] \in Int
    BY <1>5, <2>5, ProductAt
  <2>7. \A j \in 0 .. n - 1 : Same(g[j], g[j])
    BY SameSelf
  <2>8. Same(Product(B, g, n)[x], Product(A, g, n)[x])
    BY <1>5, <1>6, <2>7, ProductSame
  <2>9. PICK y \in Int : y = SumBelow(n, u)
    BY <2>6
  <2>10. Same(y % P, y) /\ y % P \in 0 .. P - 1
    BY SameMod
  <2>11. Same(Mul(f, g, len, n)[i], Product(A, g, n)[i])
    BY <2>2, <2>4, <2>6, <2>8, <2>9, <2>10, SameTrans
  <2> QED
    BY <2>2, <2>9, <2>10, <2>11
<1>8. IsPoly(Mul(f, g, len, n), len)
  BY <1>7, Constants DEF IsPoly
<1> QED
  BY <1>4, <1>7, <1>8 DEF Represents

-----------------------------------------------------------------------------

(* The marks of the accumulator, and how they go on.                       *)
Mark == WaveOf(InitAcc, N)

(* generate_init_acc represents the mark: 1 or -1 at every multiple of G,  *)
(* and 0 elsewhere.                                                        *)
LEMMA MarkIs ==
    /\ Represents(InitAcc, Mark, N)
    /\ \A x \in Int : Mark[x] = IF x % G = 0 THEN Signed(x \div N, 1) ELSE 0
<1>1. IsPoly(InitAcc, N)
  BY DEF IsPoly, InitAcc
<1>2. Wave(Mark, N) /\ \A i \in 0 .. N - 1 : Mark[i] = InitAcc[i]
  BY <1>1, WaveOfIsWave, Constants DEF Mark
<1>3. Represents(InitAcc, Mark, N)
  BY <1>1, <1>2, SameSelf DEF Represents
<1>4. ASSUME NEW x \in Int PROVE Mark[x] = IF x % G = 0 THEN Signed(x \div N, 1) ELSE 0
  <2>1. PICK m \in Int : N = G * m
    <3>1. PICK k \in Int, i \in 0 .. G - 1 : N = i + G * k /\ k = N \div G /\ i = N % G
      BY Constants, Place
    <3>2. i = 0
      BY <3>1, RingElectionAssumption
    <3>3. PICK y \in Int : y = G * k
      BY <3>1, Constants
    <3>4. N = i + y
      BY <3>1, <3>3
    <3>5. N = y
      BY <3>2, <3>3, <3>4
    <3> QED
      BY <3>1, <3>3, <3>5
  <2>2. PICK k \in Int, i \in 0 .. N - 1 : x = i + N * k /\ k = x \div N /\ i = x % N
    BY Constants, Place
  <2>3. x % G = i % G
    <3>1. PICK l \in Int : l = m * k
      BY <2>1
    <3>2. G * l = N * k
      BY <2>1, <3>1, Constants
    <3>3. PICK g \in Nat \ {0}, j \in Int : g = G /\ j = i
      BY Constants
    <3>4. (j + g * l) % g = j % g
      BY ModShift
    <3> QED
      BY <2>2, <3>2, <3>3, <3>4
  <2>4. Mark[x] = Signed(k, InitAcc[i])
    BY <2>2 DEF Mark, WaveOf
  <2>5. InitAcc[i] = IF i % G = 0 THEN 1 ELSE 0
    BY DEF InitAcc
  <2> QED
    BY <2>2, <2>3, <2>4, <2>5 DEF Signed
<1> QED
  BY <1>3, <1>4

(* The chain of external products, step by step.                           *)
IsChain(acc, count) ==
    /\ acc[0] = InitAcc
    /\ \A k \in 1 .. count : acc[k] = Rotate(acc[k - 1], degree[k - 1])

(* external_product_chain, step by step.                                   *)
LEMMA RotatedIs ==
    ASSUME NEW count \in Nat, \A k \in 0 .. count - 1 : degree[k] \in Nat
    PROVE  \E acc : IsChain(acc, count) /\ Rotated(count) = acc[count]
<1> DEFINE X == [0 .. N - 1 -> Int]
           step == [x \in X \X (1 .. count) |-> Rotate(x[1], degree[x[2] - 1])]
<1>1. InitAcc \in X
  BY DEF InitAcc
<1>2. ASSUME NEW f \in X, NEW k \in 1 .. count PROVE Rotate(f, degree[k - 1]) \in X
  <2>1. PICK d \in Nat : d = degree[k - 1]
    OBVIOUS
  <2>2. IsPoly(f, N)
    BY DEF IsPoly
  <2>3. \A i \in 0 .. N - 1 : MulMonomial(f, d, N)[i] \in Int
    BY <2>2, MonomialAt, Constants
  <2> QED
    BY <2>1, <2>3 DEF Rotate, MulMonomial
<1>3. step \in [X \X (1 .. count) -> X]
  BY <1>2
<1>4. \A f \in X, k \in 1 .. count : step[<<f, k>>] = Rotate(f, degree[k - 1])
  OBVIOUS
<1>5. PICK acc : acc \in [0 .. count -> X] /\ Iterates(acc, InitAcc, step, count)
  <2> HIDE DEF X, step
  <2> QED
    BY <1>1, <1>3, RecursiveFunction
<1>6. IsChain(acc, count)
  <2>1. ASSUME NEW k \in 1 .. count PROVE acc[k] = Rotate(acc[k - 1], degree[k - 1])
    <3>1. acc[k] = step[<<acc[k - 1], k>>]
      BY <1>5 DEF Iterates
    <3>2. acc[k - 1] \in X
      BY <1>5
    <3> HIDE DEF X, step
    <3> QED
      BY <1>4, <3>1, <3>2
  <2> QED
    BY <1>5, <2>1 DEF Iterates, IsChain
<1> DEFINE Eqn(h) == h = [k \in 0 .. count |->
                            IF k = 0 THEN InitAcc ELSE Rotate(h[k - 1], degree[k - 1])]
           chain == CHOOSE h : Eqn(h)
<1>7. Rotated(count) = chain[count]
  BY DEF Rotated
<1>8. Eqn(acc)
  <2>1. \A k \in 0 .. count : acc[k] = IF k = 0 THEN InitAcc
                                       ELSE Rotate(acc[k - 1], degree[k - 1])
    BY <1>6 DEF IsChain
  <2>2. acc = [k \in 0 .. count |-> acc[k]]
    BY <1>5
  <2> QED
    BY <2>1, <2>2
<1>9. Eqn(chain)
  BY <1>8
<1> HIDE DEF chain
<1>10. PICK g : g = chain
  OBVIOUS
<1>11. \A k \in 0 .. count : g[k] = IF k = 0 THEN InitAcc
                                    ELSE Rotate(g[k - 1], degree[k - 1])
  BY <1>9, <1>10
<1>12. g[0] = acc[0]
  BY <1>6, <1>11 DEF IsChain
<1>13. ASSUME NEW k \in 1 .. count, g[k - 1] = acc[k - 1] PROVE g[k] = acc[k]
  BY <1>6, <1>11, <1>13 DEF IsChain
<1>14. \A k \in 0 .. count : g[k] = acc[k]
  BY <1>12, <1>13, SameRecursion
<1>15. Rotated(count) = acc[count]
  BY <1>7, <1>10, <1>14
<1> QED
  BY <1>6, <1>15

(* Shifts add up.                                                          *)
LEMMA ShiftTwice ==
    ASSUME NEW A \in [Int -> Int], NEW c \in Int, NEW d \in Int
    PROVE  Shift(Shift(A, c), d) = Shift(A, c + d)
<1>1. ASSUME NEW x \in Int PROVE Shift(Shift(A, c), d)[x] = Shift(A, c + d)[x]
  <2>1. x - d \in Int /\ (x - d) - c = x - (c + d)
    OBVIOUS
  <2> QED
    BY <2>1 DEF Shift
<1> QED
  BY <1>1 DEF Shift

(* After the chain the marks are rotated by the sum of the degrees.        *)
LEMMA RotatedRepresents ==
    ASSUME NEW count \in Nat \ {0}, \A k \in 0 .. count - 1 : degree[k] \in Nat
    PROVE  Represents(Rotated(count), Shift(Mark, SumBelow(count, degree)), N)
<1>1. PICK n \in Nat : n = count - 1
  OBVIOUS
<1>2. \A k \in 0 .. n : degree[k] \in Int
  BY <1>1
<1>3. PICK S : IsSum(S, degree, n) /\ SumBelow(count, degree) = S[n]
  BY <1>1, <1>2, SumBelowIs
<1>4. \A k \in 0 .. n : S[k] \in Int
  BY <1>2, <1>3, SumType
<1>5. PICK acc : IsChain(acc, count) /\ Rotated(count) = acc[count]
  BY RotatedIs
<1>6. Mark \in [Int -> Int] /\ Represents(InitAcc, Mark, N)
  BY MarkIs DEF Represents, Wave
<1> DEFINE Good(k) == Represents(acc[k + 1], Shift(Mark, S[k]), N)
           T == {k \in 0 .. n : Good(k)}
<1>7. ASSUME NEW k \in 0 .. n
      PROVE  /\ acc[k + 1] = MulMonomial(acc[k], degree[k], N)
             /\ degree[k] \in Nat
  <2>1. PICK j \in 1 .. count : j = k + 1
    BY <1>1
  <2>2. acc[j] = Rotate(acc[j - 1], degree[j - 1])
    BY <1>5 DEF IsChain
  <2> QED
    BY <1>1, <2>1, <2>2 DEF Rotate
<1>8. Good(0)
  <2>1. acc[0] = InitAcc /\ S[0] = degree[0]
    BY <1>3, <1>5 DEF IsChain, IsSum
  <2>2. PICK z \in 0 .. n : z = 0
    OBVIOUS
  <2>3. PICK f, d : f = acc[0] /\ d = degree[0] /\ d \in Nat /\ acc[z + 1] = MulMonomial(f, d, N)
    BY <1>7, <2>2
  <2>4. Represents(MulMonomial(f, d, N), Shift(Mark, d), N)
    BY <1>6, <2>1, <2>3, MonomialRepresents, Constants
  <2> QED
    BY <2>1, <2>2, <2>3, <2>4
<1>9. ASSUME NEW k \in 1 .. n, Good(k - 1) PROVE Good(k)
  <2>1. k \in 0 .. n /\ k - 1 \in 0 .. n /\ (k - 1) + 1 = k
    OBVIOUS
  <2>2. S[k] = S[k - 1] + degree[k]
    BY <1>3 DEF IsSum
  <2>3. PICK f, c, d : /\ f = acc[k] /\ c = S[k - 1] /\ d = degree[k]
                       /\ c \in Int /\ d \in Nat
                       /\ acc[k + 1] = MulMonomial(f, d, N)
    BY <1>4, <1>7, <2>1
  <2>4. Represents(f, Shift(Mark, c), N)
    BY <1>9, <2>1, <2>3
  <2>5. PICK A : A = Shift(Mark, c)
    OBVIOUS
  <2>6. Represents(MulMonomial(f, d, N), Shift(A, d), N)
    BY <2>3, <2>4, <2>5, MonomialRepresents, Constants
  <2>7. Shift(A, d) = Shift(Mark, c + d)
    <3>1. PICK M \in [Int -> Int] : M = Mark
      BY <1>6
    <3>2. PICK a, b \in Int : a = c /\ b = d
      BY <2>3
    <3>3. Shift(Shift(M, a), b) = Shift(M, a + b)
      BY ShiftTwice
    <3> QED
      BY <2>5, <3>1, <3>2, <3>3
  <2> QED
    BY <2>2, <2>3, <2>6, <2>7
<1> HIDE DEF Good
<1>10. 0 \in T /\ \A k \in 1 .. n : k - 1 \in T => k \in T
  BY <1>8, <1>9
<1>11. Good(n)
  <2> HIDE DEF T
  <2>1. \A k \in 0 .. n : k \in T
    BY <1>10, InductionUpTo
  <2>2. n \in T
    BY <2>1
  <2> QED
    BY <2>2 DEF T
<1>12. count = n + 1
  BY <1>1
<1> QED
  BY <1>3, <1>5, <1>11, <1>12 DEF Good

-----------------------------------------------------------------------------

(* The wave without a crest.                                               *)
Nothing == [x \in Int |-> 0]

(* Nothing is a wave.                                                      *)
LEMMA NothingIsWave == Wave(Nothing, N)
<1>1. ASSUME NEW x \in Int, NEW k \in Int PROVE Nothing[x + N * k] = Signed(k, Nothing[x])
  <2>1. N * k \in Int
    BY Constants
  <2>2. PICK y \in Int : y = x + N * k
    BY <2>1
  <2>3. Nothing[y] = 0 /\ Nothing[x] = 0
    BY DEF Nothing
  <2>4. Signed(k, 0) = 0
    <3>1. PICK z \in Int : z = 0
      OBVIOUS
    <3>2. -z = z
      <4>1. PICK w \in Int : w = -z
        OBVIOUS
      <4>2. w + z = 0
        BY <4>1
      <4>3. w = z
        BY <3>1, <4>2
      <4> QED
        BY <4>1, <4>3
    <3>3. Signed(k, z) = z
      BY <3>2 DEF Signed
    <3> QED
      BY <3>1, <3>3
  <2> QED
    BY <2>2, <2>3, <2>4
<1> QED
  BY <1>1 DEF Nothing, Wave

(* The marks rotated by d are in selector d % G, and in no other.          *)
LEMMA SelectorRepresents ==
    ASSUME NEW f, NEW d \in Int, Represents(f, Shift(Mark, d), N), NEW l \in Parties
    PROVE  /\ d % G = l => Represents(Selector(f, l), Shift(Mark, d - l), N)
           /\ d % G # l => Represents(Selector(f, l), Nothing, N)
<1>1. PICK g \in Nat \ {0} : g = G
  BY Constants
<1>2. l \in 0 .. g - 1 /\ l \in Int
  BY <1>1 DEF Parties
<1>3. Wave(Mark, N)
  BY MarkIs DEF Represents
<1>4. N \in Nat \ {0} /\ N \in Int
  BY Constants
<1>5. PICK m \in Int : N = g * m
  <2>1. PICK k \in Int, i \in 0 .. g - 1 : N = i + g * k /\ k = N \div g /\ i = N % g
    BY <1>4, Place
  <2>2. i = 0
    BY <1>1, <2>1, RingElectionAssumption
  <2>3. PICK y \in Int : y = g * k
    OBVIOUS
  <2>4. N = i + y
    BY <2>1, <2>3
  <2>5. N = y
    BY <2>2, <2>3, <2>4
  <2> QED
    BY <2>3, <2>5
<1>6. PICK c \in Int, r \in 0 .. g - 1 : d = r + g * c /\ r = d % g
  BY Place
<1>7. ASSUME NEW j \in 0 .. N - 1
      PROVE  /\ Selector(f, l)[j] \in Int
             /\ r = l => Same(Selector(f, l)[j], Mark[j - (d - l)])
             /\ r # l => Same(Selector(f, l)[j], 0)
  <2>1. PICK b \in Int, i \in 0 .. g - 1 : j = i + g * b /\ i = j % g
    <3>1. PICK k \in Int : k = j
      BY <1>4
    <3>2. \E b \in Int, i \in 0 .. g - 1 : k = i + g * b /\ b = k \div g /\ i = k % g
      BY Place
    <3> QED
      BY <3>1, <3>2
  <2>2. PICK x \in Int : x = j + l - d
    BY <1>2
  <2>3. PICK y \in Int : y = g * (b - c)
    OBVIOUS
  <2>4. x = (i + l - r) + y
    <3>1. y = g * b - g * c
      BY <2>3
    <3>2. PICK s, t \in Int : s = g * b /\ t = g * c
      OBVIOUS
    <3>3. j = i + s /\ d = r + t /\ y = s - t
      BY <1>6, <2>1, <3>1, <3>2
    <3> QED
      BY <1>2, <2>2, <3>3
  <2>5. CASE i = 0
    <3>1. j + l \in 0 .. N - 1
      <4>1. PICK u, v \in Int : u = g * b /\ v = g * m
        OBVIOUS
      <4>2. j = u /\ N = v /\ u < v
        BY <1>5, <2>1, <2>5, <4>1
      <4>3. b < m
        <5>1. CASE b >= m
          <6>1. PICK e \in Nat : b = m + e
            BY <5>1
          <6>2. g * b = g * m + g * e
            BY <6>1
          <6>3. g * e \in Nat
            OBVIOUS
          <6> QED
            BY <4>1, <4>2, <6>2, <6>3
        <5> QED
          BY <5>1
      <4>4. g * b + g <= g * m
        <5>1. PICK e \in Nat : m = b + 1 + e
          BY <4>3
        <5>2. g * m = g * b + g + g * e
          BY <5>1
        <5>3. g * e \in Nat
          OBVIOUS
        <5> QED
          BY <5>2, <5>3
      <4> QED
        BY <1>2, <1>4, <4>1, <4>2, <4>4
    <3>2. Selector(f, l)[j] = f[j + l]
      BY <1>1, <2>1, <2>5 DEF Selector
    <3>3. Same(f[j + l], Shift(Mark, d)[j + l]) /\ f[j + l] \in Int
      BY <3>1 DEF Represents, IsPoly
    <3>4. Shift(Mark, d)[j + l] = Mark[x]
      BY <1>2, <2>2 DEF Shift
    <3>5. CASE r = l
      BY <1>2, <2>2, <3>2, <3>3, <3>4, <3>5
    <3>6. CASE r # l
      <4>1. x % g # 0
        <5>1. CASE l > r
          <6>1. PICK e \in 0 .. g - 1 : e = l - r
            BY <1>2, <5>1
          <6>2. x = g * (b - c) + e
            BY <1>2, <2>3, <2>4, <2>5, <6>1
          <6>3. x % g = e
            BY <6>2, DivModUnique
          <6> QED
            BY <1>2, <5>1, <6>1, <6>3
        <5>2. CASE l < r
          <6>1. PICK e \in 0 .. g - 1 : e = l - r + g
            BY <1>2, <5>2
          <6>2. g * (b - c - 1) = g * (b - c) - g
            OBVIOUS
          <6>3. x = g * (b - c - 1) + e
            BY <1>2, <2>3, <2>4, <2>5, <6>1, <6>2
          <6>4. x % g = e
            BY <6>3, DivModUnique
          <6> QED
            BY <1>2, <5>2, <6>1, <6>4
        <5> QED
          BY <1>2, <3>6, <5>1, <5>2
      <4>2. Mark[x] = 0
        BY <1>1, <4>1, MarkIs
      <4> QED
        BY <3>2, <3>3, <3>4, <3>6, <4>2
    <3> QED
      BY <3>5, <3>6
  <2>6. CASE i # 0
    <3>1. Selector(f, l)[j] = 0
      BY <1>1, <2>1, <2>6 DEF Selector
    <3>2. CASE r = l
      <4>1. x = g * (b - c) + i
        BY <1>2, <2>3, <2>4, <3>2
      <4>2. x % g = i
        BY <4>1, DivModUnique
      <4>3. Mark[x] = 0
        BY <1>1, <2>6, <4>2, MarkIs
      <4>4. j - (d - l) = x
        BY <1>2, <2>2
      <4> QED
        BY <3>1, <3>2, <4>3, <4>4, SameSelf
    <3> QED
      BY <3>1, <3>2, SameSelf
  <2> QED
    BY <2>5, <2>6
<1>8. IsPoly(Selector(f, l), N)
  BY <1>7 DEF IsPoly
<1>9. CASE r = l
  <2>1. PICK e \in Int : e = d - l
    BY <1>2
  <2>2. Wave(Shift(Mark, e), N)
    BY <1>3, <1>4, ShiftIsWave
  <2>3. \A j \in 0 .. N - 1 : Shift(Mark, e)[j] = Mark[j - e]
    BY DEF Shift
  <2> QED
    BY <1>1, <1>6, <1>7, <1>8, <1>9, <2>1, <2>2, <2>3 DEF Represents
<1>10. CASE r # l
  <2>1. \A j \in 0 .. N - 1 : Nothing[j] = 0
    BY DEF Nothing
  <2> QED
    BY <1>1, <1>6, <1>7, <1>8, <1>10, <2>1, NothingIsWave DEF Represents
<1> QED
  BY <1>9, <1>10

(* A product with nothing is nothing.                                      *)
LEMMA ProductNothing ==
    ASSUME NEW n \in Nat \ {0}, NEW g, IsPoly(g, n), NEW x \in Int
    PROVE  Product(Nothing, g, n)[x] = 0
<1>1. PICK f : f = [j \in 0 .. n - 1 |-> 0]
  OBVIOUS
<1>2. Terms(f, Nothing, g, n, x)
  <2>1. ASSUME NEW j \in 0 .. n - 1 PROVE f[j] = Nothing[x - j] * g[j]
    <3>1. PICK y \in Int : y = x - j
      OBVIOUS
    <3>2. Nothing[y] = 0 /\ g[j] \in Int
      BY DEF Nothing, IsPoly
    <3>3. Nothing[y] * g[j] = 0
      BY <3>2
    <3> QED
      BY <1>1, <3>1, <3>3
  <2> QED
    BY <2>1 DEF Terms
<1>3. Nothing \in [Int -> Int]
  BY DEF Nothing
<1>4. Product(Nothing, g, n)[x] = SumBelow(n, f)
  BY <1>2, <1>3, ProductAt
<1>5. SumBelow(n, f) = 0
  BY <1>1, SumBelowZero
<1> QED
  BY <1>4, <1>5

(* The selectors partial expansion gives.                                  *)
Selectors(f) == [i \in Parties |-> Selector(f, i)]

(* One term of the sum of encode_single_commit: the party with the number  *)
(* d % G contributes the product of the mark with its commit, any other    *)
(* one nothing.                                                            *)
LEMMA EncodedTerm ==
    ASSUME NEW f, NEW d \in Int, Represents(f, Shift(Mark, d), N),
           NEW half, \A p \in Parties : IsPoly(half[p], CommitLen),
           NEW l \in Parties, l = d % G,
           NEW W, W = Product(Shift(Mark, d - l), half[l], CommitLen),
           NEW p \in Parties, NEW i \in 0 .. N - 1
    PROVE  /\ Mul(Selectors(f)[p], half[p], N, CommitLen)[i] \in 0 .. P - 1
           /\ p = l => Same(Mul(Selectors(f)[p], half[p], N, CommitLen)[i], W[i])
           /\ p # l => Mul(Selectors(f)[p], half[p], N, CommitLen)[i] = 0
           /\ Wave(W, N)
<1>1. N \in Nat \ {0} /\ CommitLen \in 1 .. N /\ l \in Int
  BY Constants DEF Parties
<1>2. PICK A : A = Shift(Mark, d - l)
  OBVIOUS
<1>3. Represents(Selector(f, l), A, N)
  BY <1>2, SelectorRepresents
<1>4. Wave(A, N)
  BY <1>3 DEF Represents
<1>5. W = Product(A, half[l], CommitLen)
  BY <1>2
<1>6. Wave(W, N)
  BY <1>1, <1>4, <1>5, ProductIsWave
<1>7. Selectors(f)[p] = Selector(f, p)
  BY DEF Selectors
<1>8. PICK s, g : s = Selector(f, p) /\ g = half[p]
  OBVIOUS
<1>9. IsPoly(g, CommitLen)
  BY <1>8
<1>10. CASE p = l
  <2>1. Represents(s, A, N)
    BY <1>3, <1>8, <1>10
  <2>2. /\ Represents(Mul(s, g, N, CommitLen), Product(A, g, CommitLen), N)
        /\ Mul(s, g, N, CommitLen)[i] \in 0 .. P - 1
    BY <1>1, <1>9, <2>1, MulRepresents
  <2>3. Same(Mul(s, g, N, CommitLen)[i], Product(A, g, CommitLen)[i])
    BY <2>2 DEF Represents
  <2> QED
    BY <1>5, <1>6, <1>7, <1>8, <1>10, <2>2, <2>3
<1>11. CASE p # l
  <2>1. Represents(s, Nothing, N)
    BY <1>8, <1>11, SelectorRepresents
  <2>2. /\ Represents(Mul(s, g, N, CommitLen), Product(Nothing, g, CommitLen), N)
        /\ Mul(s, g, N, CommitLen)[i] \in 0 .. P - 1
    BY <1>1, <1>9, <2>1, MulRepresents
  <2>3. Same(Mul(s, g, N, CommitLen)[i], Product(Nothing, g, CommitLen)[i])
    BY <2>2 DEF Represents
  <2>4. PICK x \in Int : x = i
    BY <1>1
  <2>5. Product(Nothing, g, CommitLen)[x] = 0
    BY <1>1, <1>9, ProductNothing
  <2>6. 0 \in 0 .. P - 1
    BY Constants
  <2>7. Mul(s, g, N, CommitLen)[i] = 0
    BY <2>2, <2>3, <2>4, <2>5, <2>6, SameResidue
  <2> QED
    BY <1>6, <1>7, <1>8, <1>11, <2>2, <2>7
<1> QED
  BY <1>10, <1>11

(* Of the sum over all parties only the one with the number d % G is left. *)
LEMMA EncodeHalfRepresents ==
    ASSUME NEW f, NEW d \in Int, Represents(f, Shift(Mark, d), N),
           NEW half, \A p \in Parties : IsPoly(half[p], CommitLen),
           NEW l \in Parties, l = d % G
    PROVE  /\ Represents(EncodeHalf(Selectors(f), half),
                         Product(Shift(Mark, d - l), half[l], CommitLen), N)
           /\ \A i \in 0 .. N - 1 : EncodeHalf(Selectors(f), half)[i] \in 0 .. P - 1
<1>1. PICK W : W = Product(Shift(Mark, d - l), half[l], CommitLen)
  OBVIOUS
<1>2. Wave(W, N)
  <2>1. 0 \in 0 .. N - 1
    BY Constants
  <2> QED
    BY <1>1, <2>1, EncodedTerm
<1>3. ASSUME NEW p \in Parties, NEW i \in 0 .. N - 1
      PROVE  /\ Mul(Selectors(f)[p], half[p], N, CommitLen)[i] \in 0 .. P - 1
             /\ p = l => Same(Mul(Selectors(f)[p], half[p], N, CommitLen)[i], W[i])
             /\ p # l => Mul(Selectors(f)[p], half[p], N, CommitLen)[i] = 0
  BY <1>1, EncodedTerm
<1>4. ASSUME NEW i \in 0 .. N - 1
      PROVE  /\ EncodeHalf(Selectors(f), half)[i] \in 0 .. P - 1
             /\ Same(EncodeHalf(Selectors(f), half)[i], W[i])
  <2>1. PICK u : u = [p \in Parties |-> Mul(Selectors(f)[p], half[p], N, CommitLen)[i]]
    OBVIOUS
  <2>2. EncodeHalf(Selectors(f), half)[i] = SumBelow(G, u) % P
    BY <2>1 DEF EncodeHalf
  <2>3. /\ u[l] \in 0 .. P - 1 /\ Same(u[l], W[i])
        /\ \A p \in 0 .. G - 1 : p # l => u[p] = 0
    BY <1>3, <2>1, Constants
  <2>4. u[l] \in Int /\ l \in 0 .. G - 1 /\ G \in Nat \ {0}
    BY <2>3, Constants
  <2>5. SumBelow(G, u) = u[l]
    BY <2>3, <2>4, SumBelowSingle
  <2>6. PICK y \in Int : y = u[l]
    BY <2>4
  <2>7. Same(y % P, y) /\ y % P \in 0 .. P - 1
    BY SameMod
  <2> QED
    BY <2>2, <2>3, <2>5, <2>6, <2>7, SameTrans
<1>5. IsPoly(EncodeHalf(Selectors(f), half), N)
  BY <1>4, Constants DEF IsPoly
<1> QED
  BY <1>1, <1>2, <1>4, <1>5 DEF Represents

-----------------------------------------------------------------------------

(* The sum of the parties' polynomials, not reduced.                       *)
Total(g) == [j \in 0 .. CommitLen - 1 |-> SumBelow(G, [p \in Parties |-> g[p][j]])]

(* The sum of polynomials is one.                                          *)
LEMMA TotalIsPoly ==
    ASSUME NEW g, \A p \in Parties : IsPoly(g[p], CommitLen)
    PROVE  IsPoly(Total(g), CommitLen)
<1>1. ASSUME NEW j \in 0 .. CommitLen - 1 PROVE Total(g)[j] \in Int
  <2>1. PICK u : u = [p \in Parties |-> g[p][j]]
    OBVIOUS
  <2>2. \A p \in 0 .. G - 1 : u[p] \in Int
    BY <2>1, Constants DEF IsPoly
  <2>3. SumBelow(G, u) \in Int
    BY <2>2, SumBelowType, Constants
  <2> QED
    BY <2>1, <2>3 DEF Total
<1> QED
  BY <1>1 DEF IsPoly

(* A product with the sum is the sum of the products.                      *)
Products(r, B, g, x) == \A p \in 0 .. G - 1 : r[p] = Product(B, g[p], CommitLen)[x]

(* The product with the sum is the sum of the products.                    *)
LEMMA ProductTotal ==
    ASSUME NEW B \in [Int -> Int], NEW g, \A p \in Parties : IsPoly(g[p], CommitLen),
           NEW x \in Int, NEW r, Products(r, B, g, x)
    PROVE  Product(B, Total(g), CommitLen)[x] = SumBelow(G, r)
<1>1. /\ G \in Nat \ {0} /\ CommitLen \in Nat \ {0} /\ Parties = 0 .. G - 1
  BY Constants
<1>2. PICK K \in Nat \ {0} : K = CommitLen
  BY <1>1
<1>3. PICK b : b = [j \in 0 .. K - 1 |-> B[x - j]]
  OBVIOUS
<1>4. ASSUME NEW j \in 0 .. K - 1 PROVE b[j] \in Int /\ b[j] = B[x - j]
  BY <1>3
<1>5. PICK t : t = [p \in 0 .. G - 1 |-> [j \in 0 .. K - 1 |-> b[j] * g[p][j]]]
  OBVIOUS
<1>6. ASSUME NEW p \in 0 .. G - 1
      PROVE  /\ \A j \in 0 .. K - 1 : t[p][j] = b[j] * g[p][j] /\ t[p][j] \in Int
             /\ \A j \in 0 .. K - 1 : g[p][j] \in Int
  <2>1. \A j \in 0 .. K - 1 : g[p][j] \in Int
    BY <1>1, <1>2 DEF IsPoly
  <2>2. \A j \in 0 .. K - 1 : t[p][j] = b[j] * g[p][j]
    BY <1>5
  <2>3. ASSUME NEW j \in 0 .. K - 1 PROVE t[p][j] \in Int
    <3>1. PICK y, z \in Int : y = b[j] /\ z = g[p][j]
      BY <1>4, <2>1
    <3> QED
      BY <2>2, <3>1
  <2> QED
    BY <2>1, <2>2, <2>3
<1>7. IsTable(t, G, K)
  BY <1>6 DEF IsTable
<1>8. ASSUME NEW p \in 0 .. G - 1 PROVE r[p] = SumBelow(K, t[p])
  <2>1. PICK f, h : f = t[p] /\ h = g[p]
    OBVIOUS
  <2>2. Terms(f, B, h, K, x)
    BY <1>4, <1>6, <2>1 DEF Terms
  <2>3. IsPoly(h, K)
    BY <1>1, <1>2, <2>1
  <2>4. Product(B, h, K)[x] = SumBelow(K, f)
    BY <2>2, <2>3, ProductAt
  <2> QED
    BY <1>2, <2>1, <2>4 DEF Products
<1>9. PICK c : c = [j \in 0 .. K - 1 |-> b[j] * Total(g)[j]]
  OBVIOUS
<1>10. ASSUME NEW j \in 0 .. K - 1 PROVE c[j] = SumBelow(G, Column(t, j, G))
  <2>1. PICK u, v : u = [p \in Parties |-> g[p][j]] /\ v = Column(t, j, G)
    OBVIOUS
  <2>2. \A p \in 0 .. G - 1 : u[p] \in Int
    BY <1>1, <1>6, <2>1
  <2>3. ASSUME NEW p \in 0 .. G - 1 PROVE v[p] = b[j] * u[p]
    BY <1>1, <1>6, <2>1 DEF Column
  <2>4. PICK a \in Int : a = b[j]
    BY <1>4
  <2>5. PICK m \in Nat \ {0} : m = G
    BY <1>1
  <2>6. SumBelow(G, v) = a * SumBelow(G, u)
    <3>1. \A p \in 0 .. m - 1 : u[p] \in Int
      BY <2>2, <2>5
    <3>2. ASSUME NEW p \in 0 .. m - 1 PROVE v[p] = a * u[p]
      BY <2>3, <2>4, <2>5
    <3>3. SumBelow(m, v) = a * SumBelow(m, u)
      BY <3>1, <3>2, SumBelowScale
    <3> QED
      BY <2>5, <3>3
  <2>7. Total(g)[j] = SumBelow(G, u)
    BY <1>2, <2>1 DEF Total
  <2> QED
    BY <1>9, <2>1, <2>4, <2>6, <2>7
<1>11. SumBelow(G, r) = SumBelow(K, c)
  <2>1. RowSums(r, t, G, K)
    BY <1>8 DEF RowSums
  <2>2. ColumnSums(c, t, G, K)
    BY <1>10 DEF ColumnSums
  <2> QED
    BY <1>1, <1>7, <2>1, <2>2, Exchange
<1>12. Product(B, Total(g), K)[x] = SumBelow(K, c)
  <2>1. PICK h : h = Total(g)
    OBVIOUS
  <2>2. IsPoly(h, K)
    BY <1>2, <2>1, TotalIsPoly
  <2>3. Terms(c, B, h, K, x)
    <3>1. ASSUME NEW j \in 0 .. K - 1 PROVE c[j] = B[x - j] * h[j]
      BY <1>4, <1>9, <2>1
    <3> QED
      BY <3>1 DEF Terms
  <2>4. Product(B, h, K)[x] = SumBelow(K, c)
    BY <2>2, <2>3, ProductAt
  <2> QED
    BY <2>1, <2>4
<1> QED
  BY <1>2, <1>11, <1>12

(* Aggregation represents the product with the sum of the commits.         *)
LEMMA SumRepresents ==
    ASSUME NEW B, Wave(B, N), NEW g, \A p \in Parties : IsPoly(g[p], CommitLen),
           NEW e, \A p \in Parties : Represents(e[p], Product(B, g[p], CommitLen), N),
           NEW F, \A i \in 0 .. N - 1 :
                      F[i] = SumBelow(G, [p \in Parties |-> e[p][i]]) % P
    PROVE  /\ Represents(F, Product(B, Total(g), CommitLen), N)
           /\ \A i \in 0 .. N - 1 : F[i] \in 0 .. P - 1
<1>1. /\ G \in Nat \ {0} /\ CommitLen \in Nat \ {0} /\ Parties = 0 .. G - 1
      /\ N \in Nat \ {0} /\ P \in Nat \ {0}
  BY Constants
<1>2. B \in [Int -> Int]
  BY DEF Wave
<1>3. Wave(Product(B, Total(g), CommitLen), N)
  BY <1>1, TotalIsPoly, ProductIsWave
<1>4. ASSUME NEW i \in 0 .. N - 1
      PROVE  /\ F[i] \in 0 .. P - 1
             /\ Same(F[i], Product(B, Total(g), CommitLen)[i])
  <2>1. PICK u, r : /\ u = [p \in Parties |-> e[p][i]]
                    /\ r = [p \in Parties |-> Product(B, g[p], CommitLen)[i]]
    OBVIOUS
  <2>2. ASSUME NEW p \in 0 .. G - 1
        PROVE  /\ u[p] \in Int /\ r[p] \in Int /\ Same(u[p], r[p])
               /\ r[p] = Product(B, g[p], CommitLen)[i]
    <3>1. PICK W, h : W = Product(B, g[p], CommitLen) /\ h = e[p]
      OBVIOUS
    <3>2. Represents(h, W, N)
      BY <1>1, <3>1
    <3>3. h[i] \in Int /\ W[i] \in Int /\ Same(h[i], W[i])
      BY <1>1, <3>2 DEF Represents, IsPoly, Wave
    <3> QED
      BY <1>1, <2>1, <3>1, <3>3
  <2>3. Same(SumBelow(G, u), SumBelow(G, r))
    BY <1>1, <2>2, SumBelowSame
  <2>4. PICK x \in Int : x = i
    BY <1>1
  <2>5. Products(r, B, g, x)
    BY <2>2, <2>4 DEF Products
  <2>6. Product(B, Total(g), CommitLen)[x] = SumBelow(G, r)
    BY <1>2, <2>5, ProductTotal
  <2>7. SumBelow(G, u) \in Int
    BY <1>1, <2>2, SumBelowType
  <2>8. PICK y \in Int : y = SumBelow(G, u)
    BY <2>7
  <2>9. Same(y % P, y) /\ y % P \in 0 .. P - 1
    BY SameMod
  <2>10. F[i] = y % P
    BY <2>1, <2>8
  <2> QED
    BY <2>3, <2>4, <2>6, <2>8, <2>9, <2>10, SameTrans
<1>5. IsPoly(F, N)
  BY <1>1, <1>4 DEF IsPoly
<1> QED
  BY <1>3, <1>4, <1>5 DEF Represents

-----------------------------------------------------------------------------

(* C at its place among N, and again with every other sign.                *)
Padded(C) == [i \in 0 .. N - 1 |-> IF i < CommitLen THEN C[i] ELSE 0]
Spread(C) == WaveOf(Padded(C), N)

(* The commit at its place, N places on with the other sign, and nothing   *)
(* between.                                                                *)
LEMMA SpreadIs ==
    ASSUME NEW C, IsPoly(C, CommitLen)
    PROVE  /\ Wave(Spread(C), N)
           /\ \A i \in 0 .. N - 1, k \in Int :
                  Spread(C)[N * k + i] = IF i < CommitLen THEN Signed(k, C[i]) ELSE 0
<1>1. N \in Nat \ {0} /\ CommitLen \in 1 .. N
  BY Constants
<1>2. ASSUME NEW i \in 0 .. N - 1
      PROVE  Padded(C)[i] \in Int /\ (i < CommitLen => Padded(C)[i] = C[i] /\ C[i] \in Int)
                /\ (~ (i < CommitLen) => Padded(C)[i] = 0)
  <2>1. CASE i < CommitLen
    <3>1. i \in 0 .. CommitLen - 1
      BY <1>1, <2>1
    <3> QED
      BY <2>1, <3>1 DEF Padded, IsPoly
  <2>2. CASE ~ (i < CommitLen)
    BY <2>2 DEF Padded
  <2> QED
    BY <2>1, <2>2
<1>3. IsPoly(Padded(C), N)
  BY <1>2 DEF IsPoly
<1>4. Wave(Spread(C), N) /\ \A i \in 0 .. N - 1 : Spread(C)[i] = Padded(C)[i]
  BY <1>1, <1>3, WaveOfIsWave DEF Spread
<1>5. ASSUME NEW i \in 0 .. N - 1, NEW k \in Int
      PROVE  Spread(C)[N * k + i] = IF i < CommitLen THEN Signed(k, C[i]) ELSE 0
  <2>1. PICK x \in Int : x = i
    BY <1>1
  <2>2. Spread(C)[x + N * k] = Signed(k, Spread(C)[x])
    BY <1>4 DEF Wave
  <2>3. N * k + i = x + N * k
    BY <1>1, <2>1
  <2>4. Spread(C)[N * k + i] = Signed(k, Padded(C)[i])
    BY <1>4, <2>1, <2>2, <2>3
  <2>5. CASE i < CommitLen
    BY <1>2, <2>4, <2>5
  <2>6. CASE ~ (i < CommitLen)
    <3>1. Signed(k, Nothing[x]) = 0
      <4>1. Nothing[x] = 0 /\ Nothing[x + N * k] = Signed(k, Nothing[x])
        BY <2>1, NothingIsWave DEF Nothing, Wave
      <4>2. PICK y \in Int : y = x + N * k
        BY <1>1
      <4>3. Nothing[y] = 0
        BY DEF Nothing
      <4> QED
        BY <4>1, <4>2, <4>3
    <3>2. Nothing[x] = 0
      BY DEF Nothing
    <3> QED
      BY <1>2, <2>4, <2>6, <3>1, <3>2
  <2> QED
    BY <2>5, <2>6
<1> QED
  BY <1>4, <1>5

(* Two neighbouring marks have the same sign, except at multiples of N.    *)
LEMMA MarkDiffers ==
    ASSUME NEW k \in Int, NEW i \in 0 .. N - 1, NEW z \in Int, z = N * k + i
    PROVE  /\ Mark[z] \in Int /\ Mark[z - G] \in Int
           /\ Mark[z] - Mark[z - G] = IF i = 0 THEN 2 * Signed(k, 1) ELSE 0
<1>1. PICK g \in Nat \ {0} : g = G /\ g <= N /\ N \in Int
  <2>1. CASE G <= N
    BY <2>1, Constants
  <2>2. CASE G > N
    <3>1. PICK m \in Nat \ {0} : m = G
      BY Constants
    <3>2. PICK r \in 0 .. m - 1 : r = N
      BY <2>2, <3>1, Constants
    <3>3. r % m = r
      BY ModSmall
    <3> QED
      BY <3>1, <3>2, <3>3, Constants, RingElectionAssumption
  <2> QED
    BY <2>1, <2>2, Constants
<1>2. PICK n \in Nat \ {0} : n = N
  BY Constants
<1>3. z % n = i /\ z \div n = k
  BY <1>2, DivModUnique
<1>4. PICK y \in Int : y = z - g
  OBVIOUS
<1>5. y % g = z % g
  <2>1. PICK m \in Int : m = -1
    OBVIOUS
  <2>2. (z + g * m) % g = z % g
    BY ModShift
  <2>3. y = z + g * m
    BY <1>4, <2>1
  <2> QED
    BY <2>2, <2>3
<1>6. /\ Mark[z] = IF z % g = 0 THEN Signed(k, 1) ELSE 0
      /\ Mark[y] = IF z % g = 0 THEN Signed(y \div n, 1) ELSE 0
  BY <1>1, <1>2, <1>3, <1>5, MarkIs
<1>7. z % g = i % g
  <2>1. PICK m \in Int : N = g * m
    <3>1. PICK l \in Int, r \in 0 .. g - 1 : n = r + g * l /\ l = n \div g /\ r = n % g
      BY Place
    <3>2. r = 0
      BY <1>1, <1>2, <3>1, RingElectionAssumption
    <3>3. PICK v \in Int : v = g * l
      OBVIOUS
    <3>4. n = r + v
      BY <3>1, <3>3
    <3>5. n = v
      BY <3>2, <3>3, <3>4
    <3> QED
      BY <1>2, <3>3, <3>5
  <2>2. PICK l \in Int : l = m * k
    OBVIOUS
  <2>3. N * k = g * l
    BY <1>1, <2>1, <2>2
  <2>4. PICK j \in Int : j = i
    BY <1>1
  <2>5. (j + g * l) % g = j % g
    BY ModShift
  <2>6. PICK v \in Int : v = g * l
    OBVIOUS
  <2>7. z = j + v
    BY <2>3, <2>4, <2>6
  <2> QED
    BY <2>4, <2>5, <2>6, <2>7
<1>8. Signed(k, 1) \in Int /\ Signed(k - 1, 1) = -Signed(k, 1)
  <2>1. PICK one \in Int : one = 1
    OBVIOUS
  <2>2. Signed(k, one) \in Int /\ Signed(k - 1, one) = -Signed(k, one)
    BY SignedFacts
  <2> QED
    BY <2>1, <2>2
<1>9. CASE i = 0
  <2>1. z % g = 0
    <3>1. PICK r \in 0 .. g - 1 : r = i
      BY <1>9
    <3>2. r % g = r
      BY ModSmall
    <3> QED
      BY <1>7, <1>9, <3>1, <3>2
  <2>2. y \div n = k - 1
    <3>1. PICK r \in 0 .. n - 1 : r = n - g
      BY <1>1, <1>2
    <3>2. PICK l \in Int : l = k - 1
      OBVIOUS
    <3>3. n * l = n * k - n
      BY <3>2
    <3>4. PICK u, v \in Int : u = n * l /\ v = n * k
      OBVIOUS
    <3>5. y = n * l + r
      BY <1>2, <1>4, <1>9, <3>1, <3>3, <3>4
    <3>6. (n * l + r) \div n = l
      BY DivModUnique
    <3> QED
      BY <3>2, <3>5, <3>6
  <2> QED
    BY <1>1, <1>4, <1>6, <1>8, <1>9, <2>1, <2>2
<1>10. CASE i # 0 /\ i < g
  <2>1. z % g # 0
    <3>1. PICK r \in 0 .. g - 1 : r = i
      BY <1>1, <1>10
    <3>2. r % g = r
      BY ModSmall
    <3> QED
      BY <1>7, <1>10, <3>1, <3>2
  <2> QED
    BY <1>1, <1>4, <1>6, <1>10, <2>1
<1>11. CASE i >= g
  <2>1. y \div n = k
    <3>1. PICK r \in 0 .. n - 1 : r = i - g
      BY <1>1, <1>2, <1>11
    <3>2. PICK v \in Int : v = n * k
      OBVIOUS
    <3>3. y = n * k + r
      BY <1>1, <1>2, <1>4, <3>1, <3>2
    <3>4. (n * k + r) \div n = k
      BY DivModUnique
    <3> QED
      BY <3>3, <3>4
  <2>2. Mark[z] = Mark[y] /\ Mark[z] \in Int
    BY <1>6, <1>8, <2>1
  <2>3. i # 0
    BY <1>1, <1>11
  <2> QED
    BY <1>1, <1>4, <2>2, <2>3
<1> QED
  BY <1>1, <1>9, <1>10, <1>11

(* So multiplication with 1 - X^G leaves twice one mark in N places.       *)
LEMMA MarkProduct ==
    ASSUME NEW C, IsPoly(C, CommitLen), NEW d \in Int, NEW x \in Int,
           NEW W, W = Product(Shift(Mark, d), C, CommitLen)
    PROVE  /\ W[x] \in Int /\ W[x - G] \in Int /\ Spread(C)[x - d] \in Int
           /\ W[x] - W[x - G] = 2 * Spread(C)[x - d]
<1>1. PICK K \in Nat \ {0} : K = CommitLen /\ K <= N
  BY Constants
<1>2. PICK n \in Nat \ {0} : n = N
  BY Constants
<1>3. PICK g \in Nat : g = G
  BY Constants
<1>4. PICK k \in Int, i \in 0 .. n - 1 : x - d = i + n * k
  <2>1. PICK y \in Int : y = x - d
    OBVIOUS
  <2>2. \E k \in Int, i \in 0 .. n - 1 : y = i + n * k /\ k = y \div n /\ i = y % n
    BY Place
  <2> QED
    BY <2>1, <2>2
<1>5. PICK B : B = Shift(Mark, d)
  OBVIOUS
<1>6. Mark \in [Int -> Int] /\ Wave(Mark, N)
  BY MarkIs DEF Represents, Wave
<1>7. B \in [Int -> Int] /\ \A y \in Int : B[y] = Mark[y - d]
  BY <1>5, <1>6 DEF Shift
<1>8. PICK f, h : /\ f = [j \in 0 .. K - 1 |-> B[x - j] * C[j]]
                  /\ h = [j \in 0 .. K - 1 |-> B[(x - g) - j] * C[j]]
  OBVIOUS
<1>9. PICK y \in Int : y = x - g
  OBVIOUS
<1>10. Terms(f, B, C, K, x) /\ Terms(h, B, C, K, y)
  BY <1>8, <1>9 DEF Terms
<1>11. W = Product(B, C, K) /\ IsPoly(C, K)
  BY <1>1, <1>5
<1>12. /\ Product(B, C, K)[x] = SumBelow(K, f)
       /\ Product(B, C, K)[x] \in Int
       /\ \A j \in 0 .. K - 1 : f[j] \in Int
  BY <1>7, <1>10, <1>11, ProductAt
<1>13. /\ Product(B, C, K)[y] = SumBelow(K, h)
       /\ Product(B, C, K)[y] \in Int
       /\ \A j \in 0 .. K - 1 : h[j] \in Int
  BY <1>7, <1>10, <1>11, ProductAt
<1>14. PICK u : u = [j \in 0 .. K - 1 |-> IF j = i THEN 2 * Signed(k, C[i]) ELSE 0]
  OBVIOUS
<1>15. i < K => C[i] \in Int /\ Signed(k, C[i]) \in Int
  <2>1. ASSUME i < K PROVE C[i] \in Int
    <3>1. i \in 0 .. K - 1
      BY <2>1
    <3> QED
      BY <1>11, <3>1 DEF IsPoly
  <2>2. ASSUME i < K PROVE Signed(k, C[i]) \in Int
    <3>1. PICK v \in Int : v = C[i]
      BY <2>1, <2>2
    <3>2. Signed(k, v) \in Int
      BY SignedFacts
    <3> QED
      BY <3>1, <3>2
  <2> QED
    BY <2>1, <2>2
<1>16. ASSUME NEW j \in 0 .. K - 1 PROVE f[j] = h[j] + u[j] /\ u[j] \in Int
  <2>1. PICK z \in Int : z = (x - d) - j
    OBVIOUS
  <2>2. PICK c \in Int : c = C[j]
    BY <1>11 DEF IsPoly
  <2>3. f[j] = Mark[z] * c
    <3>1. PICK v \in Int : v = x - j
      OBVIOUS
    <3>2. v - d = z
      BY <2>1, <3>1
    <3> QED
      BY <1>7, <1>8, <2>2, <3>1, <3>2
  <2>4. h[j] = Mark[z - g] * c
    <3>1. PICK v \in Int : v = (x - g) - j
      OBVIOUS
    <3>2. v - d = z - g
      BY <2>1, <3>1
    <3> QED
      BY <1>7, <1>8, <2>2, <3>1, <3>2
  <2>5. PICK a, b \in Int : a = Mark[z] /\ b = Mark[z - g]
    BY <1>6
  <2>6. CASE j <= i
    <3>1. PICK r \in 0 .. N - 1 : r = i - j
      BY <1>2, <2>6
    <3>2. z = N * k + r
      <4>1. PICK v \in Int : v = n * k
        OBVIOUS
      <4> QED
        BY <1>2, <1>4, <2>1, <3>1, <4>1
    <3>3. a - b = IF r = 0 THEN 2 * Signed(k, 1) ELSE 0
      BY <1>3, <2>5, <3>2, MarkDiffers
    <3>4. CASE j = i
      <4>1. r = 0 /\ c = C[i] /\ u[j] = 2 * Signed(k, c)
        BY <1>14, <2>2, <3>1, <3>4
      <4>2. PICK one \in Int : one = 1
        OBVIOUS
      <4>3. PICK s \in Int : s = Signed(k, one)
        BY <4>2, SignedFacts
      <4>4. Signed(k, one * c) = s * c
        BY <4>3, SignedTimes
      <4>5. one * c = c
        BY <4>2
      <4>6. a = b + 2 * s
        BY <2>5, <3>3, <4>1, <4>2, <4>3
      <4>7. a * c = b * c + 2 * (s * c)
        BY <4>6
      <4>8. PICK p, q, w \in Int : p = a * c /\ q = b * c /\ w = s * c
        OBVIOUS
      <4>9. u[j] = 2 * w
        BY <4>1, <4>4, <4>5, <4>8
      <4> QED
        BY <2>3, <2>4, <2>5, <4>7, <4>8, <4>9
    <3>5. CASE j # i
      <4>1. r # 0 /\ u[j] = 0
        BY <1>14, <3>1, <3>5
      <4>2. a = b
        BY <2>5, <3>3, <4>1
      <4>3. PICK p \in Int : p = a * c
        OBVIOUS
      <4> QED
        BY <2>3, <2>4, <2>5, <4>1, <4>2, <4>3
    <3> QED
      BY <3>4, <3>5
  <2>7. CASE j > i
    <3>1. PICK r \in 0 .. N - 1 : r = i - j + n /\ r # 0
      BY <1>1, <1>2, <2>7
    <3>2. PICK l \in Int : l = k - 1
      OBVIOUS
    <3>3. z = N * l + r
      <4>1. n * l = n * k - n
        BY <3>2
      <4>2. PICK v, w \in Int : v = n * k /\ w = n * l
        OBVIOUS
      <4> QED
        BY <1>2, <1>4, <2>1, <3>1, <4>1, <4>2
    <3>4. a - b = 0
      BY <1>3, <2>5, <3>1, <3>3, MarkDiffers
    <3>5. a = b
      BY <2>5, <3>4
    <3>6. u[j] = 0
      BY <1>14, <2>7
    <3>7. PICK p \in Int : p = a * c
      OBVIOUS
    <3> QED
      BY <2>3, <2>4, <2>5, <3>5, <3>6, <3>7
  <2> QED
    BY <2>6, <2>7
<1>17. SumBelow(K, f) = SumBelow(K, h) + SumBelow(K, u)
  BY <1>13, <1>16, SumBelowPlus
<1>18. Spread(C)[x - d] = IF i < K THEN Signed(k, C[i]) ELSE 0
  <2>1. Spread(C)[N * k + i] = IF i < CommitLen THEN Signed(k, C[i]) ELSE 0
    BY <1>2, SpreadIs
  <2>2. x - d = N * k + i
    <3>1. PICK v \in Int : v = n * k
      OBVIOUS
    <3> QED
      BY <1>2, <1>4, <3>1
  <2> QED
    BY <1>1, <2>1, <2>2
<1>19. SumBelow(K, u) = 2 * Spread(C)[x - d] /\ Spread(C)[x - d] \in Int
  <2>1. CASE i < K
    <3>1. PICK l \in 0 .. K - 1 : l = i
      BY <2>1
    <3>2. u[l] \in Int /\ \A j \in 0 .. K - 1 : j # l => u[j] = 0
      BY <1>14, <1>16, <3>1
    <3>3. SumBelow(K, u) = u[l]
      BY <3>2, SumBelowSingle
    <3> QED
      BY <1>14, <1>15, <1>18, <2>1, <3>1, <3>3
  <2>2. CASE ~ (i < K)
    <3>1. \A j \in 0 .. K - 1 : u[j] = 0
      BY <1>14, <2>2
    <3>2. SumBelow(K, u) = 0
      BY <3>1, SumBelowZero
    <3> QED
      BY <1>18, <2>2, <3>2
  <2> QED
    BY <2>1, <2>2
<1>20. W[x - G] = SumBelow(K, h) /\ W[x] = SumBelow(K, f)
  BY <1>3, <1>9, <1>11, <1>12, <1>13
<1>21. PICK p, q, s \in Int : /\ p = SumBelow(K, f) /\ q = SumBelow(K, h)
                              /\ s = Spread(C)[x - d]
  BY <1>9, <1>12, <1>13, <1>19
<1>22. p = q + 2 * s
  BY <1>17, <1>19, <1>21
<1> QED
  BY <1>20, <1>21, <1>22

(* P is odd, so that (P + 1) \div 2 is a half.                             *)
LEMMA HalfIsHalf ==
    ASSUME NEW x \in Int
    PROVE  /\ (P + 1) \div 2 \in Int
           /\ Same((2 * x) * ((P + 1) \div 2), x)
<1>1. PICK h \in Int : h = (P + 1) \div 2 /\ 2 * h = P + 1
  BY RingElectionAssumption
<1>2. P \in Int
  BY Constants
<1>3. (2 * x) * h = x + P * x
  <2>1. (2 * x) * h = (2 * h) * x
    OBVIOUS
  <2>2. (P + 1) * x = x + P * x
    BY <1>2
  <2> QED
    BY <1>1, <2>1, <2>2
<1>4. PICK y \in Int : y = (2 * x) * h
  OBVIOUS
<1>5. y = x + P * x
  BY <1>3, <1>4
<1>6. Same(y, x)
  BY <1>5, SameBy
<1> QED
  BY <1>1, <1>4, <1>6

(* div_v_inplace leaves the commit, rotated.                               *)
LEMMA DivVRepresents ==
    ASSUME NEW C, IsPoly(C, CommitLen), NEW d \in Int, NEW F,
           Represents(F, Product(Shift(Mark, d), C, CommitLen), N)
    PROVE  /\ Represents(DivV(F), Shift(Spread(C), d), N)
           /\ \A i \in 0 .. N - 1 : DivV(F)[i] \in 0 .. P - 1
<1>1. N \in Nat \ {0} /\ G \in Nat
  BY Constants
<1>2. PICK W : W = Product(Shift(Mark, d), C, CommitLen)
  OBVIOUS
<1>3. Represents(F, W, N)
  BY <1>2
<1>4. Represents(MulMonomial(F, G, N), Shift(W, G), N)
  BY <1>1, <1>3, MonomialRepresents
<1>5. ASSUME NEW i \in 0 .. N - 1
      PROVE  /\ DivV(F)[i] \in 0 .. P - 1
             /\ Same(DivV(F)[i], Shift(Spread(C), d)[i])
  <2>1. PICK x \in Int : x = i
    BY <1>1
  <2>2. /\ W[x] \in Int /\ W[x - G] \in Int /\ Spread(C)[x - d] \in Int
        /\ W[x] - W[x - G] = 2 * Spread(C)[x - d]
    BY <1>2, MarkProduct
  <2>3. PICK a, b, s, h \in Int :
          /\ a = F[i] /\ b = MulMonomial(F, G, N)[i]
          /\ s = Spread(C)[x - d] /\ h = (P + 1) \div 2
    <3>1. F[i] \in Int /\ MulMonomial(F, G, N)[i] \in Int
      BY <1>3, <1>4 DEF Represents, IsPoly
    <3>2. (P + 1) \div 2 \in Int
      BY <2>1, HalfIsHalf
    <3> QED
      BY <2>2, <3>1, <3>2
  <2>4. Same(a, W[x]) /\ Same(b, W[x - G])
    <3>1. Same(b, Shift(W, G)[i])
      BY <1>4, <2>3 DEF Represents
    <3>2. Shift(W, G)[i] = W[x - G]
      BY <2>1 DEF Shift
    <3> QED
      BY <1>3, <2>1, <2>3, <3>1, <3>2 DEF Represents
  <2>5. Same(a - b, W[x] - W[x - G])
    BY <2>2, <2>4, SameRing
  <2>6. PICK u, v \in Int : u = a - b /\ v = 2 * s
    OBVIOUS
  <2>7. Same(u, v)
    BY <2>2, <2>3, <2>5, <2>6
  <2>8. Same(u * h, v * h)
    BY <2>7, SameSelf, SameRing
  <2>9. Same(v * h, s)
    BY <2>3, <2>6, HalfIsHalf
  <2>10. PICK y \in Int : y = u * h
    OBVIOUS
  <2>11. Same(y % P, y) /\ y % P \in 0 .. P - 1
    BY SameMod
  <2>12. DivV(F)[i] = y % P
    BY <2>3, <2>6, <2>10 DEF DivV
  <2>13. Same(DivV(F)[i], s)
    BY <2>8, <2>9, <2>10, <2>11, <2>12, SameTrans
  <2>14. Shift(Spread(C), d)[i] = s
    BY <2>1, <2>3 DEF Shift
  <2> QED
    BY <2>11, <2>12, <2>13, <2>14
<1>6. IsPoly(DivV(F), N)
  BY <1>5, Constants DEF IsPoly
<1>7. Wave(Shift(Spread(C), d), N)
  BY <1>1, SpreadIs, ShiftIsWave
<1> QED
  BY <1>5, <1>6, <1>7 DEF Represents

-----------------------------------------------------------------------------

(* The number of chunks decode_commit looks at.                            *)
Chunks == N \div CommitLen

(* There are three chunks at least.                                        *)
LEMMA ChunksIs == Chunks \in Nat /\ Chunks >= 3 /\ N = CommitLen * Chunks
<1>1. PICK K \in Nat \ {0}, n \in Int : K = CommitLen /\ n = N /\ n > 2 * K
  BY Constants
<1>2. PICK m \in Int, r \in 0 .. K - 1 : n = r + K * m /\ m = n \div K /\ r = n % K
  BY Place
<1>3. r = 0
  BY <1>1, <1>2, RingElectionAssumption
<1>4. PICK v \in Int : v = K * m
  OBVIOUS
<1>5. n = r + v
  BY <1>2, <1>4
<1>6. n = v
  BY <1>3, <1>4, <1>5
<1>7. m >= 3
  <2>1. ASSUME m <= 2 PROVE FALSE
    <3>1. PICK l \in Nat : 2 = m + l
      BY <2>1
    <3>2. K * 2 = K * m + K * l
      BY <3>1
    <3>3. K * l \in Nat
      OBVIOUS
    <3> QED
      BY <1>1, <1>4, <1>6, <3>2, <3>3
  <2> QED
    BY <2>1
<1>8. Chunks = m
  BY <1>1, <1>2 DEF Chunks
<1>9. n = K * m
  BY <1>4, <1>6
<1>10. N = CommitLen * Chunks
  BY <1>1, <1>8, <1>9
<1> QED
  BY <1>7, <1>8, <1>10

(* X^r * C among the small polynomials.                                    *)
Turned(C, r) ==
    [j \in 0 .. CommitLen - 1 |-> IF j >= r THEN C[j - r] ELSE -C[(j - r) + CommitLen]]

(* A rotated commit is a polynomial.                                       *)
LEMMA TurnedIs ==
    ASSUME NEW C, IsPoly(C, CommitLen), NEW r \in 0 .. CommitLen - 1
    PROVE  IsPoly(Turned(C, r), CommitLen)
<1>1. CommitLen \in Int
  BY Constants
<1>2. ASSUME NEW j \in 0 .. CommitLen - 1 PROVE Turned(C, r)[j] \in Int
  <2>1. CASE j >= r
    <3>1. j - r \in 0 .. CommitLen - 1
      BY <1>1, <2>1
    <3>2. C[j - r] \in Int
      BY <3>1 DEF IsPoly
    <3> QED
      BY <2>1, <3>2 DEF Turned
  <2>2. CASE j < r
    <3>1. (j - r) + CommitLen \in 0 .. CommitLen - 1
      BY <1>1, <2>2
    <3>2. C[(j - r) + CommitLen] \in Int
      BY <3>1 DEF IsPoly
    <3> QED
      BY <1>1, <2>2, <3>2 DEF Turned
  <2> QED
    BY <1>1, <2>1, <2>2
<1> QED
  BY <1>2 DEF IsPoly

(* Where the rotated commit is, when it is rotated by chunk u, place r.    *)
LEMMA SpreadAt ==
    ASSUME NEW C, IsPoly(C, CommitLen), NEW k \in Int, NEW y \in Int,
           -N < y, y < N
    PROVE  /\ y >= 0 => Spread(C)[y - N * k] =
                            IF y < CommitLen THEN Signed(k, C[y]) ELSE 0
           /\ y < 0 => Spread(C)[y - N * k] =
                           IF y + N < CommitLen THEN -Signed(k, C[y + N]) ELSE 0
<1>1. PICK n \in Nat \ {0}, K \in Nat \ {0} : n = N /\ K = CommitLen
  BY Constants
<1>2. PICK v \in Int : v = n * k
  OBVIOUS
<1>3. CASE y >= 0
  <2>1. PICK i \in 0 .. N - 1, l \in Int : i = y /\ l = -k
    BY <1>1, <1>3
  <2>2. Spread(C)[N * l + i] = IF i < CommitLen THEN Signed(l, C[i]) ELSE 0
    BY SpreadIs
  <2>3. N * l + i = y - N * k
    <3>1. n * l = -v
      BY <1>2, <2>1
    <3> QED
      BY <1>1, <1>2, <2>1, <3>1
  <2>4. ASSUME i < CommitLen PROVE Signed(l, C[i]) = Signed(k, C[i])
    <3>1. i \in 0 .. CommitLen - 1
      BY <1>1, <2>4
    <3>2. PICK w \in Int : w = C[i]
      BY <3>1 DEF IsPoly
    <3>3. Signed(-k, w) = Signed(k, w)
      BY SignedFacts
    <3> QED
      BY <2>1, <3>2, <3>3
  <2> QED
    BY <1>3, <2>1, <2>2, <2>3, <2>4
<1>4. CASE y < 0
  <2>1. PICK i \in 0 .. N - 1, l \in Int : i = y + N /\ l = -(k + 1)
    BY <1>1, <1>4
  <2>2. Spread(C)[N * l + i] = IF i < CommitLen THEN Signed(l, C[i]) ELSE 0
    BY SpreadIs
  <2>3. N * l + i = y - N * k
    <3>1. n * l = -v - n
      BY <1>2, <2>1
    <3> QED
      BY <1>1, <1>2, <2>1, <3>1
  <2>4. ASSUME i < CommitLen PROVE Signed(l, C[i]) = -Signed(k, C[i])
    <3>1. i \in 0 .. CommitLen - 1
      BY <1>1, <2>4
    <3>2. PICK w \in Int : w = C[i]
      BY <3>1 DEF IsPoly
    <3>3. PICK m \in Int : m = k + 1
      OBVIOUS
    <3>4. Signed(-m, w) = Signed(m, w)
      BY SignedFacts
    <3>5. Signed(k + 1, w) = -Signed(k, w)
      BY SignedFacts
    <3> QED
      BY <2>1, <3>2, <3>3, <3>4, <3>5
  <2> QED
    BY <1>4, <2>1, <2>2, <2>3, <2>4
<1> QED
  BY <1>3, <1>4

(* A number of whole commits and a part of one.                            *)
LEMMA WholeCommits ==
    ASSUME NEW m \in Int, NEW z \in Int, -CommitLen < z, z < CommitLen
    PROVE  /\ CommitLen * m \in Int
           /\ m = 0 => CommitLen * m + z = z
           /\ m = 1 => CommitLen * m + z = CommitLen + z
           /\ m >= 2 => CommitLen * m + z > CommitLen
           /\ m <= -1 => CommitLen * m + z < 0
<1>1. PICK K \in Nat \ {0} : K = CommitLen
  BY Constants
<1>2. PICK v \in Int : v = K * m
  OBVIOUS
<1>3. m = 0 => v = 0
  BY <1>2
<1>4. m = 1 => v = K
  BY <1>2
<1>5. m >= 2 => v >= 2 * K
  <2>1. ASSUME m >= 2 PROVE v >= 2 * K
    <3>1. PICK l \in Nat : m = 2 + l
      BY <2>1
    <3>2. K * m = 2 * K + K * l
      BY <3>1
    <3>3. K * l \in Nat
      OBVIOUS
    <3> QED
      BY <1>2, <3>2, <3>3
  <2> QED
    BY <2>1
<1>6. m <= -1 => v <= -K
  BY <1>2, MultipleTooLarge
<1> QED
  BY <1>1, <1>2, <1>3, <1>4, <1>5, <1>6

(* Chunk c, place j of C rotated by u chunks, r places and e whole turns.  *)
LEMMA SpreadChunk ==
    ASSUME NEW C, IsPoly(C, CommitLen),
           NEW e \in Int, NEW u \in 0 .. Chunks - 1, NEW r \in 0 .. CommitLen - 1,
           NEW d \in Int, d = (CommitLen * u + r) + N * e,
           NEW c \in 0 .. Chunks - 1, NEW j \in 0 .. CommitLen - 1,
           NEW x \in Int, x = (c * CommitLen + j) - d
    PROVE  /\ c = u =>
                Spread(C)[x] = IF j >= r THEN Signed(e, Turned(C, r)[j]) ELSE 0
           /\ c = u + 1 =>
                Spread(C)[x] = IF j < r THEN -Signed(e, Turned(C, r)[j]) ELSE 0
           /\ c = 0 /\ u = Chunks - 1 =>
                Spread(C)[x] = IF j < r THEN Signed(e, Turned(C, r)[j]) ELSE 0
           /\ c # u /\ c # u + 1 /\ ~ (c = 0 /\ u = Chunks - 1) => Spread(C)[x] = 0
<1>1. PICK K \in Nat \ {0} : K = CommitLen
  BY Constants
<1>2. PICK M \in Nat : M = Chunks /\ M >= 3 /\ N = K * M
  BY <1>1, ChunksIs
<1>3. PICK n \in Nat \ {0} : n = N /\ n > 2 * K
  BY <1>1, Constants
<1>4. PICK z \in Int : z = j - r /\ -K < z /\ z < K
  BY <1>1
<1>5. PICK m, s \in Int : m = c - u /\ s = m + M
  BY <1>2
<1>6. PICK y \in Int : y = K * m + z
  OBVIOUS
<1>7. y + n = K * s + z
  <2>1. K * s = K * m + K * M
    BY <1>5
  <2>2. PICK a, b, v \in Int : a = K * s /\ b = K * m /\ v = K * M
    OBVIOUS
  <2> QED
    BY <1>2, <1>3, <1>6, <2>1, <2>2
<1>8. x = y - N * e
  <2>1. K * m = K * c - K * u
    BY <1>5
  <2>2. PICK a, b, v, w \in Int : a = K * m /\ b = K * c /\ v = K * u /\ w = n * e
    OBVIOUS
  <2>3. c * CommitLen = b
    BY <1>1, <2>2
  <2>4. d = (v + r) + w
    BY <1>1, <1>3, <2>2
  <2> QED
    BY <1>1, <1>3, <1>4, <1>6, <2>1, <2>2, <2>3, <2>4
<1>9. /\ m = 0 => y = z
      /\ m = 1 => y = K + z
      /\ m >= 2 => y > K
      /\ m <= -1 => y < 0
  BY <1>1, <1>4, <1>6, WholeCommits
<1>10. /\ s = 1 => y + n = K + z
       /\ s >= 2 => y + n > K
  BY <1>1, <1>4, <1>7, WholeCommits
<1>11. s >= 1 /\ (s = 1 <=> c = 0 /\ u = M - 1)
  BY <1>2, <1>5
<1>12. /\ m = 0 <=> c = u
       /\ m = 1 <=> c = u + 1
  BY <1>5
<1>13. -n < y /\ y < n
  <2>1. s = 1 => m <= -1
    BY <1>2, <1>5
  <2>2. y + n > 0
    BY <1>1, <1>4, <1>10, <1>11
  <2>3. y < n
    <3>1. n - y = K * (M - m) - z
      <4>1. K * (M - m) = K * M - K * m
        OBVIOUS
      <4>2. PICK a, b, v \in Int : a = K * M /\ b = K * m /\ v = K * (M - m)
        OBVIOUS
      <4> QED
        BY <1>2, <1>3, <1>6, <4>1, <4>2
    <3>2. PICK l, w \in Int : l = M - m /\ w = -z
      OBVIOUS
    <3>3. l >= 1
      BY <1>2, <1>5, <3>2
    <3>4. -CommitLen < w /\ w < CommitLen
      BY <1>1, <1>4, <3>2
    <3>5. /\ l = 1 => CommitLen * l + w = CommitLen + w
          /\ l >= 2 => CommitLen * l + w > CommitLen
      BY <3>4, WholeCommits
    <3>6. K * l + w > 0
      BY <1>1, <3>3, <3>4, <3>5
    <3>7. PICK v \in Int : v = K * l
      OBVIOUS
    <3>8. n - y = v - z
      BY <3>1, <3>2, <3>7
    <3> QED
      BY <3>2, <3>6, <3>7, <3>8
  <2> QED
    BY <2>2, <2>3
<1>14. /\ y >= 0 => Spread(C)[y - N * e] = IF y < CommitLen THEN Signed(e, C[y]) ELSE 0
       /\ y < 0 => Spread(C)[y - N * e] =
                       IF y + N < CommitLen THEN -Signed(e, C[y + N]) ELSE 0
  <2>1. -N < y /\ y < N
    BY <1>3, <1>13
  <2> QED
    BY <2>1, SpreadAt
<1>15. /\ y >= 0 => Spread(C)[x] = IF y < K THEN Signed(e, C[y]) ELSE 0
       /\ y < 0 => Spread(C)[x] = IF y + n < K THEN -Signed(e, C[y + n]) ELSE 0
  BY <1>1, <1>3, <1>8, <1>14
<1>16. Turned(C, r)[j] = IF j >= r THEN C[j - r] ELSE -C[(j - r) + K]
  BY <1>1 DEF Turned
<1>17. ASSUME j < r
       PROVE  /\ -Signed(e, C[z + K]) = Signed(e, Turned(C, r)[j])
              /\ Signed(e, C[z + K]) = -Signed(e, Turned(C, r)[j])
  <2>1. PICK i \in 0 .. K - 1 : i = z + K
    BY <1>4, <1>17
  <2>2. PICK w \in Int : w = C[i]
    BY <1>1 DEF IsPoly
  <2>3. Turned(C, r)[j] = -w
    BY <1>4, <1>16, <1>17, <2>1, <2>2
  <2>4. Signed(e, w) \in Int /\ Signed(e, -w) = -Signed(e, w)
    BY SignedFacts
  <2>5. PICK v \in Int : v = Signed(e, w)
    BY <2>4
  <2> QED
    BY <2>1, <2>2, <2>3, <2>4, <2>5
<1>18. CASE c = u
  <2>1. y = z
    BY <1>9, <1>12, <1>18
  <2>2. CASE j >= r
    <3>1. y >= 0 /\ y < K
      BY <1>4, <2>1, <2>2
    <3>2. Spread(C)[x] = Signed(e, C[y])
      BY <1>15, <3>1
    <3>3. Turned(C, r)[j] = C[y]
      BY <1>4, <1>16, <2>1, <2>2
    <3> QED
      BY <1>2, <1>5, <1>12, <1>18, <2>2, <3>2, <3>3
  <2>3. CASE j < r
    <3>1. y < 0 /\ ~ (y + n < K)
      BY <1>3, <1>4, <2>1, <2>3
    <3>2. Spread(C)[x] = 0
      BY <1>15, <3>1
    <3> QED
      BY <1>1, <1>2, <1>5, <1>12, <1>18, <2>3, <3>2
  <2> QED
    BY <1>1, <2>2, <2>3
<1>19. CASE c = u + 1
  <2>1. y = K + z /\ y >= 0
    BY <1>4, <1>9, <1>12, <1>19
  <2>2. CASE j < r
    <3>1. y < K /\ y = z + K
      BY <1>4, <2>1, <2>2
    <3>2. Spread(C)[x] = Signed(e, C[y])
      BY <1>15, <2>1, <3>1
    <3> QED
      BY <1>12, <1>17, <1>19, <2>2, <3>1, <3>2
  <2>3. CASE j >= r
    <3>1. ~ (y < K)
      BY <1>4, <2>1, <2>3
    <3>2. Spread(C)[x] = 0
      BY <1>15, <2>1, <3>1
    <3> QED
      BY <1>1, <1>12, <1>19, <2>3, <3>2
  <2> QED
    BY <1>1, <2>2, <2>3
<1>20. CASE c = 0 /\ u = M - 1
  <2>1. y < 0 /\ y + n = K + z
    BY <1>2, <1>5, <1>9, <1>10, <1>11, <1>20
  <2>2. CASE j < r
    <3>1. y + n < K /\ y + n = z + K
      BY <1>4, <2>1, <2>2
    <3>2. Spread(C)[x] = -Signed(e, C[y + n])
      BY <1>15, <2>1, <3>1
    <3> QED
      BY <1>2, <1>17, <1>20, <2>2, <3>1, <3>2
  <2>3. CASE j >= r
    <3>1. ~ (y + n < K)
      BY <1>4, <2>1, <2>3
    <3>2. Spread(C)[x] = 0
      BY <1>15, <2>1, <3>1
    <3> QED
      BY <1>1, <1>2, <1>20, <2>3, <3>2
  <2> QED
    BY <1>1, <2>2, <2>3
<1>21. CASE c # u /\ c # u + 1 /\ ~ (c = 0 /\ u = M - 1)
  <2>1. Spread(C)[x] = 0
    <3>1. CASE y >= 0
      <4>1. m >= 2
        BY <1>9, <1>12, <1>21, <3>1
      <4>2. ~ (y < K)
        BY <1>9, <4>1
      <4> QED
        BY <1>15, <3>1, <4>2
    <3>2. CASE y < 0
      <4>1. s >= 2
        BY <1>11, <1>21
      <4>2. ~ (y + n < K)
        BY <1>10, <4>1
      <4> QED
        BY <1>15, <3>2, <4>2
    <3> QED
      BY <3>1, <3>2
  <2> QED
    BY <1>2, <1>21, <2>1
<1> QED
  BY <1>2, <1>18, <1>19, <1>20, <1>21

-----------------------------------------------------------------------------

(* The chunk the rotated commit goes on in.                                *)
After(u) == IF u = Chunks - 1 THEN 0 ELSE u + 1

(* f has nothing but R, with the sign of e: what is at place r or later in *)
(* chunk u, the rest in the chunk after it, where the sign changes if it   *)
(* is not the first one.                                                   *)
Shows(f, R, e, u, r) ==
    \A c \in 0 .. Chunks - 1, j \in 0 .. CommitLen - 1 :
        /\ f[c * CommitLen + j] \in 0 .. P - 1
        /\ c = u =>
             Same(f[c * CommitLen + j], IF j >= r THEN Signed(e, R[j]) ELSE 0)
        /\ c = u + 1 =>
             Same(f[c * CommitLen + j], IF j < r THEN -Signed(e, R[j]) ELSE 0)
        /\ c = 0 /\ u = Chunks - 1 =>
             Same(f[c * CommitLen + j], IF j < r THEN Signed(e, R[j]) ELSE 0)
        /\ c # u /\ c # After(u) => Same(f[c * CommitLen + j], 0)

(* The commit that was rotated is in two chunks, and nothing is in the     *)
(* others.                                                                 *)
LEMMA RepresentsShows ==
    ASSUME NEW C, IsPoly(C, CommitLen), NEW f,
           NEW e \in Int, NEW u \in 0 .. Chunks - 1, NEW r \in 0 .. CommitLen - 1,
           NEW d \in Int, d = (CommitLen * u + r) + N * e,
           Represents(f, Shift(Spread(C), d), N),
           \A i \in 0 .. N - 1 : f[i] \in 0 .. P - 1
    PROVE  Shows(f, Turned(C, r), e, u, r)
<1> SUFFICES ASSUME NEW c \in 0 .. Chunks - 1, NEW j \in 0 .. CommitLen - 1
             PROVE  /\ f[c * CommitLen + j] \in 0 .. P - 1
                    /\ c = u => Same(f[c * CommitLen + j],
                                     IF j >= r THEN Signed(e, Turned(C, r)[j]) ELSE 0)
                    /\ c = u + 1 => Same(f[c * CommitLen + j],
                                     IF j < r THEN -Signed(e, Turned(C, r)[j]) ELSE 0)
                    /\ c = 0 /\ u = Chunks - 1 => Same(f[c * CommitLen + j],
                                     IF j < r THEN Signed(e, Turned(C, r)[j]) ELSE 0)
                    /\ c # u /\ c # After(u) => Same(f[c * CommitLen + j], 0)
  BY DEF Shows
<1>1. PICK i \in 0 .. N - 1 : i = c * CommitLen + j
  <2>1. PICK K \in Nat \ {0}, M \in Nat : K = CommitLen /\ M = Chunks
    BY Constants, ChunksIs
  <2>2. PICK l \in Nat : M = c + 1 + l
    BY <2>1
  <2>3. K * M = K * c + K + K * l
    BY <2>2
  <2>4. K * l \in Nat /\ K * c \in Nat
    BY <2>1
  <2>5. N = K * M /\ c * K = K * c
    BY <2>1, ChunksIs
  <2>6. PICK a, b, v \in Nat : a = K * c /\ b = K * l /\ v = K * M
    BY <2>1, <2>4
  <2>7. N = a + K + b /\ c * K + j = a + j
    BY <2>3, <2>5, <2>6
  <2>8. a + j \in 0 .. N - 1
    BY <2>1, <2>6, <2>7
  <2> QED
    BY <2>1, <2>7, <2>8
<1>2. PICK x \in Int : x = i - d
  BY Constants
<1>3. x = (c * CommitLen + j) - d
  BY <1>1, <1>2
<1>4. /\ c = u =>
           Spread(C)[x] = IF j >= r THEN Signed(e, Turned(C, r)[j]) ELSE 0
      /\ c = u + 1 =>
           Spread(C)[x] = IF j < r THEN -Signed(e, Turned(C, r)[j]) ELSE 0
      /\ c = 0 /\ u = Chunks - 1 =>
           Spread(C)[x] = IF j < r THEN Signed(e, Turned(C, r)[j]) ELSE 0
      /\ c # u /\ c # u + 1 /\ ~ (c = 0 /\ u = Chunks - 1) => Spread(C)[x] = 0
  BY <1>3, SpreadChunk
<1>5. Same(f[i], Spread(C)[x])
  <2>1. Same(f[i], Shift(Spread(C), d)[i])
    BY DEF Represents
  <2>2. PICK y \in Int : y = i
    BY Constants
  <2>3. Shift(Spread(C), d)[y] = Spread(C)[x]
    BY <1>2, <2>2 DEF Shift
  <2> QED
    BY <2>1, <2>2, <2>3
<1>6. c # u /\ c # After(u) => c # u /\ c # u + 1 /\ ~ (c = 0 /\ u = Chunks - 1)
  BY ChunksIs DEF After
<1> QED
  BY <1>1, <1>4, <1>5, <1>6

(* A number is congruent to zero if its opposite is.                       *)
LEMMA SameZero ==
    ASSUME NEW x \in Int, NEW y \in Int, y = -x, Same(0, y)
    PROVE  Same(0, x)
<1>1. PICK z \in Int : z = 0
  OBVIOUS
<1>2. PICK k \in Int : z = y + P * k
  BY <1>1, SameDiffers
<1>3. P \in Int
  BY Constants
<1>4. PICK v \in Int : v = P * k
  BY <1>3
<1>5. x = z + v
  <2>1. z = y + v
    BY <1>2, <1>4
  <2>2. y + x = 0
    OBVIOUS
  <2>3. y + x = z
    BY <1>1, <2>2
  <2>4. x = v
    BY <2>1, <2>3
  <2>5. z + v = v
    BY <1>1
  <2> QED
    BY <2>4, <2>5
<1>6. Same(x, z)
  BY <1>4, <1>5, SameBy
<1> QED
  BY <1>1, <1>6, SameSym

(* What one half of the commits looks like, chunk by chunk.                *)
LEMMA ChunkShows ==
    ASSUME NEW f, NEW R, IsPoly(R, CommitLen),
           NEW e \in Int, NEW u \in 0 .. Chunks - 1, NEW r \in 0 .. CommitLen - 1,
           Shows(f, R, e, u, r)
    PROVE  /\ \A c \in 0 .. Chunks - 1 :
                 c # u /\ c # After(u) => Chunk(f, c) = Zero(CommitLen)
           /\ Chunk(f, After(u)) = Zero(CommitLen) =>
                 \A j \in 0 .. CommitLen - 1 : Same(Chunk(f, u)[j], Signed(e, R[j]))
           /\ Chunk(f, u) = Zero(CommitLen) =>
                 \A j \in 0 .. CommitLen - 1 :
                     Same(Chunk(f, After(u))[j],
                          IF After(u) = 0 THEN Signed(e, R[j]) ELSE -Signed(e, R[j]))
           /\ Chunk(f, u) = Zero(CommitLen) /\ Chunk(f, After(u)) = Zero(CommitLen) =>
                 \A j \in 0 .. CommitLen - 1 : Same(0, Signed(e, R[j]))
<1>1. /\ Chunks \in Nat /\ Chunks >= 3 /\ CommitLen \in Nat \ {0} /\ P \in Nat \ {0}
      /\ 0 \in 0 .. P - 1
  BY Constants, ChunksIs
<1>2. PICK v \in 0 .. Chunks - 1 : v = After(u)
  BY <1>1 DEF After
<1>3. v = 0 <=> u = Chunks - 1
  BY <1>1, <1>2 DEF After
<1>4. v # 0 => v = u + 1
  BY <1>1, <1>2 DEF After
<1>5. ASSUME NEW c \in 0 .. Chunks - 1, NEW j \in 0 .. CommitLen - 1
      PROVE  /\ Chunk(f, c)[j] = f[c * CommitLen + j]
             /\ Chunk(f, c)[j] \in 0 .. P - 1
             /\ Chunk(f, c) = Zero(CommitLen) => Chunk(f, c)[j] = 0
             /\ R[j] \in Int /\ Signed(e, R[j]) \in Int /\ -Signed(e, R[j]) \in Int
  <2>1. Chunk(f, c)[j] = f[c * CommitLen + j] /\ Zero(CommitLen)[j] = 0
    BY DEF Chunk, Zero
  <2>2. f[c * CommitLen + j] \in 0 .. P - 1
    BY DEF Shows
  <2>3. PICK x \in Int : x = R[j]
    BY DEF IsPoly
  <2>4. Signed(e, x) \in Int
    BY SignedFacts
  <2>5. PICK y \in Int : y = Signed(e, x)
    BY <2>4
  <2> QED
    BY <2>1, <2>2, <2>3, <2>5
<1>6. ASSUME NEW j \in 0 .. CommitLen - 1
      PROVE  /\ Same(Chunk(f, u)[j], IF j >= r THEN Signed(e, R[j]) ELSE 0)
             /\ v = 0 => Same(Chunk(f, v)[j], IF j < r THEN Signed(e, R[j]) ELSE 0)
             /\ v # 0 => Same(Chunk(f, v)[j], IF j < r THEN -Signed(e, R[j]) ELSE 0)
  <2>1. Same(f[u * CommitLen + j], IF j >= r THEN Signed(e, R[j]) ELSE 0)
    BY DEF Shows
  <2>2. v = 0 => Same(f[v * CommitLen + j], IF j < r THEN Signed(e, R[j]) ELSE 0)
    BY <1>3 DEF Shows
  <2>3. v # 0 => Same(f[v * CommitLen + j], IF j < r THEN -Signed(e, R[j]) ELSE 0)
    BY <1>4 DEF Shows
  <2> QED
    BY <1>5, <2>1, <2>2, <2>3
<1>7. ASSUME NEW c \in 0 .. Chunks - 1, c # u, c # v PROVE Chunk(f, c) = Zero(CommitLen)
  <2>1. ASSUME NEW j \in 0 .. CommitLen - 1 PROVE f[c * CommitLen + j] = 0
    <3>1. f[c * CommitLen + j] \in 0 .. P - 1 /\ Same(f[c * CommitLen + j], 0)
      BY <1>2, <1>7 DEF Shows
    <3> QED
      BY <1>1, <3>1, SameResidue
  <2> QED
    BY <2>1 DEF Chunk, Zero
<1>8. ASSUME Chunk(f, v) = Zero(CommitLen), NEW j \in 0 .. CommitLen - 1, j < r
      PROVE  Same(0, Signed(e, R[j]))
  <2>1. Chunk(f, v)[j] = 0
    BY <1>5, <1>8
  <2>2. PICK x, y \in Int : x = Signed(e, R[j]) /\ y = -x
    BY <1>5
  <2>3. CASE v = 0
    BY <1>6, <1>8, <2>1, <2>3
  <2>4. CASE v # 0
    <3>1. Same(0, y)
      BY <1>6, <1>8, <2>1, <2>2, <2>4
    <3>2. Same(0, x)
      BY <2>2, <3>1, SameZero
    <3> QED
      BY <2>2, <3>2
  <2> QED
    BY <2>3, <2>4
<1>9. ASSUME Chunk(f, u) = Zero(CommitLen), NEW j \in 0 .. CommitLen - 1, j >= r
      PROVE  Same(0, Signed(e, R[j])) /\ Same(0, -Signed(e, R[j]))
  <2>1. Chunk(f, u)[j] = 0
    BY <1>5, <1>9
  <2>2. PICK x, y \in Int : x = Signed(e, R[j]) /\ y = -x
    BY <1>5
  <2>3. Same(0, x)
    BY <1>6, <1>9, <2>1, <2>2
  <2>4. x = -y
    BY <2>2
  <2>5. Same(0, y)
    BY <2>3, <2>4, SameZero
  <2> QED
    BY <2>2, <2>3, <2>5
<1>10. ASSUME Chunk(f, v) = Zero(CommitLen), NEW j \in 0 .. CommitLen - 1
       PROVE  Same(Chunk(f, u)[j], Signed(e, R[j]))
  <2>1. CASE j >= r
    BY <1>6, <2>1
  <2>2. CASE ~ (j >= r)
    <3>1. j < r
      BY <1>1, <2>2
    <3>2. Same(Chunk(f, u)[j], 0)
      BY <1>6, <2>2
    <3> QED
      BY <1>8, <1>10, <3>1, <3>2, SameTrans
  <2> QED
    BY <2>1, <2>2
<1>11. ASSUME Chunk(f, u) = Zero(CommitLen), NEW j \in 0 .. CommitLen - 1
       PROVE  Same(Chunk(f, v)[j], IF v = 0 THEN Signed(e, R[j]) ELSE -Signed(e, R[j]))
  <2>1. CASE j < r
    BY <1>6, <2>1
  <2>2. CASE ~ (j < r)
    <3>1. j >= r
      BY <1>1, <2>2
    <3>2. Same(Chunk(f, v)[j], 0)
      BY <1>6, <2>2
    <3> QED
      BY <1>9, <1>11, <3>1, <3>2, SameTrans
  <2> QED
    BY <2>1, <2>2
<1>12. ASSUME Chunk(f, u) = Zero(CommitLen), Chunk(f, v) = Zero(CommitLen),
              NEW j \in 0 .. CommitLen - 1
       PROVE  Same(0, Signed(e, R[j]))
  <2>1. Same(Chunk(f, u)[j], Signed(e, R[j])) /\ Chunk(f, u)[j] = 0
    BY <1>5, <1>10, <1>12
  <2> QED
    BY <2>1
<1> QED
  BY <1>2, <1>7, <1>10, <1>11, <1>12

(* Added up or subtracted as Joined does, the two chunks are the rotated   *)
(* commit.                                                                 *)
LEMMA JoinedShows ==
    ASSUME NEW f, NEW R, IsPoly(R, CommitLen),
           NEW e \in Int, NEW u \in 0 .. Chunks - 1, NEW r \in 0 .. CommitLen - 1,
           Shows(f, R, e, u, r),
           NEW j \in 0 .. CommitLen - 1
    PROVE  /\ After(u) # 0 => Same(Joined(f, u, After(u))[j], Signed(e, R[j]))
           /\ After(u) = 0 => Same(Joined(f, 0, u)[j], Signed(e, R[j]))
<1>1. /\ Chunks \in Nat /\ Chunks >= 3 /\ CommitLen \in Nat \ {0} /\ P \in Nat \ {0}
      /\ 0 \in 0 .. Chunks - 1
  BY Constants, ChunksIs
<1>2. ASSUME NEW c \in 0 .. Chunks - 1
      PROVE  Chunk(f, c)[j] = f[c * CommitLen + j] /\ Chunk(f, c)[j] \in Int
  <2>1. f[c * CommitLen + j] \in 0 .. P - 1
    BY DEF Shows
  <2> QED
    BY <1>1, <2>1 DEF Chunk
<1>3. PICK x \in Int : x = Signed(e, R[j])
  <2>1. PICK y \in Int : y = R[j]
    BY DEF IsPoly
  <2> QED
    BY <2>1, SignedFacts
<1>4. PICK p \in Int : p = Chunk(f, u)[j] /\ Same(p, IF j >= r THEN x ELSE 0)
  <2>1. Same(f[u * CommitLen + j], IF j >= r THEN Signed(e, R[j]) ELSE 0)
    BY DEF Shows
  <2> QED
    BY <1>2, <1>3, <2>1
<1>5. ASSUME After(u) # 0
      PROVE  Same(Joined(f, u, After(u))[j], Signed(e, R[j]))
  <2>1. PICK v \in 0 .. Chunks - 1 : v = After(u) /\ v = u + 1
    BY <1>1, <1>5 DEF After
  <2>2. PICK q, y \in Int : q = Chunk(f, v)[j] /\ y = -x /\ Same(q, IF j < r THEN y ELSE 0)
    <3>1. Same(f[v * CommitLen + j], IF j < r THEN -Signed(e, R[j]) ELSE 0)
      BY <2>1 DEF Shows
    <3>2. PICK y \in Int : y = -x
      OBVIOUS
    <3> QED
      BY <1>2, <1>3, <3>1, <3>2
  <2>3. PICK w \in Int : w = p + (-1) * q
    OBVIOUS
  <2>4. Joined(f, u, v)[j] = w % P
    BY <1>4, <2>1, <2>2, <2>3 DEF Joined
  <2>5. w = p - q
    BY <2>3
  <2>6. Same(p - q, x)
    <3>1. CASE j >= r
      <4>1. Same(p, x)
        BY <1>4, <3>1
      <4>2. PICK z \in Int : z = 0
        OBVIOUS
      <4>3. ~ (j < r)
        BY <1>1, <3>1
      <4>4. Same(q, z)
        BY <2>2, <4>2, <4>3
      <4>5. Same(p - q, x - z)
        BY <4>1, <4>4, SameRing
      <4>6. x - z = x
        BY <4>2
      <4> QED
        BY <4>5, <4>6
    <3>2. CASE ~ (j >= r)
      <4>1. PICK z \in Int : z = 0
        OBVIOUS
      <4>2. Same(p, z)
        BY <1>4, <3>2, <4>1
      <4>3. j < r
        BY <1>1, <3>2
      <4>4. Same(q, y)
        BY <2>2, <4>3
      <4>5. Same(p - q, z - y)
        BY <4>2, <4>4, SameRing
      <4>6. z - y = x
        <5>1. x + y = 0
          BY <2>2
        <5>2. x + y = z
          BY <4>1, <5>1
        <5> QED
          BY <5>2
      <4> QED
        BY <4>5, <4>6
    <3> QED
      BY <3>1, <3>2
  <2>7. Same(w % P, w)
    BY SameMod
  <2> QED
    BY <1>3, <2>1, <2>4, <2>5, <2>6, <2>7, SameTrans
<1>6. ASSUME After(u) = 0
      PROVE  Same(Joined(f, 0, u)[j], Signed(e, R[j]))
  <2>1. u = Chunks - 1 /\ u # 0 + 1
    BY <1>1, <1>6 DEF After
  <2>2. PICK q \in Int : q = Chunk(f, 0)[j] /\ Same(q, IF j < r THEN x ELSE 0)
    <3>1. Same(f[0 * CommitLen + j], IF j < r THEN Signed(e, R[j]) ELSE 0)
      BY <1>1, <2>1 DEF Shows
    <3>2. Chunk(f, 0)[j] = f[0 * CommitLen + j] /\ Chunk(f, 0)[j] \in Int
      BY <1>1, <1>2
    <3> QED
      BY <1>3, <3>1, <3>2
  <2>3. PICK w \in Int : w = q + 1 * p
    OBVIOUS
  <2>4. Joined(f, 0, u)[j] = w % P
    BY <1>4, <2>1, <2>2, <2>3 DEF Joined
  <2>5. w = q + p
    BY <2>3
  <2>6. Same(q + p, x)
    <3>1. PICK z \in Int : z = 0
      OBVIOUS
    <3>2. x + z = x /\ z + x = x
      BY <3>1
    <3>3. CASE j >= r
      <4>1. Same(p, x) /\ ~ (j < r)
        BY <1>1, <1>4, <3>3
      <4>2. Same(q, z)
        BY <2>2, <3>1, <4>1
      <4>3. Same(q + p, z + x)
        BY <4>1, <4>2, SameRing
      <4> QED
        BY <3>2, <4>3
    <3>4. CASE ~ (j >= r)
      <4>1. Same(p, z) /\ j < r
        BY <1>1, <1>4, <3>1, <3>4
      <4>2. Same(q, x)
        BY <2>2, <4>1
      <4>3. Same(q + p, x + z)
        BY <4>1, <4>2, SameRing
      <4> QED
        BY <3>2, <4>3
    <3> QED
      BY <3>3, <3>4
  <2>7. Same(w % P, w)
    BY SameMod
  <2> QED
    BY <1>3, <2>4, <2>5, <2>6, <2>7, SameTrans
<1> QED
  BY <1>5, <1>6

(* The least member of a set is its minimum.                               *)
LEMMA MinIs ==
    ASSUME NEW S, NEW x \in S, \A y \in S : y \in Int, \A y \in S : x =< y
    PROVE  Min(S) = x
<1>1. \A y \in S : (\A z \in S : y =< z) => y = x
  OBVIOUS
<1> QED
  BY <1>1 DEF Min

(* The small polynomial D is R, with the sign of e.                        *)
Decodes(D, R, e) ==
    D \in Small /\ \A j \in 0 .. CommitLen - 1 : Same(D[j], Signed(e, R[j]))

(* decode_commit finds both halves of the rotated commit, with one sign.   *)
LEMMA DecodeShows ==
    ASSUME NEW a, NEW b, NEW R, NEW S, IsPoly(R, CommitLen), IsPoly(S, CommitLen),
           NEW e \in Int, NEW u \in 0 .. Chunks - 1, NEW r \in 0 .. CommitLen - 1,
           Shows(a, R, e, u, r), Shows(b, S, e, u, r)
    PROVE  \E k \in Int : /\ Decodes(DecodeCommit(a, b)[1], R, k)
                          /\ Decodes(DecodeCommit(a, b)[2], S, k)
<1>1. /\ Chunks \in Nat /\ Chunks >= 3 /\ CommitLen \in Nat \ {0} /\ P \in Nat \ {0}
      /\ 0 \in 0 .. P - 1
  BY Constants, ChunksIs
<1>2. PICK v \in 0 .. Chunks - 1 : v = After(u) /\ v # u
  BY <1>1 DEF After
<1>3. v = 0 => u > v
  BY <1>1, <1>2 DEF After
<1>4. v # 0 => v = u + 1
  BY <1>1, <1>2 DEF After
<1>5. PICK found : found = {i \in 0 .. Chunks - 1 :
             Chunk(a, i) # Zero(CommitLen) \/ Chunk(b, i) # Zero(CommitLen)}
  OBVIOUS
<1> DEFINE first == Min(found)
           rest == found \ {first}
           D(f) == IF found = {} THEN Zero(CommitLen)
                   ELSE IF rest = {} THEN Chunk(f, first) ELSE Joined(f, first, Min(rest))
<1>6. DecodeCommit(a, b) = <<D(a), D(b)>>
  BY <1>5 DEF DecodeCommit, Chunks
<1>7. ASSUME NEW c \in 0 .. Chunks - 1
      PROVE  /\ c \notin found => Chunk(a, c) = Zero(CommitLen) /\ Chunk(b, c) = Zero(CommitLen)
             /\ c \in found => Chunk(a, c) # Zero(CommitLen) \/ Chunk(b, c) # Zero(CommitLen)
  BY <1>5
<1>8. found \subseteq {u, v}
  <2>1. ASSUME NEW c \in 0 .. Chunks - 1, c # u, c # v PROVE c \notin found
    <3>1. Chunk(a, c) = Zero(CommitLen)
      BY <1>2, <2>1, ChunkShows
    <3>2. Chunk(b, c) = Zero(CommitLen)
      BY <1>2, <2>1, ChunkShows
    <3> QED
      BY <1>7, <3>1, <3>2
  <2> QED
    BY <1>5, <2>1
<1>9. Zero(CommitLen) \in Small
  BY <1>1 DEF Zero, Small
<1>10. ASSUME NEW f, NEW T, Shows(f, T, e, u, r), NEW c \in 0 .. Chunks - 1
       PROVE  Chunk(f, c) \in Small
  <2>1. \A j \in 0 .. CommitLen - 1 : f[c * CommitLen + j] \in 0 .. P - 1
    BY <1>10 DEF Shows
  <2> QED
    BY <2>1 DEF Chunk, Small
<1>11. ASSUME NEW f, NEW T, Shows(f, T, e, u, r),
              NEW c \in 0 .. Chunks - 1, NEW d \in 0 .. Chunks - 1
       PROVE  Joined(f, c, d) \in Small
  <2>1. ASSUME NEW j \in 0 .. CommitLen - 1
        PROVE  (Chunk(f, c)[j] + (IF d = c + 1 THEN -1 ELSE 1) * Chunk(f, d)[j]) % P
                  \in 0 .. P - 1
    <3>1. Chunk(f, c)[j] \in 0 .. P - 1 /\ Chunk(f, d)[j] \in 0 .. P - 1
      BY <1>10, <1>11 DEF Small
    <3>2. PICK x, y \in Int : x = Chunk(f, c)[j] /\ y = Chunk(f, d)[j]
      BY <1>1, <3>1
    <3>3. PICK s \in Int : s = IF d = c + 1 THEN -1 ELSE 1
      OBVIOUS
    <3>4. PICK w \in Int : w = x + s * y
      OBVIOUS
    <3>5. w % P \in 0 .. P - 1
      BY SameMod
    <3> QED
      BY <3>2, <3>3, <3>4, <3>5
  <2> QED
    BY <2>1 DEF Joined, Small
<1>12. CASE found = {}
  <2>1. D(a) = Zero(CommitLen) /\ D(b) = Zero(CommitLen)
    BY <1>12
  <2>2. u \notin found /\ v \notin found
    BY <1>12
  <2>3. ASSUME NEW f, NEW T, IsPoly(T, CommitLen), Shows(f, T, e, u, r),
               Chunk(f, u) = Zero(CommitLen), Chunk(f, v) = Zero(CommitLen)
        PROVE  Decodes(Zero(CommitLen), T, e)
    <3>1. \A j \in 0 .. CommitLen - 1 : Same(0, Signed(e, T[j]))
      BY <1>2, <2>3, ChunkShows
    <3>2. \A j \in 0 .. CommitLen - 1 : Zero(CommitLen)[j] = 0
      BY DEF Zero
    <3> QED
      BY <1>9, <3>1, <3>2 DEF Decodes
  <2>4. Decodes(D(a), R, e) /\ Decodes(D(b), S, e)
    BY <1>7, <2>1, <2>2, <2>3
  <2> QED
    BY <1>6, <2>4
<1>13. CASE found = {u}
  <2>1. first = u
    BY <1>13, MinIs
  <2>2. D(a) = Chunk(a, u) /\ D(b) = Chunk(b, u)
    BY <1>13, <2>1
  <2>3. v \notin found
    BY <1>2, <1>13
  <2>4. ASSUME NEW f, NEW T, IsPoly(T, CommitLen), Shows(f, T, e, u, r),
               Chunk(f, v) = Zero(CommitLen)
        PROVE  Decodes(Chunk(f, u), T, e)
    <3>1. \A j \in 0 .. CommitLen - 1 : Same(Chunk(f, u)[j], Signed(e, T[j]))
      BY <1>2, <2>4, ChunkShows
    <3> QED
      BY <1>10, <2>4, <3>1 DEF Decodes
  <2>5. Decodes(D(a), R, e) /\ Decodes(D(b), S, e)
    BY <1>7, <2>2, <2>3, <2>4
  <2> QED
    BY <1>6, <2>5
<1>14. CASE found = {v}
  <2>1. first = v
    BY <1>14, MinIs
  <2>2. D(a) = Chunk(a, v) /\ D(b) = Chunk(b, v)
    BY <1>14, <2>1
  <2>3. u \notin found
    BY <1>2, <1>14
  <2>4. PICK k \in Int : k = IF v = 0 THEN e ELSE e + 1
    OBVIOUS
  <2>5. ASSUME NEW f, NEW T, IsPoly(T, CommitLen), Shows(f, T, e, u, r),
               Chunk(f, u) = Zero(CommitLen)
        PROVE  Decodes(Chunk(f, v), T, k)
    <3>1. \A j \in 0 .. CommitLen - 1 :
             Same(Chunk(f, v)[j], IF v = 0 THEN Signed(e, T[j]) ELSE -Signed(e, T[j]))
      BY <1>2, <2>5, ChunkShows
    <3>2. ASSUME NEW j \in 0 .. CommitLen - 1
          PROVE  Signed(k, T[j]) = IF v = 0 THEN Signed(e, T[j]) ELSE -Signed(e, T[j])
      <4>1. PICK x \in Int : x = T[j]
        BY <2>5 DEF IsPoly
      <4>2. Signed(e + 1, x) = -Signed(e, x)
        BY SignedFacts
      <4> QED
        BY <2>4, <4>1, <4>2
    <3> QED
      BY <1>10, <2>5, <3>1, <3>2 DEF Decodes
  <2>6. Decodes(D(a), R, k) /\ Decodes(D(b), S, k)
    BY <1>7, <2>2, <2>3, <2>5
  <2> QED
    BY <1>6, <2>6
<1>15. CASE found = {u, v}
  <2>1. CASE v # 0
    <3>1. first = u
      <4>1. u \in found /\ \A y \in found : y \in Int /\ u =< y
        BY <1>4, <1>15, <2>1
      <4> QED
        BY <4>1, MinIs
    <3>2. rest = {v}
      BY <1>2, <1>15, <3>1
    <3>3. Min(rest) = v
      <4>1. v \in rest /\ \A y \in rest : y \in Int /\ v =< y
        BY <1>3, <3>2
      <4> QED
        BY <4>1, MinIs
    <3>4. found # {} /\ rest # {}
      BY <1>15, <3>2
    <3>5. D(a) = Joined(a, u, v) /\ D(b) = Joined(b, u, v)
      BY <3>1, <3>3, <3>4
    <3>6. ASSUME NEW f, NEW T, IsPoly(T, CommitLen), Shows(f, T, e, u, r)
          PROVE  Decodes(Joined(f, u, v), T, e)
      <4>1. \A j \in 0 .. CommitLen - 1 : Same(Joined(f, u, v)[j], Signed(e, T[j]))
        BY <1>2, <2>1, <3>6, JoinedShows
      <4> QED
        BY <1>11, <3>6, <4>1 DEF Decodes
    <3>7. Decodes(D(a), R, e) /\ Decodes(D(b), S, e)
      BY <3>5, <3>6
    <3> QED
      BY <1>6, <3>7
  <2>2. CASE v = 0
    <3>1. first = v
      <4>1. v \in found /\ \A y \in found : y \in Int /\ v =< y
        BY <1>3, <1>15, <2>2
      <4> QED
        BY <4>1, MinIs
    <3>2. rest = {u}
      BY <1>2, <1>15, <3>1
    <3>3. Min(rest) = u
      BY <3>2, MinIs
    <3>4. found # {} /\ rest # {}
      BY <1>15, <3>2
    <3>5. D(a) = Joined(a, 0, u) /\ D(b) = Joined(b, 0, u)
      BY <2>2, <3>1, <3>3, <3>4
    <3>6. ASSUME NEW f, NEW T, IsPoly(T, CommitLen), Shows(f, T, e, u, r)
          PROVE  Decodes(Joined(f, 0, u), T, e)
      <4>1. \A j \in 0 .. CommitLen - 1 : Same(Joined(f, 0, u)[j], Signed(e, T[j]))
        BY <1>2, <2>2, <3>6, JoinedShows
      <4>2. Joined(f, v, u) \in Small
        BY <1>11, <3>6
      <4> QED
        BY <2>2, <4>1, <4>2 DEF Decodes
    <3>7. Decodes(D(a), R, e) /\ Decodes(D(b), S, e)
      BY <3>5, <3>6
    <3> QED
      BY <1>6, <3>7
  <2> QED
    BY <2>1, <2>2
<1> QED
  BY <1>8, <1>12, <1>13, <1>14, <1>15

-----------------------------------------------------------------------------

(* The other halves of the commits under one key, and of all commits added *)
(* up.                                                                     *)
Keyed(g, key, h) ==
    \A p \in Parties, j \in 0 .. CommitLen - 1 :
        h[p][j] = Mul(g[p], key, CommitLen, CommitLen)[j]

(* The sum goes on as the sum of what its terms go on as.                  *)
LEMMA TotalWave ==
    ASSUME NEW g, \A p \in Parties : IsPoly(g[p], CommitLen), NEW x \in Int,
           NEW r, \A p \in Parties : r[p] = WaveOf(g[p], CommitLen)[x]
    PROVE  WaveOf(Total(g), CommitLen)[x] = SumBelow(G, r)
<1>1. /\ G \in Nat \ {0} /\ CommitLen \in Nat \ {0} /\ Parties = 0 .. G - 1
  BY Constants
<1>2. PICK m \in Nat \ {0} : m = G
  BY <1>1
<1>3. PICK k \in Int, i \in 0 .. CommitLen - 1 : k = x \div CommitLen /\ i = x % CommitLen
  BY <1>1, Place
<1>4. PICK u : u = [p \in Parties |-> g[p][i]]
  OBVIOUS
<1>5. PICK one \in Int : one = Signed(k, 1)
  BY SignedFacts
<1>6. ASSUME NEW z \in Int PROVE Signed(k, z) = one * z
  <2>1. PICK o \in Int : o = 1
    OBVIOUS
  <2>2. Signed(k, o * z) = Signed(k, o) * z
    BY SignedTimes
  <2> QED
    BY <1>5, <2>1, <2>2
<1>7. ASSUME NEW p \in 0 .. m - 1
      PROVE  u[p] \in Int /\ r[p] = one * u[p]
  <2>1. u[p] \in Int /\ u[p] = g[p][i]
    BY <1>1, <1>2, <1>3, <1>4 DEF IsPoly
  <2>2. r[p] = Signed(k, g[p][i])
    BY <1>1, <1>2, <1>3 DEF WaveOf
  <2> QED
    BY <1>6, <2>1, <2>2
<1>8. SumBelow(m, r) = one * SumBelow(m, u)
  BY <1>7, SumBelowScale
<1>9. SumBelow(m, u) \in Int
  BY <1>7, SumBelowType
<1>10. PICK z \in Int : z = SumBelow(m, u)
  BY <1>9
<1>11. Total(g)[i] = z
  BY <1>2, <1>3, <1>4, <1>10 DEF Total
<1>12. WaveOf(Total(g), CommitLen)[x] = Signed(k, z)
  BY <1>3, <1>11 DEF WaveOf
<1> QED
  BY <1>2, <1>6, <1>8, <1>10, <1>12

(* The sum of the second halves is the product of the sum of the first     *)
(* halves with the key.                                                    *)
LEMMA TotalKeyed ==
    ASSUME NEW g, \A p \in Parties : IsPoly(g[p], CommitLen),
           NEW key, IsPoly(key, CommitLen),
           NEW h, Keyed(g, key, h), NEW j \in 0 .. CommitLen - 1
    PROVE  /\ Total(h)[j] \in Int
           /\ Same(Total(h)[j], Product(WaveOf(Total(g), CommitLen), key, CommitLen)[j])
<1>1. /\ G \in Nat \ {0} /\ CommitLen \in Nat \ {0} /\ Parties = 0 .. G - 1
  BY Constants
<1>2. PICK K \in Nat \ {0} : K = CommitLen
  BY <1>1
<1>3. PICK m \in Nat \ {0} : m = G
  BY <1>1
<1>4. PICK x \in Int : x = j
  BY <1>1
<1>5. PICK w : w = [p \in 0 .. m - 1 |-> WaveOf(g[p], K)]
  OBVIOUS
<1>6. ASSUME NEW p \in 0 .. m - 1
      PROVE  w[p] = WaveOf(g[p], K) /\ Wave(w[p], K) /\ Represents(g[p], w[p], K)
  <2>1. PICK f : f = g[p]
    OBVIOUS
  <2>2. IsPoly(f, K)
    BY <1>1, <1>2, <1>3, <2>1
  <2>3. /\ Wave(WaveOf(f, K), K)
        /\ \A i \in 0 .. K - 1 : WaveOf(f, K)[i] = f[i]
    BY <2>2, WaveOfIsWave
  <2>4. Represents(f, WaveOf(f, K), K)
    BY <2>2, <2>3, SameSelf DEF Represents
  <2> QED
    BY <1>5, <2>1, <2>3, <2>4
<1>7. PICK t : t = [p \in 0 .. m - 1 |-> [i \in 0 .. K - 1 |-> w[p][x - i] * key[i]]]
  OBVIOUS
<1>8. ASSUME NEW p \in 0 .. m - 1, NEW i \in 0 .. K - 1
      PROVE  t[p][i] = w[p][x - i] * key[i] /\ t[p][i] \in Int
             /\ w[p][x - i] \in Int /\ key[i] \in Int
  <2>1. PICK y \in Int : y = x - i
    OBVIOUS
  <2>2. w[p][y] \in Int
    BY <1>6 DEF Wave
  <2>3. key[i] \in Int
    BY <1>2 DEF IsPoly
  <2>4. PICK a, b \in Int : a = w[p][y] /\ b = key[i]
    BY <2>2, <2>3
  <2>5. t[p][i] = w[p][x - i] * key[i]
    BY <1>7
  <2> QED
    BY <2>1, <2>4, <2>5
<1>9. IsTable(t, m, K)
  BY <1>8 DEF IsTable
<1>10. PICK r : r = [p \in 0 .. m - 1 |-> SumBelow(K, t[p])]
  OBVIOUS
<1>11. RowSums(r, t, m, K)
  BY <1>10 DEF RowSums
<1>12. PICK c : c = [i \in 0 .. K - 1 |-> SumBelow(m, Column(t, i, m))]
  OBVIOUS
<1>13. ColumnSums(c, t, m, K)
  BY <1>12 DEF ColumnSums
<1>14. SumBelow(m, r) = SumBelow(K, c)
  BY <1>9, <1>11, <1>13, Exchange
<1>15. PICK B : B = WaveOf(Total(g), K)
  OBVIOUS
<1>16. Wave(B, K)
  BY <1>2, <1>15, TotalIsPoly, WaveOfIsWave
<1>17. ASSUME NEW i \in 0 .. K - 1 PROVE c[i] = B[x - i] * key[i]
  <2>1. PICK y \in Int : y = x - i
    OBVIOUS
  <2>2. PICK u, v : u = [p \in Parties |-> w[p][y]] /\ v = Column(t, i, m)
    OBVIOUS
  <2>3. PICK b \in Int : b = key[i]
    BY <1>2 DEF IsPoly
  <2>4. ASSUME NEW p \in 0 .. m - 1 PROVE u[p] \in Int /\ v[p] = b * u[p]
    <3>1. u[p] = w[p][y] /\ v[p] = t[p][i]
      BY <1>1, <1>3, <2>2 DEF Column
    <3>2. PICK z \in Int : z = w[p][y]
      BY <1>8, <2>1
    <3>3. t[p][i] = z * b
      BY <1>8, <2>1, <2>3, <3>2
    <3> QED
      BY <3>1, <3>2, <3>3
  <2>5. SumBelow(m, v) = b * SumBelow(m, u)
    BY <2>4, SumBelowScale
  <2>6. ASSUME NEW p \in Parties PROVE u[p] = WaveOf(g[p], CommitLen)[y]
    BY <1>1, <1>2, <1>3, <1>6, <2>2, <2>6
  <2>7. B[y] = SumBelow(m, u)
    BY <1>2, <1>3, <1>15, <2>6, TotalWave
  <2>8. SumBelow(m, u) \in Int
    BY <2>4, SumBelowType
  <2>9. PICK z \in Int : z = SumBelow(m, u)
    BY <2>8
  <2> QED
    BY <1>12, <2>1, <2>2, <2>3, <2>5, <2>7, <2>9
<1>18. Product(B, key, K)[x] = SumBelow(K, c)
  <2>1. Terms(c, B, key, K, x)
    BY <1>17 DEF Terms
  <2>2. B \in [Int -> Int]
    BY <1>16 DEF Wave
  <2>3. IsPoly(key, K)
    BY <1>2
  <2> QED
    BY <2>1, <2>2, <2>3, ProductAt
<1>19. PICK v : v = [p \in Parties |-> h[p][j]]
  OBVIOUS
<1>20. ASSUME NEW p \in 0 .. m - 1
       PROVE  v[p] \in Int /\ r[p] \in Int /\ Same(v[p], r[p])
  <2>1. PICK f, A : f = g[p] /\ A = w[p]
    OBVIOUS
  <2>2. Represents(f, A, K) /\ Wave(A, K)
    BY <1>6, <2>1
  <2>3. IsPoly(key, K) /\ K \in 1 .. K
    BY <1>2
  <2>4. PICK M : M = Mul(f, key, K, K)
    OBVIOUS
  <2>5. Represents(M, Product(A, key, K), K)
    BY <2>2, <2>3, <2>4, MulRepresents
  <2>6. M[j] \in Int /\ Same(M[j], Product(A, key, K)[j])
    BY <1>2, <2>5 DEF Represents, IsPoly
  <2>7. v[p] = M[j]
    BY <1>1, <1>2, <1>3, <1>19, <2>1, <2>4 DEF Keyed
  <2>8. PICK s : s = t[p]
    OBVIOUS
  <2>9. Terms(s, A, key, K, x)
    BY <1>8, <2>1, <2>8 DEF Terms
  <2>10. A \in [Int -> Int]
    BY <2>2 DEF Wave
  <2>11. Product(A, key, K)[x] = SumBelow(K, s) /\ Product(A, key, K)[x] \in Int
    BY <2>3, <2>9, <2>10, ProductAt
  <2> QED
    BY <1>4, <1>10, <2>6, <2>7, <2>8, <2>11
<1>21. Same(SumBelow(m, v), SumBelow(m, r)) /\ SumBelow(m, v) \in Int
  BY <1>20, SumBelowSame, SumBelowType
<1>22. Total(h)[j] = SumBelow(m, v)
  BY <1>3, <1>19 DEF Total
<1> QED
  BY <1>2, <1>4, <1>14, <1>15, <1>18, <1>21, <1>22

(* A rotated commit is the commit that goes on.                            *)
LEMMA TurnedAt ==
    ASSUME NEW C, IsPoly(C, CommitLen), NEW r \in 0 .. CommitLen - 1,
           NEW j \in 0 .. CommitLen - 1, NEW x \in Int, x = j - r
    PROVE  Turned(C, r)[j] = WaveOf(C, CommitLen)[x]
<1>1. PICK K \in Nat \ {0} : K = CommitLen
  BY Constants
<1>2. PICK W : W = WaveOf(C, K)
  OBVIOUS
<1>3. Wave(W, K) /\ \A i \in 0 .. K - 1 : W[i] = C[i]
  BY <1>1, <1>2, WaveOfIsWave
<1>4. CASE j >= r
  <2>1. x \in 0 .. K - 1
    BY <1>1, <1>4
  <2>2. W[x] = C[j - r]
    BY <1>3, <2>1
  <2> QED
    BY <1>1, <1>2, <1>4, <2>2 DEF Turned
<1>5. CASE j < r
  <2>1. PICK y \in 0 .. K - 1 : y = x + K
    BY <1>1, <1>5
  <2>2. PICK one \in Int : one = -1
    OBVIOUS
  <2>3. x = y + K * one
    BY <2>1, <2>2
  <2>4. W[y + K * one] = Signed(one, W[y])
    BY <1>3 DEF Wave
  <2>5. PICK z \in Int : z = C[y]
    BY <1>1, <2>1 DEF IsPoly
  <2>6. Signed(one, z) = -z
    <3>1. PICK o \in Int : o = 1
      OBVIOUS
    <3>2. Signed(-o, z) = Signed(o, z) /\ Signed(1, z) = -z
      BY SignedFacts
    <3> QED
      BY <2>2, <3>1, <3>2
  <2>7. W[x] = -z
    BY <1>3, <2>3, <2>4, <2>5, <2>6
  <2>8. y = (j - r) + CommitLen
    BY <1>1, <2>1
  <2>9. Turned(C, r)[j] = -C[(j - r) + CommitLen]
    BY <1>1, <1>5 DEF Turned
  <2> QED
    BY <1>1, <1>2, <2>5, <2>7, <2>8, <2>9
<1> QED
  BY <1>1, <1>4, <1>5

(* What is decoded of a commit and of its product with a key opens under   *)
(* that key.                                                               *)
LEMMA DecodedOpens ==
    ASSUME NEW A, IsPoly(A, CommitLen), NEW C, IsPoly(C, CommitLen),
           NEW key, IsPoly(key, CommitLen),
           \A j \in 0 .. CommitLen - 1 :
               Same(C[j], Product(WaveOf(A, CommitLen), key, CommitLen)[j]),
           NEW r \in 0 .. CommitLen - 1, NEW k \in Int,
           NEW D, Decodes(D, Turned(A, r), k),
           NEW E, Decodes(E, Turned(C, r), k)
    PROVE  E = Mul(D, key, CommitLen, CommitLen)
<1>1. PICK K \in Nat \ {0} : K = CommitLen
  BY Constants
<1>2. PICK W, V : W = WaveOf(A, K) /\ V = WaveOf(C, K)
  OBVIOUS
<1>3. Wave(W, K) /\ Wave(V, K) /\ \A i \in 0 .. K - 1 : V[i] = C[i]
  BY <1>1, <1>2, WaveOfIsWave
<1>4. PICK Q : Q = Product(W, key, K)
  OBVIOUS
<1>5. Wave(Q, K) /\ IsPoly(key, K)
  BY <1>1, <1>3, <1>4, ProductIsWave
<1>6. ASSUME NEW x \in Int PROVE Same(V[x], Q[x])
  <2>1. \A i \in 0 .. K - 1 : Same(V[i], Q[i])
    BY <1>1, <1>2, <1>3, <1>4
  <2> QED
    BY <1>3, <1>5, <2>1, WavesSame
<1>7. PICK s \in Int : s = r
  BY <1>1
<1>8. PICK Z : Z = [x \in Int |-> Signed(k, W[x - s])]
  OBVIOUS
<1>9. ASSUME NEW x \in Int, NEW y \in Int, y = x - s
      PROVE  Z[x] = Signed(k, W[y]) /\ W[y] \in Int /\ Z[x] \in Int
  <2>1. W[y] \in Int
    BY <1>3, WaveType
  <2>2. Z[x] = Signed(k, W[y])
    BY <1>8, <1>9
  <2>3. PICK w \in Int : w = W[y]
    BY <2>1
  <2>4. Signed(k, w) \in Int
    BY SignedFacts
  <2> QED
    BY <2>1, <2>2, <2>3, <2>4
<1>10. Wave(Z, K)
  <2>1. Z \in [Int -> Int]
    <3>1. ASSUME NEW x \in Int PROVE Z[x] \in Int
      <4>1. PICK y \in Int : y = x - s
        OBVIOUS
      <4> QED
        BY <1>9, <4>1
    <3> QED
      BY <1>8, <3>1
  <2>2. ASSUME NEW x \in Int, NEW l \in Int
        PROVE  Z[x + K * l] = Signed(l, Z[x])
    <3>1. PICK y \in Int : y = x - s
      OBVIOUS
    <3>2. PICK z \in Int : z = x + K * l
      OBVIOUS
    <3>3. PICK v \in Int : v = y + K * l
      OBVIOUS
    <3>4. v = z - s
      BY <3>1, <3>2, <3>3
    <3>5. Z[z] = Signed(k, W[v])
      BY <1>9, <3>4
    <3>6. W[v] = Signed(l, W[y])
      BY <1>3, <3>3 DEF Wave
    <3>7. PICK w \in Int : w = W[y]
      BY <1>9, <3>1
    <3>8. Signed(k, Signed(l, w)) = Signed(k + l, w)
      BY SignedPlus
    <3>9. Signed(l, Signed(k, w)) = Signed(l + k, w)
      BY SignedPlus
    <3>10. Z[x] = Signed(k, w)
      BY <1>9, <3>1, <3>7
    <3> QED
      BY <3>2, <3>5, <3>6, <3>7, <3>8, <3>9, <3>10
  <2> QED
    BY <2>1, <2>2 DEF Wave
<1>11. ASSUME NEW B, NEW U, NEW F, IsPoly(B, CommitLen), U = WaveOf(B, CommitLen),
              Decodes(F, Turned(B, r), k), NEW j \in 0 .. K - 1
       PROVE  /\ F[j] \in Int /\ F[j] \in 0 .. P - 1
              /\ Same(F[j], Signed(k, U[j - s]))
  <2>1. PICK x \in Int : x = j - s
    OBVIOUS
  <2>2. Turned(B, r)[j] = U[x]
    BY <1>1, <1>7, <1>11, <2>1, TurnedAt
  <2>3. Same(F[j], Signed(k, Turned(B, r)[j])) /\ F[j] \in 0 .. P - 1
    BY <1>1, <1>11 DEF Decodes, Small
  <2>4. F[j] \in Int
    BY <2>3, Constants
  <2> QED
    BY <2>1, <2>2, <2>3, <2>4
<1>12. Represents(D, Z, K)
  <2>1. ASSUME NEW j \in 0 .. K - 1 PROVE D[j] \in Int /\ Same(D[j], Z[j])
    <3>1. PICK x, y \in Int : x = j /\ y = j - s
      OBVIOUS
    <3>2. D[j] \in Int /\ Same(D[j], Signed(k, W[j - s]))
      BY <1>1, <1>2, <1>11
    <3> QED
      BY <1>9, <3>1, <3>2
  <2> QED
    BY <1>10, <2>1 DEF Represents, IsPoly
<1>13. PICK M : M = Mul(D, key, K, K)
  OBVIOUS
<1>14. Represents(M, Product(Z, key, K), K) /\ \A j \in 0 .. K - 1 : M[j] \in 0 .. P - 1
  <2>1. K \in 1 .. K
    OBVIOUS
  <2> QED
    BY <1>5, <1>12, <1>13, <2>1, MulRepresents
<1>15. ASSUME NEW x \in Int, NEW y \in Int, y = x - s
       PROVE  Product(Z, key, K)[x] = Signed(k, Q[y])
  <2>1. PICK one \in Int : one = Signed(k, 1)
    BY SignedFacts
  <2>2. ASSUME NEW z \in Int PROVE Signed(k, z) = one * z
    <3>1. PICK o \in Int : o = 1
      OBVIOUS
    <3>2. Signed(k, o * z) = Signed(k, o) * z
      BY SignedTimes
    <3> QED
      BY <2>1, <3>1, <3>2
  <2>3. PICK t, u : /\ t = [i \in 0 .. K - 1 |-> Z[x - i] * key[i]]
                    /\ u = [i \in 0 .. K - 1 |-> W[y - i] * key[i]]
    OBVIOUS
  <2>4. Terms(t, Z, key, K, x) /\ Terms(u, W, key, K, y)
    BY <2>3 DEF Terms
  <2>5. Z \in [Int -> Int] /\ W \in [Int -> Int]
    BY <1>3, <1>10 DEF Wave
  <2>6. Product(Z, key, K)[x] = SumBelow(K, t)
    BY <1>5, <2>4, <2>5, ProductAt
  <2>7. /\ Q[y] = SumBelow(K, u) /\ Q[y] \in Int
        /\ \A i \in 0 .. K - 1 : u[i] \in Int
    BY <1>4, <1>5, <2>4, <2>5, ProductAt
  <2>8. ASSUME NEW i \in 0 .. K - 1 PROVE t[i] = one * u[i]
    <3>1. PICK v, w \in Int : v = x - i /\ w = y - i
      OBVIOUS
    <3>2. w = v - s
      BY <1>15, <3>1
    <3>3. PICK b, c \in Int : b = W[w] /\ c = key[i]
      BY <1>5, <1>9, <3>2 DEF IsPoly
    <3>4. Z[v] = one * b
      BY <1>9, <2>2, <3>2, <3>3
    <3>5. t[i] = Z[v] * c
      BY <2>3, <3>1, <3>3
    <3>6. u[i] = b * c
      BY <2>3, <3>1, <3>3
    <3> QED
      BY <3>4, <3>5, <3>6
  <2>9. SumBelow(K, t) = one * SumBelow(K, u)
    BY <2>7, <2>8, SumBelowScale
  <2> QED
    BY <2>2, <2>6, <2>7, <2>9
<1>16. ASSUME NEW j \in 0 .. K - 1 PROVE E[j] = M[j]
  <2>1. PICK x, y \in Int : x = j /\ y = j - s
    OBVIOUS
  <2>2. Same(E[j], Signed(k, V[y])) /\ E[j] \in 0 .. P - 1
    BY <1>1, <1>2, <1>11, <2>1
  <2>3. Same(Signed(k, V[y]), Signed(k, Q[y]))
    <3>1. V[y] \in Int /\ Q[y] \in Int
      BY <1>3, <1>5, WaveType
    <3> QED
      BY <1>6, <3>1, SignedSame
  <2>4. Same(M[j], Signed(k, Q[y])) /\ M[j] \in 0 .. P - 1
    BY <1>14, <1>15, <2>1 DEF Represents
  <2>5. Same(E[j], M[j])
    BY <2>2, <2>3, <2>4, SameTrans, SameSym
  <2> QED
    BY <2>2, <2>4, <2>5, SameResidue
<1>17. E \in [0 .. K - 1 -> 0 .. P - 1]
  BY <1>1 DEF Decodes, Small
<1>18. M = [j \in 0 .. K - 1 |-> M[j]]
  BY <1>13 DEF Mul
<1> QED
  BY <1>1, <1>13, <1>16, <1>17, <1>18

(* A polynomial is decoded of one rotated commit only, up to congruence.   *)
LEMMA DecodedOnce ==
    ASSUME NEW A, IsPoly(A, CommitLen), NEW C, IsPoly(C, CommitLen),
           NEW r \in 0 .. CommitLen - 1, NEW k \in Int, NEW f,
           Decodes(f, Turned(A, r), k), Decodes(f, Turned(C, r), k),
           NEW i \in 0 .. CommitLen - 1
    PROVE  Same(A[i], C[i])
<1>1. PICK K \in Nat \ {0} : K = CommitLen
  BY Constants
<1>2. PICK x \in Int, y \in Int : x = A[i] /\ y = C[i]
  BY DEF IsPoly
<1>3. ASSUME NEW j \in 0 .. K - 1, NEW v \in Int, v = Turned(A, r)[j],
             NEW w \in Int, w = Turned(C, r)[j]
      PROVE  Same(v, w)
  <2>1. Same(f[j], Signed(k, v)) /\ Same(f[j], Signed(k, w))
    BY <1>1, <1>3 DEF Decodes
  <2>2. PICK a \in Int, b \in Int : a = Signed(k, v) /\ b = Signed(k, w)
    BY SignedFacts
  <2>3. Same(a, b)
    BY <2>1, <2>2, SameSym, SameTrans
  <2>4. Same(Signed(k, a), Signed(k, b))
    BY <2>3, SignedSame
  <2>5. Signed(k, a) = v
    BY <2>2, SignedFacts
  <2>6. Signed(k, b) = w
    BY <2>2, SignedFacts
  <2> QED
    BY <2>4, <2>5, <2>6
<1>4. CASE i + r < K
  <2>1. PICK j \in 0 .. K - 1 : j = i + r
    BY <1>1, <1>4
  <2>2. j >= r /\ j - r = i
    BY <1>1, <2>1
  <2>3. x = Turned(A, r)[j] /\ y = Turned(C, r)[j]
    BY <1>1, <1>2, <2>2 DEF Turned
  <2> QED
    BY <1>2, <1>3, <2>3
<1>5. CASE i + r >= K
  <2>1. PICK j \in 0 .. K - 1 : j = i + r - K
    BY <1>1, <1>5
  <2>2. j < r /\ (j - r) + CommitLen = i
    BY <1>1, <2>1
  <2>3. PICK v \in Int, w \in Int : v = -x /\ w = -y
    OBVIOUS
  <2>4. /\ Turned(A, r)[j] = -A[(j - r) + CommitLen]
        /\ Turned(C, r)[j] = -C[(j - r) + CommitLen]
    BY <1>1, <2>2 DEF Turned
  <2>5. v = Turned(A, r)[j] /\ w = Turned(C, r)[j]
    BY <1>2, <2>2, <2>3, <2>4
  <2>6. Same(v, w)
    BY <1>3, <2>5
  <2>7. Same(-v, -w)
    BY <2>6, SameRing
  <2>8. -v = x /\ -w = y
    BY <2>3
  <2> QED
    BY <1>2, <2>7, <2>8
<1> QED
  BY <1>1, <1>4, <1>5

(* The product of what is decoded with a key is decoded of the product.    *)
LEMMA ProductDecoded ==
    ASSUME NEW A, IsPoly(A, CommitLen), NEW C, IsPoly(C, CommitLen),
           NEW key, IsPoly(key, CommitLen),
           \A j \in 0 .. CommitLen - 1 :
               Same(C[j], Product(WaveOf(A, CommitLen), key, CommitLen)[j]),
           NEW r \in 0 .. CommitLen - 1, NEW k \in Int,
           NEW D, Decodes(D, Turned(A, r), k)
    PROVE  Decodes(Mul(D, key, CommitLen, CommitLen), Turned(C, r), k)
<1>1. PICK S : S = Turned(C, r)
  OBVIOUS
<1>2. IsPoly(S, CommitLen)
  BY <1>1, TurnedIs
<1>3. PICK E : E = [j \in 0 .. CommitLen - 1 |-> Signed(k, S[j]) % P]
  OBVIOUS
<1>4. ASSUME NEW j \in 0 .. CommitLen - 1
      PROVE  E[j] \in 0 .. P - 1 /\ Same(E[j], Signed(k, S[j]))
  <2>1. PICK v \in Int : v = S[j]
    BY <1>2 DEF IsPoly
  <2>2. PICK w \in Int : w = Signed(k, v)
    BY SignedFacts
  <2>3. E[j] = w % P
    BY <1>3, <2>1, <2>2
  <2>4. Same(w % P, w) /\ w % P \in 0 .. P - 1
    BY SameMod
  <2> QED
    BY <2>1, <2>2, <2>3, <2>4
<1>5. E \in Small
  BY <1>3, <1>4 DEF Small
<1>6. Decodes(E, S, k)
  BY <1>4, <1>5 DEF Decodes
<1>7. E = Mul(D, key, CommitLen, CommitLen)
  BY <1>1, <1>6, DecodedOpens
<1> QED
  BY <1>1, <1>6, <1>7

(* Two keys do the same to A.                                              *)
SameProducts(A, key, other) ==
    \A i \in 0 .. CommitLen - 1 :
        Same(Product(WaveOf(A, CommitLen), key, CommitLen)[i],
             Product(WaveOf(A, CommitLen), other, CommitLen)[i])

(* They do the same, then, to what is congruent to A.                      *)
LEMMA SameProductsMul ==
    ASSUME NEW A, IsPoly(A, CommitLen), NEW D, IsPoly(D, CommitLen),
           \A i \in 0 .. CommitLen - 1 : Same(D[i], A[i]),
           NEW key, IsPoly(key, CommitLen), NEW other, IsPoly(other, CommitLen),
           SameProducts(A, key, other)
    PROVE  Mul(D, key, CommitLen, CommitLen) = Mul(D, other, CommitLen, CommitLen)
<1>1. PICK K \in Nat \ {0} : K = CommitLen
  BY Constants
<1>2. PICK W : W = WaveOf(A, K)
  OBVIOUS
<1>3. Wave(W, K) /\ \A i \in 0 .. K - 1 : W[i] = A[i]
  BY <1>1, <1>2, WaveOfIsWave
<1>4. Represents(D, W, K) /\ IsPoly(key, K) /\ IsPoly(other, K) /\ K \in 1 .. K
  BY <1>1, <1>3 DEF Represents
<1>5. PICK f, g : f = Mul(D, key, K, K) /\ g = Mul(D, other, K, K)
  OBVIOUS
<1>6. PICK X, Y : X = Product(W, key, K) /\ Y = Product(W, other, K)
  OBVIOUS
<1>7. Represents(f, X, K) /\ \A i \in 0 .. K - 1 : f[i] \in 0 .. P - 1
  BY <1>4, <1>5, <1>6, MulRepresents
<1>8. Represents(g, Y, K) /\ \A i \in 0 .. K - 1 : g[i] \in 0 .. P - 1
  BY <1>4, <1>5, <1>6, MulRepresents
<1>9. ASSUME NEW i \in 0 .. K - 1 PROVE f[i] = g[i]
  <2>1. Same(f[i], X[i]) /\ Same(g[i], Y[i])
    BY <1>7, <1>8 DEF Represents
  <2>2. Same(X[i], Y[i])
    BY <1>1, <1>2, <1>6 DEF SameProducts
  <2>3. Same(f[i], g[i])
    BY <2>1, <2>2, SameSym, SameTrans
  <2> QED
    BY <1>7, <1>8, <2>3, SameResidue
<1>10. f = [i \in 0 .. K - 1 |-> f[i]] /\ g = [i \in 0 .. K - 1 |-> g[i]]
  BY <1>5 DEF Mul
<1>11. f = g
  BY <1>9, <1>10
<1> QED
  BY <1>1, <1>5, <1>11

(* c opens under the key, and under no other than does the same to A.      *)
CommitOf(c, A, key) ==
    /\ c \in Small \X Small
    /\ c[2] = Mul(c[1], key, CommitLen, CommitLen)
    /\ \A q \in Parties :
         c[2] = Mul(c[1], Key[q], CommitLen, CommitLen) => SameProducts(A, key, Key[q])

(* Keys are polynomials, and so is what goes on as the product with one.   *)
LEMMA KeyProduct ==
    ASSUME NEW A, IsPoly(A, CommitLen), NEW q \in Parties
    PROVE  /\ IsPoly(Key[q], CommitLen)
           /\ \E C : /\ IsPoly(C, CommitLen)
                     /\ \A j \in 0 .. CommitLen - 1 :
                          C[j] = Product(WaveOf(A, CommitLen), Key[q], CommitLen)[j]
<1>1. PICK K \in Nat \ {0} : K = CommitLen
  BY Constants
<1>2. PICK key : key = Key[q]
  OBVIOUS
<1>3. key \in Small
  BY <1>2, RingElectionAssumption
<1>4. IsPoly(key, K)
  BY <1>1, <1>3, Constants DEF Small, IsPoly
<1>5. PICK W : W = WaveOf(A, K)
  OBVIOUS
<1>6. Wave(W, K)
  BY <1>1, <1>5, WaveOfIsWave
<1>7. PICK Q : Q = Product(W, key, K)
  OBVIOUS
<1>8. Wave(Q, K)
  BY <1>4, <1>6, <1>7, ProductIsWave
<1>9. IsPoly(Q, K)
  BY <1>8, WaveType DEF IsPoly
<1> QED
  BY <1>1, <1>2, <1>4, <1>5, <1>7, <1>9

(* A pair of polynomials that show a commit and its product with a key is  *)
(* decoded to something that opens under that key, and under those only    *)
(* that do the same to the commit.                                         *)
LEMMA ShownOpens ==
    ASSUME NEW A, IsPoly(A, CommitLen), NEW C, IsPoly(C, CommitLen),
           NEW key, IsPoly(key, CommitLen),
           \A j \in 0 .. CommitLen - 1 :
               Same(C[j], Product(WaveOf(A, CommitLen), key, CommitLen)[j]),
           NEW k \in Int, NEW u \in 0 .. Chunks - 1, NEW r \in 0 .. CommitLen - 1,
           NEW a, Shows(a, Turned(A, r), k, u, r),
           NEW b, Shows(b, Turned(C, r), k, u, r),
           NEW c, c = DecodeCommit(a, b)
    PROVE  CommitOf(c, A, key)
<1>1. PICK R, S : R = Turned(A, r) /\ S = Turned(C, r)
  OBVIOUS
<1>2. IsPoly(R, CommitLen) /\ IsPoly(S, CommitLen)
  BY <1>1, TurnedIs
<1>3. PICK z \in Int : Decodes(c[1], R, z) /\ Decodes(c[2], S, z)
  BY <1>1, <1>2, DecodeShows
<1>4. c[2] = Mul(c[1], key, CommitLen, CommitLen)
  BY <1>1, <1>3, DecodedOpens
<1>5. c \in Small \X Small
  <2>1. c[1] \in Small /\ c[2] \in Small
    BY <1>3 DEF Decodes
  <2>2. c = <<c[1], c[2]>>
    BY DEF DecodeCommit
  <2> QED
    BY <2>1, <2>2
<1>6. ASSUME NEW q \in Parties, c[2] = Mul(c[1], Key[q], CommitLen, CommitLen)
      PROVE  SameProducts(A, key, Key[q])
  <2>1. PICK other, D : /\ other = Key[q] /\ IsPoly(other, CommitLen)
                        /\ IsPoly(D, CommitLen)
                        /\ \A j \in 0 .. CommitLen - 1 :
                             D[j] = Product(WaveOf(A, CommitLen), other, CommitLen)[j]
    BY KeyProduct
  <2>2. \A j \in 0 .. CommitLen - 1 :
            Same(D[j], Product(WaveOf(A, CommitLen), other, CommitLen)[j])
    BY <2>1, SameSelf
  <2>3. Decodes(Mul(c[1], other, CommitLen, CommitLen), Turned(D, r), z)
    BY <1>1, <1>3, <2>1, <2>2, ProductDecoded
  <2>4. Decodes(c[2], Turned(D, r), z) /\ Decodes(c[2], Turned(C, r), z)
    BY <1>1, <1>3, <1>6, <2>1, <2>3
  <2>5. ASSUME NEW i \in 0 .. CommitLen - 1 PROVE Same(C[i], D[i])
    BY <2>1, <2>4, DecodedOnce
  <2> QED
    BY <2>1, <2>2, <2>5, SameSym, SameTrans DEF SameProducts
<1> QED
  BY <1>4, <1>5, <1>6 DEF CommitOf

(* Where the rotation by d puts a commit: in chunk u from place r on, and  *)
(* with the sign of e.                                                     *)
LEMMA ChunkAndPlace ==
    ASSUME NEW d \in Int
    PROVE  \E e \in Int, u \in 0 .. Chunks - 1, r \in 0 .. CommitLen - 1 :
               d = (CommitLen * u + r) + N * e
<1>1. PICK n \in Nat \ {0}, K \in Nat \ {0}, c \in Nat \ {0} :
          n = N /\ K = CommitLen /\ c = Chunks
  BY Constants, ChunksIs
<1>2. n = K * c
  BY <1>1, ChunksIs
<1>3. PICK l \in Int, r \in 0 .. K - 1 : d = r + K * l
  BY Place
<1>4. PICK e \in Int, u \in 0 .. c - 1 : l = u + c * e
  BY Place
<1>5. PICK ku, ke \in Int : ku = K * u /\ ke = c * e
  OBVIOUS
<1>6. K * l = K * u + K * ke
  BY <1>4, <1>5
<1>7. K * ke = (K * c) * e
  BY <1>5
<1>8. d = (K * u + r) + n * e
  BY <1>2, <1>3, <1>6, <1>7
<1> QED
  BY <1>1, <1>8

(* Of the product of the mark with a commit the fold leaves the commit,    *)
(* in two chunks.                                                          *)
LEMMA FoldShows ==
    ASSUME NEW B, NEW d \in Int, B = Shift(Mark, d),
           NEW g, \A p \in Parties : IsPoly(g[p], CommitLen),
           NEW e, \A p \in Parties : Represents(e[p], Product(B, g[p], CommitLen), N),
           NEW F, \A i \in 0 .. N - 1 :
                      F[i] = SumBelow(G, [p \in Parties |-> e[p][i]]) % P,
           NEW k \in Int, NEW u \in 0 .. Chunks - 1, NEW r \in 0 .. CommitLen - 1,
           d = (CommitLen * u + r) + N * k
    PROVE  Shows(DivV(F), Turned(Total(g), r), k, u, r)
<1>1. N \in Nat \ {0}
  BY Constants
<1>2. Wave(B, N)
  BY <1>1, MarkIs, ShiftIsWave DEF Represents
<1>3. Represents(F, Product(B, Total(g), CommitLen), N)
  BY <1>2, SumRepresents
<1>4. PICK C : C = Total(g)
  OBVIOUS
<1>5. IsPoly(C, CommitLen)
  BY <1>4, TotalIsPoly
<1>6. PICK f : f = DivV(F)
  OBVIOUS
<1>7. Represents(F, Product(Shift(Mark, d), C, CommitLen), N)
  BY <1>3, <1>4
<1>8. Represents(f, Shift(Spread(C), d), N) /\ \A i \in 0 .. N - 1 : f[i] \in 0 .. P - 1
  BY <1>5, <1>6, <1>7, DivVRepresents
<1>9. Shows(f, Turned(C, r), k, u, r)
  BY <1>5, <1>8, RepresentsShows
<1> QED
  BY <1>4, <1>6, <1>9

(* x is what a party encodes when it draws a.                              *)
Halves(a, h) == [i \in Parties |-> Commit(i, a[i])[h]]
EncodedBy(x, a) ==
    x = <<EncodeHalf(Selectors(Rotated(G)), Halves(a, 1)),
          EncodeHalf(Selectors(Rotated(G)), Halves(a, 2))>>

(* p has encoded the commits, re-randomised with what it has drawn.        *)
Encoded(p) == drawn[p] \in [Parties -> Randoms] /\ EncodedBy(encoded[p], drawn[p])

(* The halves of a re-randomised commit.                                   *)
LEMMA HalvesAre ==
    ASSUME NEW a \in [Parties -> Randoms], NEW p \in Parties
    PROVE  /\ Halves(a, 1)[p] = a[p]
           /\ Halves(a, 2)[p] = Mul(a[p], Key[p], CommitLen, CommitLen)
           /\ IsPoly(Halves(a, 1)[p], CommitLen)
           /\ IsPoly(Halves(a, 2)[p], CommitLen)
           /\ IsPoly(Key[p], CommitLen)
<1>1. PICK K \in Nat \ {0} : K = CommitLen
  BY Constants
<1>2. PICK f, key : f = a[p] /\ key = Key[p]
  OBVIOUS
<1>3. f \in Small /\ key \in Small
  BY <1>2, RingElectionAssumption
<1>4. IsPoly(f, K) /\ IsPoly(key, K)
  BY <1>1, <1>3, Constants DEF Small, IsPoly
<1>5. /\ Halves(a, 1)[p] = f
      /\ Halves(a, 2)[p] = Mul(f, key, K, K)
  BY <1>1, <1>2 DEF Halves, Commit
<1>6. IsPoly(Mul(f, key, K, K), K)
  <2>1. PICK W : W = WaveOf(f, K)
    OBVIOUS
  <2>2. Wave(W, K) /\ \A i \in 0 .. K - 1 : W[i] = f[i]
    BY <1>4, <2>1, WaveOfIsWave
  <2>3. Represents(f, W, K)
    BY <1>4, <2>2, SameSelf DEF Represents
  <2>4. K \in 1 .. K
    OBVIOUS
  <2>5. Represents(Mul(f, key, K, K), Product(W, key, K), K)
    BY <1>4, <2>3, <2>4, MulRepresents
  <2> QED
    BY <2>5 DEF Represents
<1> QED
  BY <1>1, <1>2, <1>4, <1>5, <1>6

(* An encoding is a pair of polynomials, which represent the products of   *)
(* the mark with the halves of the leader's commit.                        *)
LEMMA EncodedRepresents ==
    ASSUME \A k \in 0 .. G - 1 : degree[k] \in Nat,
           NEW d \in Int, d = SumBelow(G, degree),
           NEW l \in Parties, l = d % G,
           NEW B, B = Shift(Mark, d - l),
           NEW a \in [Parties -> Randoms], NEW x, EncodedBy(x, a)
    PROVE  /\ Represents(x[1], Product(B, a[l], CommitLen), N)
           /\ Represents(x[2],
                  Product(B, Mul(a[l], Key[l], CommitLen, CommitLen), CommitLen), N)
           /\ x \in Ring \X Ring
<1>1. PICK f : f = Rotated(G)
  OBVIOUS
<1>2. Represents(f, Shift(Mark, d), N)
  BY <1>1, Constants, RotatedRepresents
<1>3. ASSUME NEW half, \A p \in Parties : IsPoly(half[p], CommitLen)
      PROVE  /\ Represents(EncodeHalf(Selectors(f), half), Product(B, half[l], CommitLen), N)
             /\ EncodeHalf(Selectors(f), half) \in Ring
  <2>1. /\ Represents(EncodeHalf(Selectors(f), half),
                      Product(Shift(Mark, d - l), half[l], CommitLen), N)
        /\ \A i \in 0 .. N - 1 : EncodeHalf(Selectors(f), half)[i] \in 0 .. P - 1
    BY <1>2, <1>3, EncodeHalfRepresents
  <2>2. EncodeHalf(Selectors(f), half) \in Ring
    BY <2>1 DEF EncodeHalf, Ring
  <2> QED
    BY <2>1, <2>2
<1>4. PICK g, h : g = Halves(a, 1) /\ h = Halves(a, 2)
  OBVIOUS
<1>5. /\ \A p \in Parties : IsPoly(g[p], CommitLen)
      /\ \A p \in Parties : IsPoly(h[p], CommitLen)
      /\ g[l] = a[l] /\ h[l] = Mul(a[l], Key[l], CommitLen, CommitLen)
  BY <1>4, HalvesAre
<1>6. x = <<EncodeHalf(Selectors(f), g), EncodeHalf(Selectors(f), h)>>
  BY <1>1, <1>4 DEF EncodedBy
<1>7. /\ Represents(EncodeHalf(Selectors(f), g), Product(B, g[l], CommitLen), N)
      /\ EncodeHalf(Selectors(f), g) \in Ring
  BY <1>3, <1>5
<1>8. /\ Represents(EncodeHalf(Selectors(f), h), Product(B, h[l], CommitLen), N)
      /\ EncodeHalf(Selectors(f), h) \in Ring
  BY <1>3, <1>5
<1> QED
  BY <1>5, <1>6, <1>7, <1>8

(* What everybody decodes opens under the key of the party with the number *)
(* of the sum of the degrees, and under no other that is told apart.       *)
LEMMA ElectedOpens ==
    ASSUME \A k \in 0 .. G - 1 : degree[k] \in Nat,
           NEW l \in Parties, l = SumBelow(G, degree) % G,
           \A p \in Parties : Encoded(p),
           NEW c, c = DecodeCommit(DivV(FinalCommit(1)), DivV(FinalCommit(2)))
    PROVE  /\ c \in Small \X Small
           /\ Opens(l, c)
           /\ TellsApart(LeaderHalf) => \A q \in Parties : Opens(q, c) => q = l
<1>1. G \in Nat \ {0} /\ CommitLen \in Nat \ {0} /\ Parties = 0 .. G - 1
  BY Constants
<1>2. PICK d \in Int : d = SumBelow(G, degree)
  <2>1. \A k \in 0 .. G - 1 : degree[k] \in Int
    OBVIOUS
  <2>2. SumBelow(G, degree) \in Int
    BY <1>1, <2>1, SumBelowType
  <2> QED
    BY <2>2
<1>3. PICK t \in Int : t = d - l
  BY <1>1
<1>4. PICK B : B = Shift(Mark, t)
  OBVIOUS
<1>5. PICK k \in Int, u \in 0 .. Chunks - 1, r \in 0 .. CommitLen - 1 :
          t = (CommitLen * u + r) + N * k
  BY ChunkAndPlace
<1>7. ASSUME NEW p \in Parties
      PROVE  drawn[p] \in [Parties -> Randoms] /\ EncodedBy(encoded[p], drawn[p])
  BY DEF Encoded
<1>8. PICK key : key = Key[l]
  OBVIOUS
<1>9. PICK g, h : /\ g = [p \in Parties |-> drawn[p][l]]
                  /\ h = [p \in Parties |-> Mul(drawn[p][l], key, CommitLen, CommitLen)]
  OBVIOUS
<1>10. ASSUME NEW p \in Parties
       PROVE  IsPoly(g[p], CommitLen) /\ IsPoly(h[p], CommitLen) /\ IsPoly(key, CommitLen)
  BY <1>7, <1>8, <1>9, HalvesAre
<1>11. Keyed(g, key, h)
  BY <1>9 DEF Keyed
<1>12. PICK a, b : /\ a = [p \in Parties |-> encoded[p][1]]
                   /\ b = [p \in Parties |-> encoded[p][2]]
  OBVIOUS
<1>13. ASSUME NEW p \in Parties
       PROVE  /\ Represents(a[p], Product(B, g[p], CommitLen), N)
              /\ Represents(b[p], Product(B, h[p], CommitLen), N)
  <2>1. PICK x, v : x = encoded[p] /\ v = drawn[p]
    OBVIOUS
  <2>2. v \in [Parties -> Randoms] /\ EncodedBy(x, v)
    BY <1>7, <2>1
  <2>3. /\ Represents(x[1], Product(B, v[l], CommitLen), N)
        /\ Represents(x[2], Product(B, Mul(v[l], Key[l], CommitLen, CommitLen), CommitLen), N)
    BY <1>2, <1>3, <1>4, <2>2, EncodedRepresents
  <2> QED
    BY <1>8, <1>9, <1>12, <2>1, <2>3
<1>14. PICK F, E : F = FinalCommit(1) /\ E = FinalCommit(2)
  OBVIOUS
<1>15. ASSUME NEW i \in 0 .. N - 1
       PROVE  /\ F[i] = SumBelow(G, [p \in Parties |-> a[p][i]]) % P
              /\ E[i] = SumBelow(G, [p \in Parties |-> b[p][i]]) % P
  <2>1. /\ [p \in Parties |-> a[p][i]] = [p \in Parties |-> encoded[p][1][i]]
        /\ [p \in Parties |-> b[p][i]] = [p \in Parties |-> encoded[p][2][i]]
    BY <1>12
  <2> QED
    BY <1>14, <2>1 DEF FinalCommit
<1>16. PICK m, n : m = DivV(F) /\ n = DivV(E)
  OBVIOUS
<1>17. Shows(m, Turned(Total(g), r), k, u, r) /\ Shows(n, Turned(Total(h), r), k, u, r)
  <2>1. ASSUME NEW C, \A p \in Parties : IsPoly(C[p], CommitLen),
               NEW e, \A p \in Parties : Represents(e[p], Product(B, C[p], CommitLen), N),
               NEW H, \A i \in 0 .. N - 1 :
                          H[i] = SumBelow(G, [p \in Parties |-> e[p][i]]) % P
        PROVE  Shows(DivV(H), Turned(Total(C), r), k, u, r)
    BY <1>4, <1>5, <2>1, FoldShows
  <2>2. /\ \A p \in Parties : IsPoly(g[p], CommitLen)
        /\ \A p \in Parties : Represents(a[p], Product(B, g[p], CommitLen), N)
        /\ \A i \in 0 .. N - 1 : F[i] = SumBelow(G, [p \in Parties |-> a[p][i]]) % P
    BY <1>10, <1>13, <1>15
  <2>3. Shows(DivV(F), Turned(Total(g), r), k, u, r)
    BY <2>1, <2>2
  <2>4. /\ \A p \in Parties : IsPoly(h[p], CommitLen)
        /\ \A p \in Parties : Represents(b[p], Product(B, h[p], CommitLen), N)
        /\ \A i \in 0 .. N - 1 : E[i] = SumBelow(G, [p \in Parties |-> b[p][i]]) % P
    BY <1>10, <1>13, <1>15
  <2>5. Shows(DivV(E), Turned(Total(h), r), k, u, r)
    BY <2>1, <2>4
  <2> QED
    BY <1>16, <2>3, <2>5
<1>18. PICK A, C : A = Total(g) /\ C = Total(h)
  OBVIOUS
<1>19. IsPoly(A, CommitLen) /\ IsPoly(C, CommitLen) /\ IsPoly(key, CommitLen)
  BY <1>10, <1>18, TotalIsPoly
<1>20. \A j \in 0 .. CommitLen - 1 :
          Same(C[j], Product(WaveOf(A, CommitLen), key, CommitLen)[j])
  BY <1>10, <1>11, <1>18, <1>19, TotalKeyed
<1>21. /\ c \in Small \X Small
       /\ c[2] = Mul(c[1], key, CommitLen, CommitLen)
       /\ \A q \in Parties :
            c[2] = Mul(c[1], Key[q], CommitLen, CommitLen) => SameProducts(A, key, Key[q])
  <2>1. Shows(m, Turned(A, r), k, u, r) /\ Shows(n, Turned(C, r), k, u, r)
    BY <1>17, <1>18
  <2>2. c = DecodeCommit(m, n)
    BY <1>14, <1>16
  <2>3. CommitOf(c, A, key)
    BY <1>19, <1>20, <2>1, <2>2, ShownOpens
  <2> QED
    BY <2>3 DEF CommitOf
<1>22. PICK D : D = LeaderHalf
  OBVIOUS
<1>23. ASSUME NEW i \in 0 .. CommitLen - 1 PROVE D[i] \in Int /\ Same(D[i], A[i])
  <2>1. [p \in Parties |-> g[p][i]] = [p \in Parties |-> drawn[p][l][i]]
    BY <1>9
  <2>2. PICK x \in Int : x = A[i]
    BY <1>19 DEF IsPoly
  <2>3. x = SumBelow(G, [p \in Parties |-> g[p][i]])
    BY <1>18, <2>2 DEF Total
  <2>4. D[i] = x % P
    BY <1>22, <2>1, <2>3 DEF LeaderHalf
  <2>5. Same(x % P, x) /\ x % P \in 0 .. P - 1
    BY SameMod
  <2> QED
    BY <2>2, <2>4, <2>5, Constants
<1>24. ASSUME TellsApart(LeaderHalf), NEW q \in Parties, Opens(q, c) PROVE q = l
  <2>1. SameProducts(A, key, Key[q])
    BY <1>21, <1>24 DEF Opens
  <2>2. IsPoly(D, CommitLen) /\ IsPoly(Key[q], CommitLen)
    BY <1>19, <1>23, KeyProduct DEF IsPoly
  <2>3. Mul(D, key, CommitLen, CommitLen) = Mul(D, Key[q], CommitLen, CommitLen)
    BY <1>19, <1>23, <2>1, <2>2, SameProductsMul
  <2> QED
    BY <1>8, <1>22, <1>24, <2>3 DEF TellsApart, Alike
<1> QED
  BY <1>8, <1>21, <1>24 DEF Opens

-----------------------------------------------------------------------------

(* The inductive invariant.  Nobody encodes before all degrees are there,  *)
(* so that every encoding is of the same product; nobody verifies before   *)
(* all encodings are there, so that everybody decodes the same sum.        *)
IInv ==
    /\ degree \in [Parties -> Degrees \cup {-1}]
    /\ DOMAIN drawn = Parties /\ DOMAIN encoded = Parties /\ DOMAIN decoded = Parties
    /\ \A p \in Parties : encoded[p] = << >> => drawn[p] = << >>
    /\ \A p \in Parties : encoded[p] # << >> =>
         /\ \A q \in Parties : degree[q] # -1
         /\ Encoded(p)
    /\ \A p \in Parties : decoded[p] # << >> =>
         /\ \A q \in Parties : encoded[q] # << >>
         /\ decoded[p] = DecodeCommit(DivV(FinalCommit(1)), DivV(FinalCommit(2)))
    /\ announced # -1 =>
         /\ \A p \in Parties : decoded[p] # << >>
         /\ announced = SumBelow(G, degree) % G

(* Once all degrees are chosen, the party with the number of their sum.    *)
LEMMA Chosen ==
    ASSUME degree \in [Parties -> Degrees \cup {-1}], \A q \in Parties : degree[q] # -1
    PROVE  /\ \A k \in 0 .. G - 1 : degree[k] \in Nat
           /\ SumBelow(G, degree) \in Int
           /\ SumBelow(G, degree) % G \in Parties
<1>1. G \in Nat \ {0} /\ N \in Nat \ {0} /\ Parties = 0 .. G - 1
  BY Constants
<1>2. ASSUME NEW k \in 0 .. G - 1 PROVE degree[k] \in Nat /\ degree[k] \in Int
  <2>1. degree[k] \in Degrees
    BY <1>1
  <2>2. PICK n \in Int : n = 2 * N - 1
    BY <1>1
  <2>3. degree[k] \in 0 .. n
    BY <2>1, <2>2, RingElectionAssumption
  <2> QED
    BY <2>3
<1>3. SumBelow(G, degree) \in Int
  BY <1>1, <1>2, SumBelowType
<1>4. PICK d \in Int, m \in Nat \ {0} : d = SumBelow(G, degree) /\ m = G
  BY <1>1, <1>3
<1>5. d % m \in 0 .. m - 1
  OBVIOUS
<1> QED
  BY <1>1, <1>2, <1>3, <1>4, <1>5

(* Before an encoding is there nothing is decoded, and so on.              *)
LEMMA Later ==
    ASSUME IInv
    PROVE  /\ \A p, q \in Parties : encoded[p] = << >> => decoded[q] = << >>
           /\ \A p, q \in Parties : degree[p] = -1 => encoded[q] = << >> /\ decoded[q] = << >>
           /\ \A p \in Parties : decoded[p] = << >> => announced = -1
           /\ Parties # {}
<1>1. 0 \in Parties
  BY Constants
<1> QED
  BY <1>1 DEF IInv

(* An encoding stays one while the degrees stay.                           *)
LEMMA StillEncoded ==
    ASSUME UNCHANGED degree, NEW p, encoded'[p] = encoded[p], drawn'[p] = drawn[p],
           Encoded(p)
    PROVE  Encoded(p)'
<1>1. Rotated(G)' = Rotated(G)
  BY DEF Rotated
<1> QED
  BY <1>1 DEF Encoded, EncodedBy

(* A degree that is chosen first changes nothing that is there.            *)
LEMMA ContributeKeeps ==
    ASSUME IInv, NEW p \in Parties, Contribute(p)
    PROVE  IInv'
<1>1. degree[p] = -1 /\ UNCHANGED <<drawn, encoded, decoded, announced>>
  BY DEF Contribute
<1>2. degree' \in [Parties -> Degrees \cup {-1}]
  BY DEF Contribute, IInv
<1>3. \A q \in Parties : encoded[q] = << >> /\ decoded[q] = << >>
  BY <1>1, Later
<1>4. announced = -1
  BY <1>3, Later
<1> QED
  BY <1>1, <1>2, <1>3, <1>4 DEF IInv

(* The set of degrees being complete, they no longer change.               *)
LEMMA EncodeKeeps ==
    ASSUME IInv, NEW p \in Parties, Encode(p)
    PROVE  IInv'
<1>1. /\ encoded[p] = << >> /\ UNCHANGED <<degree, decoded, announced>>
      /\ \A q \in Parties : degree[q] # -1
  BY DEF Encode
<1>2. PICK a, x :
          /\ a \in [Parties -> Randoms] /\ EncodedBy(x, a) /\ x # << >>
          /\ drawn' = [drawn EXCEPT ![p] = a]
          /\ encoded' = [encoded EXCEPT ![p] = x]
  BY DEF Encode, EncodedBy, Selectors, Halves
<1>3. \A q \in Parties : decoded[q] = << >>
  BY <1>1, Later
<1>4. announced = -1
  BY <1>3, Later
<1>5. DOMAIN drawn' = Parties /\ DOMAIN encoded' = Parties
  BY <1>2 DEF IInv
<1>6. encoded'[p] = x /\ drawn'[p] = a
  BY <1>2 DEF IInv
<1>7. ASSUME NEW q \in Parties, q # p
      PROVE  encoded'[q] = encoded[q] /\ drawn'[q] = drawn[q]
  BY <1>2, <1>7 DEF IInv
<1>8. Encoded(p)'
  <2>1. EncodedBy(x, a)'
    <3>1. Rotated(G)' = Rotated(G)
      BY <1>1 DEF Rotated
    <3> QED
      BY <1>2, <3>1 DEF EncodedBy
  <2> QED
    BY <1>2, <1>6, <2>1 DEF Encoded, EncodedBy
<1>9. ASSUME NEW q \in Parties, encoded'[q] # << >> PROVE Encoded(q)'
  <2>1. CASE q # p
    <3>1. Encoded(q)
      BY <1>7, <1>9, <2>1 DEF IInv
    <3> QED
      BY <1>1, <1>7, <2>1, <3>1, StillEncoded
  <2> QED
    BY <1>8, <2>1
<1>10. \A q \in Parties : encoded'[q] = << >> => drawn'[q] = << >>
  BY <1>2, <1>6, <1>7 DEF IInv
<1> QED
  BY <1>1, <1>3, <1>4, <1>5, <1>9, <1>10 DEF IInv

(* What a party decodes is the same for all.                               *)
LEMMA VerifyKeeps ==
    ASSUME IInv, NEW p \in Parties, Verify(p)
    PROVE  IInv'
<1>1. /\ decoded[p] = << >> /\ UNCHANGED <<degree, drawn, encoded, announced>>
      /\ \A q \in Parties : encoded[q] # << >>
  BY DEF Verify
<1>2. PICK x : /\ x = DecodeCommit(DivV(FinalCommit(1)), DivV(FinalCommit(2)))
               /\ decoded' = [decoded EXCEPT ![p] = x]
  BY DEF Verify
<1>3. announced = -1
  BY <1>1, Later
<1>4. x = DecodeCommit(DivV(FinalCommit(1)), DivV(FinalCommit(2)))'
  BY <1>1, <1>2 DEF FinalCommit
<1>5. ASSUME NEW q \in Parties, decoded'[q] # << >> PROVE decoded'[q] = x
  BY <1>2, <1>5 DEF IInv
<1>6. \A q \in Parties : encoded[q] # << >> => Encoded(q)'
  BY <1>1, StillEncoded DEF IInv
<1>7. DOMAIN decoded' = Parties
  BY <1>2 DEF IInv
<1> QED
  BY <1>1, <1>3, <1>4, <1>5, <1>6, <1>7 DEF IInv

(* The announcement is the last thing that happens.                        *)
LEMMA CheckResultKeeps ==
    ASSUME IInv, CheckResult
    PROVE  IInv'
<1>1. /\ UNCHANGED <<degree, drawn, encoded, decoded>>
      /\ \A p \in Parties : decoded[p] # << >>
      /\ announced' = SumBelow(G, degree) % G
  BY DEF CheckResult
<1>2. \A q \in Parties : encoded[q] # << >> => Encoded(q)'
  BY <1>1, StillEncoded DEF IInv
<1>3. \A q \in Parties : decoded[q] # << >> =>
          decoded[q] = DecodeCommit(DivV(FinalCommit(1)), DivV(FinalCommit(2)))'
  BY <1>1 DEF IInv, FinalCommit
<1> QED
  BY <1>1, <1>2, <1>3 DEF IInv

(* In every state an election reaches, what is encoded is an encoding of   *)
(* the product of all degrees, what is decoded is the decoding of their    *)
(* sum, and the party announced has the number of the sum of the degrees.  *)
THEOREM Invariance == Spec => []IInv
<1>1. Init => IInv
  BY DEF Init, IInv
<1>2. IInv /\ [Next]_vars => IInv'
  <2> SUFFICES ASSUME IInv, [Next]_vars PROVE IInv'
    OBVIOUS
  <2>1. CASE \E p \in Parties : Contribute(p)
    BY <2>1, ContributeKeeps
  <2>2. CASE \E p \in Parties : Encode(p)
    BY <2>2, EncodeKeeps
  <2>3. CASE \E p \in Parties : Verify(p)
    BY <2>3, VerifyKeeps
  <2>4. CASE CheckResult
    BY <2>4, CheckResultKeeps
  <2>5. CASE UNCHANGED vars
    <3>1. /\ UNCHANGED <<degree, drawn, encoded, decoded, announced>>
      BY <2>5 DEF vars
    <3>2. \A q \in Parties : encoded[q] # << >> => Encoded(q)'
      BY <3>1, StillEncoded DEF IInv
    <3>3. \A q \in Parties : decoded[q] # << >> =>
              decoded[q] = DecodeCommit(DivV(FinalCommit(1)), DivV(FinalCommit(2)))'
      BY <3>1 DEF IInv, FinalCommit
    <3> QED
      BY <3>1, <3>2, <3>3 DEF IInv
  <2> QED
    BY <2>1, <2>2, <2>3, <2>4, <2>5 DEF Next, Finished
<1> QED
  BY <1>1, <1>2, PTL DEF Spec

(* Everything has its type.                                                *)
THEOREM TypeCorrect == Spec => []TypeOK
<1>1. IInv => TypeOK
  <2> SUFFICES ASSUME IInv PROVE TypeOK
    OBVIOUS
  <2>1. ASSUME NEW p \in Parties, encoded[p] # << >>
        PROVE  encoded[p] \in Ring \X Ring
    <3>1. degree \in [Parties -> Degrees \cup {-1}] /\ \A q \in Parties : degree[q] # -1
      BY <2>1 DEF IInv
    <3>2. PICK d \in Int : d = SumBelow(G, degree)
      BY <3>1, Chosen
    <3>3. PICK l \in Parties : l = d % G
      BY <3>1, <3>2, Chosen
    <3>4. PICK a \in [Parties -> Randoms] : EncodedBy(encoded[p], a)
      <4>1. Encoded(p)
        BY <2>1 DEF IInv
      <4> QED
        BY <4>1 DEF Encoded
    <3>5. PICK B, x : B = Shift(Mark, d - l) /\ x = encoded[p]
      OBVIOUS
    <3>6. \A k \in 0 .. G - 1 : degree[k] \in Nat
      BY <3>1, Chosen
    <3>7. x \in Ring \X Ring
      BY <3>2, <3>3, <3>4, <3>5, <3>6, EncodedRepresents
    <3> QED
      BY <3>5, <3>7
  <2>2. ASSUME NEW p \in Parties, decoded[p] # << >>
        PROVE  decoded[p] \in Small \X Small
    <3>1. \A q \in Parties : encoded[q] # << >>
      BY <2>2 DEF IInv
    <3>2. /\ degree \in [Parties -> Degrees \cup {-1}] /\ \A q \in Parties : degree[q] # -1
          /\ \A q \in Parties : Encoded(q)
      BY <3>1 DEF IInv
    <3>3. PICK l \in Parties : l = SumBelow(G, degree) % G
      BY <3>2, Chosen
    <3>4. \A k \in 0 .. G - 1 : degree[k] \in Nat
      BY <3>2, Chosen
    <3> QED
      BY <2>2, <3>2, <3>3, <3>4, ElectedOpens DEF IInv
  <2>4. ASSUME NEW p \in Parties
        PROVE  drawn[p] \in {<< >>} \cup [Parties -> Randoms]
    <3>1. CASE encoded[p] # << >>
      <4>1. Encoded(p)
        BY <3>1 DEF IInv
      <4> QED
        BY <4>1 DEF Encoded
    <3> QED
      BY <3>1 DEF IInv
  <2>3. announced \in Parties \cup {-1}
    <3>1. CASE announced # -1
      <4>1. \A q \in Parties : degree[q] # -1
        BY <3>1 DEF IInv
      <4> QED
        BY <3>1, <4>1, Chosen DEF IInv
    <3> QED
      BY <3>1
  <2> QED
    BY <2>1, <2>2, <2>3, <2>4 DEF IInv, TypeOK
<1> QED
  BY <1>1, Invariance, PTL

(* Whoever has verified holds a commit that opens under the key of the     *)
(* party with the number of the sum of the degrees, which check_result     *)
(* computes: the election is settled before anybody announces it.          *)
ElectedIsLeader ==
    \A p \in Parties : decoded[p] # << >> =>
        Opens(SumBelow(G, degree) % G, decoded[p])

(* What the threads of party_operation decode is settled by the degrees,   *)
(* whoever is first: only the party check_result names may be left.        *)
THEOREM ElectsBySum == Spec => []ElectedIsLeader
<1>1. IInv => ElectedIsLeader
  <2> SUFFICES ASSUME IInv, NEW p \in Parties, decoded[p] # << >>
               PROVE  Opens(SumBelow(G, degree) % G, decoded[p])
    BY DEF ElectedIsLeader
  <2>1. \A q \in Parties : encoded[q] # << >>
    BY DEF IInv
  <2>2. /\ degree \in [Parties -> Degrees \cup {-1}] /\ \A q \in Parties : degree[q] # -1
        /\ \A q \in Parties : Encoded(q)
    BY <2>1 DEF IInv
  <2>3. PICK l \in Parties : l = SumBelow(G, degree) % G
    BY <2>2, Chosen
  <2>4. \A k \in 0 .. G - 1 : degree[k] \in Nat
    BY <2>2, Chosen
  <2>5. Opens(l, DecodeCommit(DivV(FinalCommit(1)), DivV(FinalCommit(2))))
    BY <2>2, <2>3, <2>4, ElectedOpens
  <2> QED
    BY <2>3, <2>5 DEF IInv
<1> QED
  BY <1>1, Invariance, PTL

(* The party check_result announces finds itself to be the leader, whatever *)
(* the ring, the modulus, the keys, the degrees and the random values are. *)
THEOREM AnnouncedLeads == Spec => []AnnouncedIsLeader
<1>1. IInv /\ ElectedIsLeader => AnnouncedIsLeader
  <2> SUFFICES ASSUME IInv, ElectedIsLeader, announced # -1
               PROVE  IsLeader(announced)
    BY DEF AnnouncedIsLeader
  <2>1. \A p \in Parties : decoded[p] # << >>
    BY DEF IInv
  <2>2. announced = SumBelow(G, degree) % G /\ announced \in Parties
    <3>1. \A q \in Parties : degree[q] # -1
      BY <2>1 DEF IInv
    <3> QED
      BY <3>1, Chosen DEF IInv
  <2> QED
    BY <2>1, <2>2 DEF ElectedIsLeader, IsLeader
<1> QED
  BY <1>1, Invariance, ElectsBySum, PTL

-----------------------------------------------------------------------------

(* Exactly one party finds itself to be the leader when is_leader has been *)
(* evaluated everywhere, if what all have drawn for the leader's commit    *)
(* tells the keys apart.                                                   *)
THEOREM ElectsExactlyOne == Spec => []ElectsOne
<1>1. IInv => ElectsOne
  <2> SUFFICES ASSUME IInv, \A p \in Parties : decoded[p] # << >>, TellsApart(LeaderHalf)
               PROVE  \E p \in Parties : {q \in Parties : IsLeader(q)} = {p}
    BY DEF ElectsOne
  <2>1. PICK c : c = DecodeCommit(DivV(FinalCommit(1)), DivV(FinalCommit(2)))
    OBVIOUS
  <2>2. \A p \in Parties : decoded[p] = c
    BY <2>1 DEF IInv
  <2>3. 0 \in Parties
    BY Constants
  <2>4. /\ degree \in [Parties -> Degrees \cup {-1}] /\ \A q \in Parties : degree[q] # -1
        /\ \A q \in Parties : Encoded(q)
    BY <2>3 DEF IInv
  <2>5. PICK l \in Parties : l = SumBelow(G, degree) % G
    BY <2>4, Chosen
  <2>6. \A k \in 0 .. G - 1 : degree[k] \in Nat
    BY <2>4, Chosen
  <2>7. Opens(l, c) /\ \A q \in Parties : Opens(q, c) => q = l
    BY <2>1, <2>4, <2>5, <2>6, ElectedOpens
  <2>8. ASSUME NEW q \in Parties PROVE IsLeader(q) <=> q = l
    BY <2>2, <2>7 DEF IsLeader
  <2> QED
    BY <2>8
<1> QED
  BY <1>1, Invariance, PTL

(* The initial states are initial states of the drawing of a leader.       *)
LEMMA AbsInit == Init => Abstract!Init
<1> SUFFICES ASSUME Init PROVE Abstract!Init
  OBVIOUS
<1>1. 0 \in Parties
  BY Constants
<1>2. degree[0] = -1
  BY <1>1 DEF Init
<1> QED
  BY <1>1, <1>2 DEF Init, Abstract!Init

(* The leader in terms of the degrees, those whose key opens what comes    *)
(* out, and the parties' verdicts.                                         *)
Leader == IF \A p \in Parties : degree[p] # -1 THEN SumBelow(G, degree) % G ELSE -1
Openers == IF \A p \in Parties : encoded[p] # << >>
           THEN {p \in Parties :
                   Opens(p, DecodeCommit(DivV(FinalCommit(1)), DivV(FinalCommit(2))))}
           ELSE {}
Verdict == [p \in Parties |-> IF decoded[p] = << >> THEN "unknown"
                              ELSE IF IsLeader(p) THEN "leader" ELSE "other"]

(* The leader is a party once all degrees are there, and one of those who  *)
(* open once all encodings are; a party's verdict is whether it is.        *)
VerdictsAreRight ==
    /\ (\A p \in Parties : degree[p] # -1) => Leader \in Parties
    /\ (\A p \in Parties : encoded[p] # << >>) =>
         /\ \A p \in Parties : degree[p] # -1
         /\ Leader \in Openers
    /\ \A p \in Parties : decoded[p] # << >> =>
         /\ \A q \in Parties : encoded[q] # << >>
         /\ IsLeader(p) <=> p \in Openers

(* The commit that comes out opens under the leader's key.                 *)
LEMMA VerdictIsRight ==
    ASSUME IInv
    PROVE  VerdictsAreRight
<1>1. ASSUME \A q \in Parties : degree[q] # -1 PROVE Leader \in Parties
  BY <1>1, Chosen DEF IInv, Leader
<1>2. PICK c : c = DecodeCommit(DivV(FinalCommit(1)), DivV(FinalCommit(2)))
  OBVIOUS
<1>3. ASSUME \A p \in Parties : encoded[p] # << >>
      PROVE  /\ \A p \in Parties : degree[p] # -1
             /\ Leader \in Openers
  <2>1. 0 \in Parties
    BY Constants
  <2>2. /\ degree \in [Parties -> Degrees \cup {-1}] /\ \A q \in Parties : degree[q] # -1
        /\ \A q \in Parties : Encoded(q)
    BY <1>3, <2>1 DEF IInv
  <2>3. PICK l \in Parties : l = SumBelow(G, degree) % G
    BY <2>2, Chosen
  <2>4. \A k \in 0 .. G - 1 : degree[k] \in Nat
    BY <2>2, Chosen
  <2>5. Opens(l, c)
    BY <1>2, <2>2, <2>3, <2>4, ElectedOpens
  <2>6. Leader = l
    BY <2>2, <2>3 DEF Leader
  <2>7. Leader \in Openers
    BY <1>2, <1>3, <2>5, <2>6 DEF Openers
  <2> QED
    BY <2>2, <2>7
<1>4. ASSUME NEW p \in Parties, decoded[p] # << >>
      PROVE  /\ \A q \in Parties : encoded[q] # << >>
             /\ IsLeader(p) <=> p \in Openers
  <2>1. (\A q \in Parties : encoded[q] # << >>) /\ decoded[p] = c
    BY <1>2, <1>4 DEF IInv
  <2>2. Openers = {q \in Parties : Opens(q, c)}
    BY <1>2, <2>1 DEF Openers
  <2>3. IsLeader(p) <=> Opens(p, c)
    BY <1>4, <2>1 DEF IsLeader
  <2> QED
    BY <2>1, <2>2, <2>3
<1> QED
  BY <1>1, <1>3, <1>4 DEF VerdictsAreRight

(* Every step draws the leader, settles who opens, finds out, announces,   *)
(* or changes nothing of what an election promises.                        *)
LEMMA AbsStep ==
    ASSUME IInv, VerdictsAreRight, VerdictsAreRight', [Next]_vars
    PROVE  [Abstract!Next]_Abstract!vars
<1>1. Parties # {} /\ -1 \notin Parties
  BY Constants
<1>2. ASSUME NEW p \in Parties, Contribute(p) PROVE [Abstract!Next]_Abstract!vars
  <2>1. degree[p] = -1 /\ UNCHANGED <<drawn, encoded, decoded, announced>>
    BY <1>2 DEF Contribute
  <2>2. Leader = -1
    BY <2>1 DEF Leader
  <2>3. Verdict' = Verdict /\ announced' = announced
    BY <2>1 DEF Verdict, IsLeader
  <2>4. Openers' = Openers
    BY <2>1 DEF Openers, FinalCommit
  <2>5. CASE \A q \in Parties : degree'[q] # -1
    <3>1. Leader' \in Parties
      BY <2>5 DEF VerdictsAreRight
    <3>2. Abstract!Draw
      BY <2>2, <2>3, <2>4, <3>1 DEF Abstract!Draw, Leader, Openers, Verdict
    <3> QED
      BY <3>2 DEF Abstract!Next
  <2>6. CASE ~ \A q \in Parties : degree'[q] # -1
    <3>1. Leader' = -1
      BY <2>6 DEF Leader
    <3> QED
      BY <2>2, <2>3, <2>4, <3>1 DEF Abstract!vars, Leader, Openers, Verdict
  <2> QED
    BY <2>5, <2>6
<1>3. ASSUME NEW p \in Parties, Encode(p) PROVE [Abstract!Next]_Abstract!vars
  <2>1. /\ encoded[p] = << >> /\ UNCHANGED <<degree, decoded, announced>>
        /\ \A q \in Parties : degree[q] # -1
    BY <1>3 DEF Encode
  <2>2. Leader' = Leader
    BY <2>1 DEF Leader
  <2>3. Verdict' = Verdict /\ announced' = announced
    BY <2>1 DEF Verdict, IsLeader
  <2>4. Openers = {}
    BY <2>1 DEF Openers
  <2>5. CASE \A q \in Parties : encoded'[q] # << >>
    <3>1. Leader' \in Openers' /\ Openers' \subseteq Parties
      BY <2>5 DEF VerdictsAreRight, Openers
    <3>2. Leader # -1
      BY <1>1, <2>1 DEF VerdictsAreRight
    <3>3. Openers' \in {S \in SUBSET Parties : Leader \in S}
      BY <2>2, <3>1
    <3>4. Abstract!Reveal
      BY <2>2, <2>3, <2>4, <3>2, <3>3 DEF Abstract!Reveal, Leader, Openers, Verdict
    <3> QED
      BY <3>4 DEF Abstract!Next
  <2>6. CASE ~ \A q \in Parties : encoded'[q] # << >>
    <3>1. Openers' = {}
      BY <2>6 DEF Openers
    <3> QED
      BY <2>2, <2>3, <2>4, <3>1 DEF Abstract!vars, Leader, Openers, Verdict
  <2> QED
    BY <2>5, <2>6
<1>4. ASSUME NEW p \in Parties, Verify(p) PROVE Abstract!FindOut(p)
  <2>1. /\ decoded[p] = << >> /\ UNCHANGED <<degree, drawn, encoded, announced>>
        /\ \A q \in Parties : encoded[q] # << >>
    BY <1>4 DEF Verify
  <2>2. PICK x : decoded' = [decoded EXCEPT ![p] = x] /\ x # << >>
    <3>1. PICK x : /\ x = DecodeCommit(DivV(FinalCommit(1)), DivV(FinalCommit(2)))
                   /\ decoded' = [decoded EXCEPT ![p] = x]
      BY <1>4 DEF Verify
    <3>2. x # << >>
      BY <3>1 DEF DecodeCommit
    <3> QED
      BY <3>1, <3>2
  <2>3. Leader' = Leader
    BY <2>1 DEF Leader
  <2>4. Openers' = Openers
    BY <2>1 DEF Openers, FinalCommit
  <2>5. Openers # {}
    BY <2>1 DEF VerdictsAreRight
  <2>6. decoded'[p] # << >> /\ \A q \in Parties : q # p => decoded'[q] = decoded[q]
    BY <2>2 DEF IInv
  <2>7. IsLeader(p)' <=> p \in Openers'
    BY <2>6 DEF VerdictsAreRight
  <2>8. Verdict[p] = "unknown"
    BY <2>1 DEF Verdict
  <2>9. Verdict' = [Verdict EXCEPT ![p] = IF p \in Openers THEN "leader" ELSE "other"]
    <3>1. Verdict'[p] = IF p \in Openers THEN "leader" ELSE "other"
      BY <2>4, <2>6, <2>7 DEF Verdict
    <3>2. \A q \in Parties : q # p => Verdict'[q] = Verdict[q]
      BY <2>6 DEF Verdict, IsLeader
    <3> QED
      BY <3>1, <3>2 DEF Verdict
  <2> QED
    BY <2>1, <2>3, <2>4, <2>5, <2>8, <2>9
    DEF Abstract!FindOut, Leader, Openers, Verdict
<1>5. ASSUME CheckResult PROVE Abstract!Announce
  <2>1. /\ announced = -1 /\ UNCHANGED <<degree, drawn, encoded, decoded>>
        /\ \A p \in Parties : decoded[p] # << >>
        /\ announced' = SumBelow(G, degree) % G
    BY <1>5 DEF CheckResult
  <2>2. Leader = SumBelow(G, degree) % G
    BY <1>1, <2>1 DEF IInv, Leader
  <2>3. \A p \in Parties : Verdict[p] # "unknown"
    BY <2>1 DEF Verdict
  <2>4. Leader' = Leader /\ Verdict' = Verdict
    BY <2>1 DEF Leader, Verdict, IsLeader
  <2>5. Openers' = Openers
    BY <2>1 DEF Openers, FinalCommit
  <2> QED
    BY <2>1, <2>2, <2>3, <2>4, <2>5 DEF Abstract!Announce, Leader, Openers, Verdict
<1>6. ASSUME UNCHANGED vars PROVE UNCHANGED Abstract!vars
  <2>1. UNCHANGED <<degree, drawn, encoded, decoded, announced>>
    BY <1>6 DEF vars
  <2>2. Leader' = Leader /\ Verdict' = Verdict
    BY <2>1 DEF Leader, Verdict, IsLeader
  <2>3. Openers' = Openers
    BY <2>1 DEF Openers, FinalCommit
  <2> QED
    BY <2>1, <2>2, <2>3 DEF Abstract!vars, Leader, Openers, Verdict
<1> QED
  BY <1>2, <1>3, <1>4, <1>5, <1>6 DEF Next, Finished, Abstract!Next

(* The election implements the drawing of a leader: it is settled by the   *)
(* last degree, nobody's verdict depends on who verifies first, and the    *)
(* party announced is one that finds itself to be the leader.              *)
THEOREM Implements == Spec => ImplementsElection
<1>1. Init => Abstract!Init
  BY AbsInit
<1>2. IInv => VerdictsAreRight
  BY VerdictIsRight
<1>3. IInv /\ VerdictsAreRight /\ VerdictsAreRight' /\ [Next]_vars =>
          [Abstract!Next]_Abstract!vars
  BY AbsStep
<1>4. Spec => Abstract!Spec
  BY <1>1, <1>2, <1>3, Invariance, PTL DEF Spec, Abstract!Spec
<1> QED
  BY <1>4 DEF ImplementsElection

-----------------------------------------------------------------------------

(* How the parties are taken in chunks by rayon's threads: every chunk     *)
(* begins with a party, and every party is in one of them.                 *)
LEMMA ChunkSizeIs ==
    \E c \in Nat \ {0}, n \in Nat \ {0} :
        /\ c = ChunkSize /\ n = (G + c - 1) \div c
        /\ \A k \in 0 .. n - 1 : k * c \in Nat /\ k * c < G
        /\ \A l \in Parties : l \div c \in 0 .. n - 1
<1>1. PICK m \in Nat \ {0}, t \in Nat \ {0} : m = G /\ t = Threads
  BY Constants, RingElectionAssumption
<1>2. PICK x \in Int : x = m + t - 1
  OBVIOUS
<1>3. PICK c \in Int, r \in 0 .. t - 1 : c = x \div t /\ x = r + t * c
  BY Place
<1>4. c >= 1
  <2>1. SUFFICES ASSUME c =< 0 PROVE FALSE
    BY <1>3
  <2>2. PICK y \in Int : y = t * c
    OBVIOUS
  <2>3. y =< 0
    BY <2>1, <2>2
  <2> QED
    BY <1>2, <1>3, <2>2, <2>3
<1>5. c \in Nat \ {0} /\ c = ChunkSize
  BY <1>1, <1>2, <1>3, <1>4 DEF ChunkSize
<1>6. PICK z \in Int : z = m + c - 1
  BY <1>5
<1>7. PICK n \in Int, s \in 0 .. c - 1 : n = z \div c /\ z = s + c * n
  BY <1>5, Place
<1>8. PICK cn \in Int : cn = c * n
  OBVIOUS
<1>9. m - 1 >= cn - c /\ cn >= m
  BY <1>5, <1>6, <1>7, <1>8
<1>10. n >= 1
  <2>1. SUFFICES ASSUME n =< 0 PROVE FALSE
    BY <1>7
  <2>2. cn =< 0
    BY <1>5, <1>8, <2>1
  <2> QED
    BY <1>9, <2>2
<1>11. ASSUME NEW k \in 0 .. n - 1 PROVE k * c \in Nat /\ k * c < m
  <2>1. PICK d \in Nat : d = (n - 1) - k
    BY <1>11
  <2>2. PICK cd, ck \in Int : cd = c * d /\ ck = c * k
    BY <1>5
  <2>3. cd >= 0 /\ ck >= 0
    BY <1>5, <1>11, <2>1, <2>2
  <2>4. cn = ck + cd + c
    <3>1. n = k + d + 1
      BY <2>1
    <3> QED
      BY <1>5, <1>8, <2>2, <3>1
  <2>5. k * c = ck
    BY <1>5, <2>2
  <2> QED
    BY <1>9, <2>3, <2>4, <2>5
<1>12. ASSUME NEW l \in Parties PROVE l \div c \in 0 .. n - 1
  <2>1. l \in 0 .. m - 1
    BY <1>1 DEF Parties
  <2>2. PICK k \in Int, q \in 0 .. c - 1 : k = l \div c /\ l = q + c * k
    BY <1>5, <2>1, Place
  <2>3. PICK ck \in Int : ck = c * k
    OBVIOUS
  <2>4. k >= 0
    <3>1. SUFFICES ASSUME k =< -1 PROVE FALSE
      BY <2>2
    <3>2. ck =< -c
      BY <1>5, <2>3, <3>1, MultipleTooLarge
    <3> QED
      BY <2>1, <2>2, <2>3, <3>2
  <2>5. k =< n - 1
    <3>1. SUFFICES ASSUME k >= n PROVE FALSE
      BY <1>7, <2>2
    <3>2. PICK d \in Nat : k = n + d
      <4>1. k - n \in Nat /\ k = n + (k - n)
        BY <1>7, <2>2, <3>1
      <4> QED
        BY <4>1
    <3>3. PICK cd \in Int : cd = c * d
      BY <1>5
    <3>4. cd >= 0
      BY <1>5, <3>2, <3>3
    <3>5. ck = cn + cd
      BY <1>5, <1>8, <2>3, <3>2, <3>3
    <3> QED
      BY <1>9, <2>1, <2>2, <2>3, <3>4, <3>5
  <2> QED
    BY <1>7, <2>2, <2>4, <2>5
<1>13. n \in Nat \ {0} /\ n = (G + c - 1) \div c
  BY <1>1, <1>6, <1>7, <1>10
<1>14. \A k \in 0 .. n - 1 : k * c \in Nat /\ k * c < G
  BY <1>1, <1>11
<1> QED
  BY <1>5, <1>12, <1>13, <1>14

(* A partial sum has the leader's product if the leader is in its chunk,   *)
(* and nothing otherwise.                                                  *)
LEMMA PartialIs ==
    ASSUME NEW f, NEW d \in Int, Represents(f, Shift(Mark, d), N),
           NEW half, \A p \in Parties : IsPoly(half[p], CommitLen),
           NEW l \in Parties, l = d % G,
           NEW W, W = Product(Shift(Mark, d - l), half[l], CommitLen),
           NEW c \in Nat \ {0}, c = ChunkSize,
           NEW k \in Nat, k * c < G,
           NEW i \in 0 .. N - 1
    PROVE  /\ PartialHalf(Selectors(f), half, k)[i] \in 0 .. P - 1
           /\ k = l \div c => Same(PartialHalf(Selectors(f), half, k)[i], W[i])
           /\ k # l \div c => PartialHalf(Selectors(f), half, k)[i] = 0
<1>1. PICK m \in Nat \ {0} : m = G
  BY Constants
<1>2. Parties = 0 .. m - 1 /\ l \in Int
  BY <1>1, Constants
<1>3. PICK first \in Nat : first = k * c
  OBVIOUS
<1>4. PICK n \in Nat \ {0} : n = IF first + c =< m THEN c ELSE m - first
  <2>1. first < m
    BY <1>1, <1>3
  <2>2. (IF first + c =< m THEN c ELSE m - first) \in Nat \ {0}
    BY <2>1
  <2> QED
    BY <2>2
<1>5. PICK u : u = [p \in 0 .. n - 1 |->
                       Mul(Selectors(f)[first + p], half[first + p], N, CommitLen)[i]]
  OBVIOUS
<1>6. PartialHalf(Selectors(f), half, k)[i] = SumBelow(n, u) % P
  BY <1>1, <1>3, <1>4, <1>5 DEF PartialHalf
<1>7. ASSUME NEW p \in 0 .. n - 1
      PROVE  /\ first + p \in Parties /\ u[p] \in 0 .. P - 1 /\ u[p] \in Int
             /\ first + p = l => Same(u[p], W[i])
             /\ first + p # l => u[p] = 0
  <2>1. PICK q \in Parties : q = first + p
    BY <1>2, <1>4
  <2>2. /\ Mul(Selectors(f)[q], half[q], N, CommitLen)[i] \in 0 .. P - 1
        /\ q = l => Same(Mul(Selectors(f)[q], half[q], N, CommitLen)[i], W[i])
        /\ q # l => Mul(Selectors(f)[q], half[q], N, CommitLen)[i] = 0
    BY EncodedTerm
  <2>3. u[p] = Mul(Selectors(f)[q], half[q], N, CommitLen)[i]
    BY <1>5, <2>1
  <2> QED
    BY <2>1, <2>2, <2>3, Constants
<1>8. PICK t \in Int, s \in 0 .. c - 1 : l = s + c * t /\ t = l \div c
  BY <1>2, Place
<1>9. PICK y \in Int : y = SumBelow(n, u)
  <2>1. SumBelow(n, u) \in Int
    BY <1>7, SumBelowType
  <2> QED
    BY <2>1
<1>10. Same(y % P, y) /\ y % P \in 0 .. P - 1
  BY SameMod
<1>11. CASE k = t
  <2>1. first = c * t
    BY <1>3, <1>11
  <2>2. s \in 0 .. n - 1 /\ first + s = l
    BY <1>2, <1>4, <1>8, <2>1
  <2>3. \A p \in 0 .. n - 1 : p # s => first + p # l
    BY <2>2
  <2>4. u[s] \in Int /\ \A p \in 0 .. n - 1 : p # s => u[p] = 0
    BY <1>7, <2>2, <2>3
  <2>5. SumBelow(n, u) = u[s]
    BY <2>2, <2>4, SumBelowSingle
  <2>6. Same(y, W[i])
    BY <1>7, <1>9, <2>2, <2>5
  <2> QED
    BY <1>6, <1>8, <1>9, <1>10, <1>11, <2>6, SameTrans
<1>12. CASE k # t
  <2>1. ASSUME NEW p \in 0 .. n - 1 PROVE first + p # l
    <3>1. SUFFICES ASSUME first + p = l PROVE FALSE
      OBVIOUS
    <3>2. p \in 0 .. c - 1
      BY <1>1, <1>3, <1>4
    <3>3. PICK j \in Int : j = k
      OBVIOUS
    <3>4. first = c * j
      BY <1>3, <3>3
    <3>5. (c * j + p) \div c = j
      BY <3>2, DivModUnique
    <3> QED
      BY <1>8, <1>12, <3>1, <3>3, <3>4, <3>5
  <2>2. \A p \in 0 .. n - 1 : u[p] = 0
    BY <1>7, <2>1
  <2>3. y = 0
    BY <1>9, <2>2, SumBelowZero
  <2>4. y % P = 0
    BY <2>3, Constants
  <2> QED
    BY <1>6, <1>8, <1>9, <1>10, <1>12, <2>4
<1> QED
  BY <1>11, <1>12

(* The partial sums of the benchmark add up to what the sum over all       *)
(* parties represents.                                                     *)
LEMMA BenchmarkHalfRepresents ==
    ASSUME NEW f, NEW d \in Int, Represents(f, Shift(Mark, d), N),
           NEW half, \A p \in Parties : IsPoly(half[p], CommitLen),
           NEW l \in Parties, l = d % G
    PROVE  Represents(BenchmarkHalf(Selectors(f), half),
                      Product(Shift(Mark, d - l), half[l], CommitLen), N)
<1>1. PICK W : W = Product(Shift(Mark, d - l), half[l], CommitLen)
  OBVIOUS
<1>2. Wave(W, N)
  <2>1. 0 \in 0 .. N - 1
    BY Constants
  <2> QED
    BY <1>1, <2>1, EncodedTerm
<1>3. PICK c \in Nat \ {0}, n \in Nat \ {0} :
          /\ c = ChunkSize /\ n = (G + c - 1) \div c
          /\ \A k \in 0 .. n - 1 : k * c \in Nat /\ k * c < G
          /\ \A q \in Parties : q \div c \in 0 .. n - 1
  BY ChunkSizeIs
<1>4. PICK H : H = BenchmarkHalf(Selectors(f), half)
  OBVIOUS
<1>5. ASSUME NEW i \in 0 .. N - 1 PROVE H[i] \in Int /\ Same(H[i], W[i])
  <2>1. PICK u : u = [k \in 0 .. n - 1 |-> PartialHalf(Selectors(f), half, k)[i]]
    OBVIOUS
  <2>2. H[i] = SumBelow(n, u)
    <3>1. PICK v : v = [k \in 0 .. n - 1 |-> PartialHalf(Selectors(f), half, k)]
      OBVIOUS
    <3>2. [k \in 0 .. n - 1 |-> v[k][i]] = u
      BY <2>1, <3>1
    <3>3. H[i] = SumBelow(n, [k \in 0 .. n - 1 |-> v[k][i]])
      BY <1>3, <1>4, <3>1 DEF BenchmarkHalf
    <3> QED
      BY <3>2, <3>3
  <2>3. ASSUME NEW k \in 0 .. n - 1
        PROVE  /\ u[k] \in 0 .. P - 1 /\ u[k] \in Int
               /\ k = l \div c => Same(u[k], W[i])
               /\ k # l \div c => u[k] = 0
    <3>1. k \in Nat /\ k * c < G /\ c = ChunkSize
      BY <1>3
    <3>2. /\ PartialHalf(Selectors(f), half, k)[i] \in 0 .. P - 1
          /\ k = l \div c => Same(PartialHalf(Selectors(f), half, k)[i], W[i])
          /\ k # l \div c => PartialHalf(Selectors(f), half, k)[i] = 0
      BY <1>1, <3>1, PartialIs
    <3>3. u[k] = PartialHalf(Selectors(f), half, k)[i]
      BY <2>1
    <3> QED
      BY <3>2, <3>3, Constants
  <2>4. PICK t \in 0 .. n - 1 : t = l \div c
    BY <1>3
  <2>5. u[t] \in Int /\ \A k \in 0 .. n - 1 : k # t => u[k] = 0
    BY <2>3, <2>4
  <2>6. SumBelow(n, u) = u[t]
    BY <2>5, SumBelowSingle
  <2>7. Same(u[t], W[i])
    BY <2>3, <2>4
  <2> QED
    BY <2>2, <2>5, <2>6, <2>7
<1>6. Represents(H, W, N)
  BY <1>2, <1>5 DEF Represents, IsPoly
<1> QED
  BY <1>1, <1>4, <1>6

(* What aggregate_encode_commits makes of a sum that is not reduced        *)
(* represents the same.                                                    *)
Reduced(F) == [i \in 0 .. N - 1 |-> F[i] % P]

LEMMA ReducedRepresents ==
    ASSUME NEW F, NEW W, Represents(F, W, N)
    PROVE  Represents(Reduced(F), W, N)
<1>1. ASSUME NEW i \in 0 .. N - 1
      PROVE  Reduced(F)[i] \in Int /\ Same(Reduced(F)[i], W[i])
  <2>1. PICK x \in Int : x = F[i]
    BY DEF Represents, IsPoly
  <2>2. Reduced(F)[i] = x % P
    BY <2>1 DEF Reduced
  <2>3. Same(x % P, x) /\ x % P \in 0 .. P - 1
    BY SameMod
  <2>4. Same(x, W[i])
    BY <2>1 DEF Represents
  <2> QED
    BY <2>2, <2>3, <2>4, SameTrans, Constants
<1> QED
  BY <1>1 DEF Represents, IsPoly

(* What the benchmark decodes opens under the key of the party with the    *)
(* number of the sum of the first RgswCount degrees, and under no other    *)
(* that does not do the same to that party's commit.                       *)
LEMMA BenchmarkOpens ==
    ASSUME \A k \in 0 .. RgswCount - 1 : degree[k] \in Nat,
           NEW a \in [Parties -> Randoms], NEW c, c = BenchmarkCommit(a)
    PROVE  /\ BenchmarkChoose \in Parties
           /\ c \in Small \X Small
           /\ Opens(BenchmarkChoose, c)
           /\ \A q \in Parties :
                Opens(q, c) => Alike(a[BenchmarkChoose], BenchmarkChoose, q)
<1>1. PICK m \in Nat \ {0}, w \in Nat \ {0} : m = G /\ w = RgswCount
  BY Constants, RingElectionAssumption
<1>2. PICK d \in Int : d = SumBelow(w, degree)
  <2>1. \A k \in 0 .. w - 1 : degree[k] \in Int
    BY <1>1
  <2>2. SumBelow(w, degree) \in Int
    BY <2>1, SumBelowType
  <2> QED
    BY <2>2
<1>3. PICK l \in Parties : l = d % m
  <2>1. d % m \in 0 .. m - 1
    OBVIOUS
  <2> QED
    BY <1>1, <2>1 DEF Parties
<1>4. l = BenchmarkChoose /\ l = d % G /\ l \in Int
  BY <1>1, <1>2, <1>3 DEF BenchmarkChoose, Parties
<1>5. PICK f : f = Rotated(w)
  OBVIOUS
<1>6. Represents(f, Shift(Mark, d), N)
  BY <1>1, <1>2, <1>5, RotatedRepresents
<1>7. PICK t \in Int : t = d - l
  BY <1>4
<1>8. PICK k \in Int, u \in 0 .. Chunks - 1, r \in 0 .. CommitLen - 1 :
          t = (CommitLen * u + r) + N * k
  BY ChunkAndPlace
<1>9. ASSUME NEW half, \A p \in Parties : IsPoly(half[p], CommitLen)
      PROVE  Shows(DivV(Reduced(BenchmarkHalf(Selectors(f), half))),
                   Turned(half[l], r), k, u, r)
  <2>1. PICK F, C : F = Reduced(BenchmarkHalf(Selectors(f), half)) /\ C = half[l]
    OBVIOUS
  <2>2. IsPoly(C, CommitLen)
    BY <1>9, <2>1
  <2>3. Represents(F, Product(Shift(Mark, t), C, CommitLen), N)
    <3>1. PICK H : H = BenchmarkHalf(Selectors(f), half)
      OBVIOUS
    <3>2. Represents(H, Product(Shift(Mark, t), C, CommitLen), N)
      BY <1>4, <1>6, <1>7, <1>9, <2>1, <3>1, BenchmarkHalfRepresents
    <3>3. Represents(Reduced(H), Product(Shift(Mark, t), C, CommitLen), N)
      BY <3>2, ReducedRepresents
    <3> QED
      BY <2>1, <3>1, <3>3
  <2>4. /\ Represents(DivV(F), Shift(Spread(C), t), N)
        /\ \A i \in 0 .. N - 1 : DivV(F)[i] \in 0 .. P - 1
    BY <2>2, <2>3, DivVRepresents
  <2>5. Shows(DivV(F), Turned(C, r), k, u, r)
    BY <1>8, <2>2, <2>4, RepresentsShows
  <2> QED
    BY <2>1, <2>5
<1>10. PICK g, h : g = Halves(a, 1) /\ h = Halves(a, 2)
  OBVIOUS
<1>11. /\ \A p \in Parties : IsPoly(g[p], CommitLen)
       /\ \A p \in Parties : IsPoly(h[p], CommitLen)
  BY <1>10, HalvesAre
<1>12. PICK A, key, C : A = g[l] /\ key = Key[l] /\ C = h[l]
  OBVIOUS
<1>13. /\ IsPoly(A, CommitLen) /\ IsPoly(C, CommitLen) /\ IsPoly(key, CommitLen)
       /\ A = a[l] /\ C = Mul(A, key, CommitLen, CommitLen)
  BY <1>10, <1>12, HalvesAre
<1>14. PICK x, y : /\ x = DivV(Reduced(BenchmarkHalf(Selectors(f), g)))
                   /\ y = DivV(Reduced(BenchmarkHalf(Selectors(f), h)))
  OBVIOUS
<1>15. Shows(x, Turned(A, r), k, u, r) /\ Shows(y, Turned(C, r), k, u, r)
  BY <1>9, <1>11, <1>12, <1>14
<1>16. c = DecodeCommit(x, y)
  BY <1>1, <1>5, <1>10, <1>14 DEF BenchmarkCommit, Selectors, Halves, Reduced
<1>17. \A j \in 0 .. CommitLen - 1 :
          Same(C[j], Product(WaveOf(A, CommitLen), key, CommitLen)[j])
  <2>1. PICK K \in Nat \ {0} : K = CommitLen
    BY Constants
  <2>2. PICK B : B = WaveOf(A, K)
    OBVIOUS
  <2>3. Wave(B, K) /\ \A i \in 0 .. K - 1 : B[i] = A[i]
    BY <1>13, <2>1, <2>2, WaveOfIsWave
  <2>4. Represents(A, B, K) /\ IsPoly(key, K) /\ K \in 1 .. K
    BY <1>13, <2>1, <2>3, SameSelf DEF Represents
  <2>5. Represents(Mul(A, key, K, K), Product(B, key, K), K)
    BY <2>4, MulRepresents
  <2> QED
    BY <1>13, <2>1, <2>2, <2>5 DEF Represents
<1>18. /\ c \in Small \X Small
       /\ c[2] = Mul(c[1], key, CommitLen, CommitLen)
       /\ \A q \in Parties :
            c[2] = Mul(c[1], Key[q], CommitLen, CommitLen) => SameProducts(A, key, Key[q])
  <2>1. CommitOf(c, A, key)
    BY <1>13, <1>15, <1>16, <1>17, ShownOpens
  <2> QED
    BY <2>1 DEF CommitOf
<1>19. ASSUME NEW q \in Parties, Opens(q, c) PROVE Alike(a[l], l, q)
  <2>1. SameProducts(A, key, Key[q])
    BY <1>18, <1>19 DEF Opens
  <2>2. IsPoly(Key[q], CommitLen)
    BY <1>13, KeyProduct
  <2>3. Mul(A, key, CommitLen, CommitLen) = Mul(A, Key[q], CommitLen, CommitLen)
    BY <1>13, <2>1, <2>2, SameSelf, SameProductsMul
  <2> QED
    BY <1>12, <1>13, <2>3 DEF Alike
<1> QED
  BY <1>4, <1>12, <1>18, <1>19 DEF Opens

(* The party the benchmark returns opens the commit it decodes, and those  *)
(* only whose key does the same to that party's commit as its own: with    *)
(* any number of degrees and any number of threads.                        *)
THEOREM BenchmarkElectsOne == Spec => []BenchmarkElects
<1> DEFINE DegreesAre == degree \in [Parties -> Degrees \cup {-1}]
<1>1. TypeOK => DegreesAre
  BY DEF TypeOK
<1>2. DegreesAre => BenchmarkElects
  <2> SUFFICES ASSUME DegreesAre, \A p \in 0 .. RgswCount - 1 : degree[p] # -1,
                      NEW a \in [Parties -> Randoms]
               PROVE  /\ Opens(BenchmarkChoose, BenchmarkCommit(a))
                      /\ \A q \in Parties :
                           Opens(q, BenchmarkCommit(a)) =>
                             Alike(a[BenchmarkChoose], BenchmarkChoose, q)
    BY DEF BenchmarkElects
  <2>1. ASSUME NEW k \in 0 .. RgswCount - 1 PROVE degree[k] \in Nat
    <3>1. PICK w \in 1 .. G : w = RgswCount
      BY RingElectionAssumption
    <3>2. k \in Parties /\ degree[k] # -1
      BY <3>1, Constants
    <3>3. PICK n \in Int : n = 2 * N - 1
      BY Constants
    <3>4. degree[k] \in 0 .. n
      BY <3>2, <3>3, RingElectionAssumption
    <3> QED
      BY <3>4
  <2>2. PICK c : c = BenchmarkCommit(a)
    OBVIOUS
  <2> QED
    BY <2>1, <2>2, BenchmarkOpens
<1> QED
  BY <1>1, <1>2, TypeCorrect, PTL
=============================================================================
