-------------------------- MODULE NumberTheorems --------------------------
(***************************************************************************)
(* Facts about numbers that the proofs about the arithmetic of the code    *)
(* share: induction up to a bound, functions defined by recursion on it,   *)
(* residues, running sums, and the ids of the tree.                        *)
(*                                                                         *)
(* Induction is stated for the set of those numbers a statement holds of,  *)
(* and proved from the pigeonhole principle, so that no theorem with an    *)
(* operator as a parameter is needed.                                      *)
(***************************************************************************)
EXTENDS TreeIds, FiniteSets, FiniteSetTheorems, TLAPS

(* f starts with a and goes on by step.                                    *)
Iterates(f, a, step, n) ==
    f[0] = a /\ \A k \in 1 .. n : f[k] = step[<<f[k - 1], k>>]

(* S is the running sum of f.                                              *)
IsSum(S, f, n) ==
    /\ S \in [0 .. n -> Int]
    /\ S[0] = f[0]
    /\ \A k \in 1 .. n : S[k] = S[k - 1] + f[k]

(* t[k] is the total of f[1], ..., f[k].                                   *)
Totals(t, f, n) ==
    /\ t \in [0 .. n -> Nat] /\ t[0] = 0
    /\ \A k \in 1 .. n : t[k] = t[k - 1] + f[k]

(* t satisfies the recursive definition of the totals.                     *)
AddsUp(t, f, n) == t = [k \in 0 .. n |-> IF k = 0 THEN 0 ELSE t[k - 1] + f[k]]

HasTotals(f, n) == \E t : AddsUp(t, f, n) /\ Totals(t, f, n)

(* h is a combination of f and g.                                          *)
Combines(h, a, f, b, g, n) == \A k \in 0 .. n : h[k] = a * f[k] + b * g[k]

-----------------------------------------------------------------------------

(* Induction from 0 to n.  Were it false, "one more" would map the numbers *)
(* up to which the statement holds, finitely many, one to one into those   *)
(* of them that are not 0.                                                 *)
LEMMA InductionUpTo ==
    ASSUME NEW n \in Nat, NEW T, 0 \in T,
           \A k \in 1 .. n : k - 1 \in T => k \in T
    PROVE  \A k \in 0 .. n : k \in T
<1> DEFINE S == {i \in 0 .. n : 0 .. i \subseteq T}
           next == [i \in S |-> i + 1]
<1> SUFFICES ASSUME n \notin S PROVE FALSE
  OBVIOUS
<1>1. IsFiniteSet(S)
  <2>1. S \in SUBSET (0 .. n) /\ IsFiniteSet(0 .. n)
    BY FS_Interval
  <2> QED
    BY <2>1, FS_Subset
<1>2. 0 \in S
  OBVIOUS
<1>3. ASSUME NEW i \in S PROVE i + 1 \in S \ {0}
  <2>1. i \in 0 .. n /\ i # n /\ 0 .. i \subseteq T
    OBVIOUS
  <2>2. i + 1 \in 1 .. n /\ i + 1 \in T
    BY <2>1
  <2>3. 0 .. i + 1 \subseteq T
    BY <2>1, <2>2
  <2> QED
    BY <2>2, <2>3
<1>4. /\ IsFiniteSet(S \ {0}) /\ Cardinality(S \ {0}) = Cardinality(S) - 1
      /\ Cardinality(S) \in Nat
  BY <1>1, <1>2, FS_RemoveElement, FS_CardinalityType
<1>5. next \in [S -> S \ {0}]
  BY <1>3
<1>6. PICK i, j \in S : i # j /\ next[i] = next[j]
  <2> HIDE DEF S, next
  <2> QED
    BY <1>1, <1>4, <1>5, FS_PigeonHole
<1> QED
  BY <1>6

(* There is a function with given start and given step.                    *)
LEMMA RecursiveFunction ==
    ASSUME NEW n \in Nat, NEW X, NEW a \in X, NEW step \in [X \X (1 .. n) -> X]
    PROVE  \E f \in [0 .. n -> X] : Iterates(f, a, step, n)
<1> DEFINE Good(i) == \E f \in [0 .. i -> X] : Iterates(f, a, step, i)
           T == {i \in 0 .. n : Good(i)}
<1>1. Good(0)
  <2> DEFINE g == [k \in 0 .. 0 |-> a]
  <2>1. g \in [0 .. 0 -> X] /\ g[0] = a
    OBVIOUS
  <2> HIDE DEF g
  <2> QED
    BY <2>1 DEF Iterates
<1>2. ASSUME NEW k \in 1 .. n, Good(k - 1) PROVE Good(k)
  <2>1. PICK f \in [0 .. k - 1 -> X] : Iterates(f, a, step, k - 1)
    BY <1>2
  <2> DEFINE g == [j \in 0 .. k |-> IF j = k THEN step[<<f[k - 1], k>>] ELSE f[j]]
  <2>2. f[k - 1] \in X /\ step[<<f[k - 1], k>>] \in X
    OBVIOUS
  <2>3. g \in [0 .. k -> X] /\ g[0] = a
    BY <2>1, <2>2 DEF Iterates
  <2>4. ASSUME NEW j \in 1 .. k PROVE g[j] = step[<<g[j - 1], j>>]
    <3>1. j - 1 \in 0 .. k /\ j - 1 # k /\ j \in 0 .. k
      OBVIOUS
    <3>2. g[j - 1] = f[j - 1]
      BY <3>1
    <3>3. CASE j = k
      BY <3>1, <3>2, <3>3
    <3>4. CASE j # k
      <4>1. j \in 1 .. k - 1
        BY <3>4
      <4>2. f[j] = step[<<f[j - 1], j>>]
        BY <2>1, <4>1 DEF Iterates
      <4> QED
        BY <3>1, <3>2, <3>4, <4>2
    <3> QED
      BY <3>3, <3>4
  <2> HIDE DEF g
  <2> QED
    BY <2>3, <2>4 DEF Iterates
<1> HIDE DEF Good
<1>3. 0 \in T /\ \A k \in 1 .. n : k - 1 \in T => k \in T
  BY <1>1, <1>2
<1>4. Good(n)
  <2> HIDE DEF T
  <2>1. n \in T
    BY <1>3, InductionUpTo
  <2> QED
    BY <2>1 DEF T
<1> QED
  BY <1>4 DEF Good

(* Every function on 0 .. n has a running sum.                             *)
LEMMA SumExists ==
    ASSUME NEW n \in Nat, NEW f, \A k \in 0 .. n : f[k] \in Int
    PROVE  \E S : IsSum(S, f, n)
<1> DEFINE step == [x \in Int \X (1 .. n) |-> x[1] + f[x[2]]]
<1>1. step \in [Int \X (1 .. n) -> Int] /\ f[0] \in Int
  OBVIOUS
<1>2. \A x \in Int, k \in 1 .. n : step[<<x, k>>] = x + f[k]
  OBVIOUS
<1> DEFINE X == Int
           start == f[0]
<1> HIDE DEF step, X, start
<1>3. PICK S \in [0 .. n -> X] : Iterates(S, start, step, n)
  <2>1. start \in X /\ step \in [X \X (1 .. n) -> X]
    BY <1>1 DEF X, start
  <2> QED
    BY <2>1, RecursiveFunction
<1>4. S \in [0 .. n -> Int] /\ S[0] = f[0] /\ \A k \in 1 .. n : S[k - 1] \in Int
  BY <1>3 DEF X, start, Iterates
<1>5. ASSUME NEW k \in 1 .. n PROVE S[k] = S[k - 1] + f[k]
  <2>1. S[k] = step[<<S[k - 1], k>>]
    BY <1>3 DEF Iterates
  <2> QED
    BY <1>2, <1>4, <2>1
<1> QED
  BY <1>4, <1>5 DEF IsSum

(* Functions that start alike and go on alike are alike.                   *)
LEMMA SameRecursion ==
    ASSUME NEW n \in Nat, NEW f, NEW g, f[0] = g[0],
           \A k \in 1 .. n : f[k - 1] = g[k - 1] => f[k] = g[k]
    PROVE  \A k \in 0 .. n : f[k] = g[k]
<1> DEFINE T == {k \in 0 .. n : f[k] = g[k]}
<1>1. 0 \in T /\ \A k \in 1 .. n : k - 1 \in T => k \in T
  OBVIOUS
<1> HIDE DEF T
<1>2. \A k \in 0 .. n : k \in T
  BY <1>1, InductionUpTo
<1> QED
  BY <1>2 DEF T

-----------------------------------------------------------------------------

(* The equation of a recursive definition of the totals has a solution,    *)
LEMMA TotalsExist ==
    ASSUME NEW n \in Nat, NEW f, \A k \in 1 .. n : f[k] \in Nat
    PROVE  HasTotals(f, n)
<1> DEFINE step == [x \in Nat \X (1 .. n) |-> x[1] + f[x[2]]]
<1>1. step \in [Nat \X (1 .. n) -> Nat] /\ 0 \in Nat
  OBVIOUS
<1>2. \A x \in Nat, k \in 1 .. n : step[<<x, k>>] = x + f[k]
  OBVIOUS
<1>3. PICK t \in [0 .. n -> Nat] : Iterates(t, 0, step, n)
  <2> HIDE DEF step
  <2> QED
    BY <1>1, RecursiveFunction
<1>4. t[0] = 0 /\ \A k \in 1 .. n : t[k] = t[k - 1] + f[k]
  <2>1. ASSUME NEW k \in 1 .. n PROVE t[k] = t[k - 1] + f[k]
    <3>1. t[k - 1] \in Nat
      OBVIOUS
    <3>2. t[k] = step[<<t[k - 1], k>>]
      BY <1>3 DEF Iterates
    <3> HIDE DEF step
    <3> QED
      BY <1>2, <3>1, <3>2
  <2> QED
    BY <1>3, <2>1 DEF Iterates
<1>5. AddsUp(t, f, n)
  <2>1. t = [k \in 0 .. n |-> t[k]]
    OBVIOUS
  <2>2. \A k \in 0 .. n : t[k] = IF k = 0 THEN 0 ELSE t[k - 1] + f[k]
    BY <1>4
  <2> QED
    BY <2>1, <2>2 DEF AddsUp
<1> QED
  BY <1>4, <1>5 DEF Totals, HasTotals

(* and one only, the totals.                                               *)
LEMMA TotalsDefined ==
    ASSUME NEW n \in Nat, NEW f, \A k \in 1 .. n : f[k] \in Nat, NEW total, AddsUp(total, f, n)
    PROVE  Totals(total, f, n)
<1>1. PICK t : AddsUp(t, f, n) /\ Totals(t, f, n)
  BY TotalsExist DEF HasTotals
<1>2. \A k \in 0 .. n : /\ total[k] = IF k = 0 THEN 0 ELSE total[k - 1] + f[k]
                       /\ t[k] = IF k = 0 THEN 0 ELSE t[k - 1] + f[k]
  BY <1>1 DEF AddsUp
<1>3. total[0] = t[0]
  BY <1>2
<1>4. \A k \in 1 .. n : total[k - 1] = t[k - 1] => total[k] = t[k]
  BY <1>2
<1>5. \A k \in 0 .. n : total[k] = t[k]
  BY <1>3, <1>4, SameRecursion, ZenonT(30)
<1>6. total = [k \in 0 .. n |-> total[k]] /\ t = [k \in 0 .. n |-> t[k]]
  BY <1>1 DEF AddsUp
<1>7. total = t
  BY <1>5, <1>6
<1> QED
  BY <1>1, <1>7

(* Division with remainder.                                                *)
LEMMA DivMod ==
    ASSUME NEW m \in Nat \ {0}, NEW x \in Int
    PROVE  /\ x % m \in 0 .. m - 1 /\ x \div m \in Int
           /\ x = m * (x \div m) + (x % m)
OBVIOUS

(* A multiple is as large as the number.                                   *)
LEMMA MultipleTooLarge ==
    ASSUME NEW m \in Nat \ {0}, NEW d \in Int
    PROVE  /\ d >= 1 => m * d >= m
           /\ d <= -1 => m * d <= -m
OBVIOUS

(* Quotient and remainder are unique.                                      *)
LEMMA DivModUnique ==
    ASSUME NEW m \in Nat \ {0}, NEW q \in Int, NEW r \in 0 .. m - 1
    PROVE  (m * q + r) % m = r /\ (m * q + r) \div m = q
<1> DEFINE x == m * q + r
           d == q - (x \div m)
<1>1. /\ x \in Int /\ x % m \in 0 .. m - 1 /\ x \div m \in Int
      /\ x = m * (x \div m) + (x % m)
  BY DivMod
<1>2. m * d = m * q - m * (x \div m)
  BY <1>1
<1>3. m * d = (x % m) - r /\ d \in Int
  BY <1>1, <1>2
<1>4. d = 0
  <2> HIDE DEF d, x
  <2> QED
    BY <1>1, <1>3, MultipleTooLarge
<1> QED
  BY <1>1, <1>3, <1>4

(* A residue is its own.                                                   *)
LEMMA ModSmall ==
    ASSUME NEW m \in Nat \ {0}, NEW r \in 0 .. m - 1
    PROVE  r % m = r
OBVIOUS

(* Adding a multiple of m.                                                 *)
LEMMA ModShift ==
    ASSUME NEW m \in Nat \ {0}, NEW x \in Int, NEW k \in Int
    PROVE  (x + m * k) % m = x % m
<1> DEFINE q == x \div m
           r == x % m
<1>1. r \in 0 .. m - 1 /\ q \in Int /\ x = m * q + r
  BY DivMod
<1> HIDE DEF q, r
<1>2. q + k \in Int /\ x + m * k = m * (q + k) + r
  BY <1>1
<1>3. (m * (q + k) + r) % m = r
  BY <1>1, <1>2, DivModUnique
<1> QED
  BY <1>2, <1>3 DEF r

(* Residues can be taken before or after an addition.                      *)
LEMMA ModAdd ==
    ASSUME NEW m \in Nat \ {0}, NEW x \in Int, NEW y \in Int
    PROVE  /\ ((x % m) + y) % m = (x + y) % m
           /\ (x + (y % m)) % m = (x + y) % m
           /\ (x - (y % m)) % m = (x - y) % m
<1>1. ASSUME NEW a \in Int, NEW b \in Int
      PROVE  ((a % m) + b) % m = (a + b) % m /\ (b - (a % m)) % m = (b - a) % m
  <2>1. PICK r \in 0 .. m - 1, q \in Int : r = a % m /\ a = m * q + r
    BY DivMod
  <2>2. r + b \in Int /\ a + b = (r + b) + m * q
    BY <2>1
  <2>3. b - a \in Int /\ b - r = (b - a) + m * q
    BY <2>1
  <2>4. ((r + b) + m * q) % m = (r + b) % m
    BY <2>1, <2>2, ModShift
  <2>5. ((b - a) + m * q) % m = (b - a) % m
    BY <2>1, <2>3, ModShift
  <2> QED
    BY <2>1, <2>2, <2>3, <2>4, <2>5
<1>2. y % m \in Int /\ x + y = y + x /\ x + (y % m) = (y % m) + x
  BY DivMod
<1>3. ((x % m) + y) % m = (x + y) % m
  BY <1>1
<1>4. ((y % m) + x) % m = (y + x) % m /\ (x - (y % m)) % m = (x - y) % m
  BY <1>1
<1> QED
  BY <1>2, <1>3, <1>4

(* Numbers with the same residue differ by a multiple.                     *)
LEMMA ModSame ==
    ASSUME NEW m \in Nat \ {0}, NEW x \in Int, NEW y \in Int, x % m = y % m
    PROVE  \E k \in Int : x = y + m * k
<1>1. /\ x = m * (x \div m) + (x % m) /\ x \div m \in Int
      /\ y = m * (y \div m) + (y % m) /\ y \div m \in Int
      /\ x % m \in Int
  BY DivMod
<1> DEFINE k == (x \div m) - (y \div m)
<1>2. k \in Int /\ m * k = m * (x \div m) - m * (y \div m)
  BY <1>1
<1>3. x = y + m * k
  BY <1>1, <1>2
<1> QED
  BY <1>2, <1>3
-----------------------------------------------------------------------------

(* Running sums are numbers.                                               *)
LEMMA SumType ==
    ASSUME NEW n \in Nat, NEW f, NEW S, IsSum(S, f, n)
    PROVE  \A k \in 0 .. n : S[k] \in Int
BY DEF IsSum

(* Running sums depend on the values only.                                 *)
LEMMA IsSumSame ==
    ASSUME NEW n \in Nat, NEW f, NEW g, NEW S, IsSum(S, f, n),
           \A k \in 0 .. n : f[k] = g[k]
    PROVE  IsSum(S, g, n)
<1>1. 0 \in 0 .. n /\ \A k \in 1 .. n : k \in 0 .. n
  OBVIOUS
<1> QED
  BY <1>1 DEF IsSum

(* What is the same place by place has the same sums.                      *)
LEMMA SumUnique ==
    ASSUME NEW n \in Nat, NEW f, NEW g, NEW S, NEW T, IsSum(S, f, n), IsSum(T, g, n),
           \A k \in 0 .. n : f[k] = g[k]
    PROVE  S[n] = T[n]
<1>1. S[0] = T[0]
  BY DEF IsSum
<1>2. \A k \in 1 .. n : S[k - 1] = T[k - 1] => S[k] = T[k]
  BY DEF IsSum
<1>3. \A k \in 0 .. n : S[k] = T[k]
  BY <1>1, <1>2, SameRecursion
<1> QED
  BY <1>3

(* A sum of combinations is a combination of sums.                         *)
LEMMA SumLinear ==
    ASSUME NEW n \in Nat, NEW f, NEW g, NEW h, NEW S, NEW T, NEW U,
           IsSum(S, f, n), IsSum(T, g, n), IsSum(U, h, n),
           NEW a \in Int, NEW b \in Int,
           \A k \in 0 .. n : f[k] \in Int /\ g[k] \in Int,
           Combines(h, a, f, b, g, n)
    PROVE  U[n] = a * S[n] + b * T[n]
<1> DEFINE Z == {k \in 0 .. n : U[k] = a * S[k] + b * T[k]}
<1>1. \A k \in 0 .. n : S[k] \in Int /\ T[k] \in Int
  BY SumType
<1>2. 0 \in Z
  BY DEF IsSum, Combines
<1>3. ASSUME NEW k \in 1 .. n, k - 1 \in Z PROVE k \in Z
  <2>1. k - 1 \in 0 .. n /\ k \in 0 .. n
    OBVIOUS
  <2>2. PICK s \in Int, t \in Int, x \in Int, y \in Int :
           s = S[k - 1] /\ t = T[k - 1] /\ x = f[k] /\ y = g[k]
    BY <1>1, <2>1
  <2>3. S[k] = s + x /\ T[k] = t + y
    BY <2>2 DEF IsSum
  <2>4. U[k] = (a * s + b * t) + (a * x + b * y)
    BY <1>3, <2>1, <2>2 DEF IsSum, Combines
  <2>5. a * (s + x) + b * (t + y) = (a * s + b * t) + (a * x + b * y)
    OBVIOUS
  <2> QED
    BY <2>1, <2>3, <2>4, <2>5
<1> HIDE DEF Z
<1>4. \A k \in 0 .. n : k \in Z
  BY <1>2, <1>3, InductionUpTo
<1> QED
  BY <1>4 DEF Z

(* A sum of sums.                                                          *)
LEMMA SumPlus ==
    ASSUME NEW n \in Nat, NEW f, NEW g, NEW h, NEW S, NEW T, NEW U,
           IsSum(S, f, n), IsSum(T, g, n), IsSum(U, h, n),
           \A k \in 0 .. n : f[k] \in Int /\ g[k] \in Int /\ h[k] = f[k] + g[k]
    PROVE  U[n] = S[n] + T[n]
<1>1. PICK a \in Int, b \in Int : a = 1 /\ b = 1
  OBVIOUS
<1>2. Combines(h, a, f, b, g, n)
  BY <1>1 DEF Combines
<1>3. U[n] = a * S[n] + b * T[n]
  BY <1>2, SumLinear
<1>4. S[n] \in Int /\ T[n] \in Int
  BY SumType
<1> QED
  BY <1>1, <1>3, <1>4

(* Running sums that keep to a bound at every step.                        *)
LEMMA SumBound ==
    ASSUME NEW n \in Nat, NEW f, NEW S, IsSum(S, f, n), NEW c \in Nat,
           \A k \in 0 .. n : f[k] \in Int /\ -c <= f[k] /\ f[k] <= c
    PROVE  \A k \in 0 .. n : -(c * (k + 1)) <= S[k] /\ S[k] <= c * (k + 1)
<1> DEFINE T == {k \in 0 .. n : -(c * (k + 1)) <= S[k] /\ S[k] <= c * (k + 1)}
<1>1. 0 \in T
  BY DEF IsSum
<1>2. ASSUME NEW k \in 1 .. n, k - 1 \in T PROVE k \in T
  <2>1. k - 1 \in 0 .. n /\ k \in 0 .. n /\ c * (k + 1) = c * ((k - 1) + 1) + c
    OBVIOUS
  <2>2. S[k] = S[k - 1] + f[k] /\ S[k - 1] \in Int /\ f[k] \in Int
    BY <2>1 DEF IsSum
  <2>3. c * ((k - 1) + 1) \in Int /\ c * (k + 1) \in Int
    OBVIOUS
  <2>4. /\ -(c * ((k - 1) + 1)) <= S[k - 1] /\ S[k - 1] <= c * ((k - 1) + 1)
        /\ -c <= f[k] /\ f[k] <= c
    BY <1>2, <2>1
  <2> QED
    BY <2>1, <2>2, <2>3, <2>4
<1> HIDE DEF T
<1>3. \A k \in 0 .. n : k \in T
  BY <1>1, <1>2, InductionUpTo
<1> QED
  BY <1>3 DEF T

(* Reducing mod m at every step is reducing the sum.                       *)
LEMMA SumMod ==
    ASSUME NEW n \in Nat, NEW f, NEW S, IsSum(S, f, n), NEW m \in Nat \ {0},
           \A k \in 0 .. n : f[k] \in Int,
           NEW a, a[0] = f[0] % m,
           \A k \in 1 .. n : a[k - 1] \in 0 .. m - 1 => a[k] = (a[k - 1] + f[k]) % m
    PROVE  \A k \in 0 .. n : a[k] = S[k] % m
<1> DEFINE T == {k \in 0 .. n : a[k] = S[k] % m}
<1>1. 0 \in T
  BY DEF IsSum
<1>2. ASSUME NEW k \in 1 .. n, k - 1 \in T PROVE k \in T
  <2>1. k - 1 \in 0 .. n /\ k \in 0 .. n
    OBVIOUS
  <2>2. S[k] = S[k - 1] + f[k] /\ S[k - 1] \in Int /\ f[k] \in Int
    BY <2>1 DEF IsSum
  <2>3. a[k - 1] = S[k - 1] % m /\ a[k - 1] \in 0 .. m - 1
    BY <1>2, <2>2, DivMod
  <2>4. a[k] = ((S[k - 1] % m) + f[k]) % m
    BY <2>3
  <2>5. ((S[k - 1] % m) + f[k]) % m = (S[k - 1] + f[k]) % m
    BY <2>2, ModAdd
  <2> QED
    BY <2>1, <2>2, <2>4, <2>5
<1> HIDE DEF T
<1>3. \A k \in 0 .. n : k \in T
  BY <1>1, <1>2, InductionUpTo
<1> QED
  BY <1>3 DEF T

(* What is congruent place by place has congruent sums.                    *)
LEMMA SumModSame ==
    ASSUME NEW n \in Nat, NEW f, NEW g, NEW S, NEW T, IsSum(S, f, n), IsSum(T, g, n),
           NEW m \in Nat \ {0},
           \A k \in 0 .. n : f[k] \in Int /\ g[k] \in Int /\ f[k] % m = g[k] % m
    PROVE  \A k \in 0 .. n : S[k] % m = T[k] % m
<1> DEFINE Z == {k \in 0 .. n : S[k] % m = T[k] % m}
<1>1. 0 \in Z
  BY DEF IsSum
<1>2. ASSUME NEW k \in 1 .. n, k - 1 \in Z PROVE k \in Z
  <2>1. k - 1 \in 0 .. n /\ k \in 0 .. n
    OBVIOUS
  <2>2. PICK s \in Int, t \in Int, a \in Int, b \in Int :
           s = S[k - 1] /\ t = T[k - 1] /\ a = f[k] /\ b = g[k]
    BY <2>1 DEF IsSum
  <2>3. S[k] = s + a /\ T[k] = t + b
    BY <2>2 DEF IsSum
  <2>4. PICK x \in Int, y \in Int :
           x = s % m /\ x = t % m /\ y = a % m /\ y = b % m
    <3>1. s % m \in Int /\ a % m \in Int
      BY DivMod
    <3>2. a % m = b % m /\ s % m = t % m
      BY <1>2, <2>1, <2>2
    <3> QED
      BY <3>1, <3>2
  <2>5. ((s % m) + a) % m = (s + a) % m /\ (x + (a % m)) % m = (x + a) % m
    BY ModAdd
  <2>6. ((t % m) + b) % m = (t + b) % m /\ (x + (b % m)) % m = (x + b) % m
    BY ModAdd
  <2>7. (s + a) % m = (x + y) % m
    BY <2>4, <2>5
  <2>8. (t + b) % m = (x + y) % m
    BY <2>4, <2>6
  <2>9. S[k] % m = T[k] % m
    BY <2>3, <2>7, <2>8
  <2> QED
    BY <2>1, <2>9
<1> HIDE DEF Z
<1>3. \A k \in 0 .. n : k \in Z
  BY <1>1, <1>2, InductionUpTo
<1> QED
  BY <1>3 DEF Z

-----------------------------------------------------------------------------
(* Powers of two, as a function up to i.                                   *)
Doubles(f, i) ==
    f \in [0 .. i -> Nat \ {0}] /\ f[0] = 1 /\ \A k \in 1 .. i : f[k] = 2 * f[k - 1]

(* PowerOfTwo is that function's last value.                               *)
LEMMA PowerIs ==
    ASSUME NEW i \in Nat
    PROVE  \E f : Doubles(f, i) /\ PowerOfTwo(i) = f[i]
<1> DEFINE X == Nat \ {0}
           step == [x \in X \X (1 .. i) |-> 2 * x[1]]
           Eqn(h) == h = [k \in 0 .. i |-> IF k = 0 THEN 1 ELSE 2 * h[k - 1]]
           power == CHOOSE h : Eqn(h)
<1>1. step \in [X \X (1 .. i) -> X] /\ 1 \in X
  OBVIOUS
<1>2. \A x \in X, k \in 1 .. i : step[<<x, k>>] = 2 * x
  OBVIOUS
<1>3. PICK f \in [0 .. i -> X] : Iterates(f, 1, step, i)
  <2> HIDE DEF X, step
  <2> QED
    BY <1>1, RecursiveFunction
<1>4. Doubles(f, i)
  <2>1. f[0] = 1
    BY <1>3 DEF Iterates
  <2>2. ASSUME NEW k \in 1 .. i PROVE f[k] = 2 * f[k - 1]
    <3>1. f[k - 1] \in X
      OBVIOUS
    <3>2. f[k] = step[<<f[k - 1], k>>]
      BY <1>3 DEF Iterates
    <3> HIDE DEF step, X
    <3> QED
      BY <1>2, <3>1, <3>2
  <2> QED
    BY <2>1, <2>2 DEF Doubles
<1>5. Eqn(f)
  <2>1. f = [k \in 0 .. i |-> f[k]]
    OBVIOUS
  <2>2. \A k \in 0 .. i : f[k] = IF k = 0 THEN 1 ELSE 2 * f[k - 1]
    BY <1>4 DEF Doubles
  <2> QED
    BY <2>1, <2>2
<1>6. Eqn(power)
  BY <1>5
<1>7. PowerOfTwo(i) = power[i]
  BY DEF PowerOfTwo
<1> HIDE DEF power, Eqn, step, X
<1>8. \A k \in 0 .. i : power[k] = IF k = 0 THEN 1 ELSE 2 * power[k - 1]
  BY <1>6 DEF Eqn
<1>9. PICK g, h : g = power /\ h = f
  OBVIOUS
<1>10. power[i] = f[i]
  <2>1. g[0] = h[0]
    BY <1>4, <1>8, <1>9 DEF Doubles
  <2>2. \A k \in 1 .. i : g[k - 1] = h[k - 1] => g[k] = h[k]
    BY <1>4, <1>8, <1>9 DEF Doubles
  <2> DEFINE Agree == {k \in 0 .. i : g[k] = h[k]}
  <2>3. 0 \in Agree /\ \A k \in 1 .. i : k - 1 \in Agree => k \in Agree
    BY <2>1, <2>2
  <2> HIDE DEF Agree
  <2>4. \A k \in 0 .. i : k \in Agree
    BY <2>3, InductionUpTo
  <2>5. i \in Agree
    BY <2>4
  <2> QED
    BY <1>9, <2>5 DEF Agree
<1> QED
  BY <1>4, <1>7, <1>10

(* The powers of two start with one, and every one is twice the last.      *)
LEMMA PowerStep ==
    ASSUME NEW i \in Nat
    PROVE  /\ PowerOfTwo(0) = 1
           /\ PowerOfTwo(i) \in Nat \ {0}
           /\ PowerOfTwo(i + 1) = 2 * PowerOfTwo(i)
<1>1. PICK e : Doubles(e, 0) /\ PowerOfTwo(0) = e[0]
  BY PowerIs
<1>2. PICK f : Doubles(f, i) /\ PowerOfTwo(i) = f[i]
  BY PowerIs
<1>3. PICK g : Doubles(g, i + 1) /\ PowerOfTwo(i + 1) = g[i + 1]
  BY PowerIs
<1>4. f[0] = g[0] /\ \A k \in 1 .. i : f[k - 1] = g[k - 1] => f[k] = g[k]
  BY <1>2, <1>3 DEF Doubles
<1>5. f[i] = g[i]
  <2>1. \A k \in 0 .. i : f[k] = g[k]
    BY <1>4, SameRecursion
  <2> QED
    BY <2>1
<1>6. g[i + 1] = 2 * g[i]
  BY <1>3 DEF Doubles
<1>7. e[0] = 1 /\ f[i] \in Nat \ {0}
  BY <1>1, <1>2 DEF Doubles
<1> QED
  BY <1>1, <1>2, <1>3, <1>5, <1>6, <1>7

(* Exponents add.                                                          *)
LEMMA PowerSum ==
    ASSUME NEW i \in Nat, NEW k \in Nat
    PROVE  PowerOfTwo(i + k) = PowerOfTwo(i) * PowerOfTwo(k)
<1> DEFINE T == {j \in 0 .. k : PowerOfTwo(i + j) = PowerOfTwo(i) * PowerOfTwo(j)}
<1>1. 0 \in T
  BY PowerStep
<1>2. ASSUME NEW j \in 1 .. k, j - 1 \in T PROVE j \in T
  <2>1. PICK a, b, c : /\ a = PowerOfTwo(i) /\ b = PowerOfTwo(j - 1)
                       /\ c = PowerOfTwo(i + (j - 1))
    OBVIOUS
  <2>2. a \in Nat /\ b \in Nat /\ c \in Nat
    BY <2>1, PowerStep
  <2>3. c = a * b
    BY <1>2, <2>1
  <2>4. j - 1 \in Nat /\ i + (j - 1) \in Nat /\ (j - 1) + 1 = j /\ (i + (j - 1)) + 1 = i + j
    OBVIOUS
  <2>5. PowerOfTwo(j) = 2 * b /\ PowerOfTwo(i + j) = 2 * c
    <3>1. PowerOfTwo((j - 1) + 1) = 2 * PowerOfTwo(j - 1)
      BY <2>4, PowerStep
    <3>2. PowerOfTwo((i + (j - 1)) + 1) = 2 * PowerOfTwo(i + (j - 1))
      BY <2>4, PowerStep
    <3> QED
      BY <2>1, <2>4, <3>1, <3>2
  <2>6. 2 * (a * b) = a * (2 * b)
    BY <2>2
  <2> QED
    BY <2>1, <2>3, <2>5, <2>6
<1> HIDE DEF T
<1>3. \A j \in 0 .. k : j \in T
  BY <1>1, <1>2, InductionUpTo
<1> QED
  BY <1>3 DEF T

(* A higher power is at least twice as large, and a multiple.              *)
LEMMA PowersGrow ==
    ASSUME NEW i \in Nat, NEW j \in Nat, i < j
    PROVE  \E m \in Nat \ {0} : PowerOfTwo(j) = 2 * (PowerOfTwo(i) * m)
<1>1. PICK k \in Nat : j = i + (k + 1)
  <2>1. j - i - 1 \in Nat /\ j = i + ((j - i - 1) + 1)
    OBVIOUS
  <2> QED
    BY <2>1
<1>2. PowerOfTwo(j) = PowerOfTwo(i) * PowerOfTwo(k + 1)
  <2>1. k + 1 \in Nat
    OBVIOUS
  <2> QED
    BY <1>1, <2>1, PowerSum
<1>3. PICK a, m : a = PowerOfTwo(i) /\ m = PowerOfTwo(k)
  OBVIOUS
<1>4. a \in Nat \ {0} /\ m \in Nat \ {0} /\ PowerOfTwo(k + 1) = 2 * m
  BY <1>3, PowerStep
<1>5. a * (2 * m) = 2 * (a * m)
  BY <1>4
<1> QED
  BY <1>2, <1>3, <1>4, <1>5

(* So that no two are the same.                                            *)
LEMMA PowersDiffer ==
    ASSUME NEW i \in Nat, NEW j \in Nat, PowerOfTwo(i) = PowerOfTwo(j)
    PROVE  i = j
<1>1. ASSUME NEW x \in Nat, NEW y \in Nat, x < y PROVE PowerOfTwo(x) # PowerOfTwo(y)
  <2>1. PICK m \in Nat \ {0} : PowerOfTwo(y) = 2 * (PowerOfTwo(x) * m)
    BY <1>1, PowersGrow
  <2>2. PICK a : a = PowerOfTwo(x)
    OBVIOUS
  <2>3. a \in Nat \ {0}
    BY <2>2, PowerStep
  <2>4. a * m >= a
    BY <2>3
  <2>5. 2 * (a * m) # a
    BY <2>3, <2>4
  <2> QED
    BY <2>1, <2>2, <2>5
<1>2. CASE i < j
  BY <1>1, <1>2
<1>3. CASE j < i
  BY <1>1, <1>3
<1> QED
  BY <1>2, <1>3

-----------------------------------------------------------------------------

(* The number of rounds of a tree.                                         *)
LEMMA LogOf ==
    ASSUME NEW n, \E l \in 0 .. n : PowerOfTwo(l) = n
    PROVE  LogN(n) \in 0 .. n /\ PowerOfTwo(LogN(n)) = n
BY DEF LogN

(* The parties differ in a bit: their ids have the same quotient of twice  *)
(* that power, and the lower one has an even quotient of the power.        *)
LEMMA PartnerOf ==
    ASSUME NEW l \in Nat, NEW n, n = PowerOfTwo(l), NEW i \in 0 .. l - 1,
           NEW p \in 0 .. n - 1
    PROVE  /\ Partner(p, i) \in 0 .. n - 1 /\ Partner(p, i) # p
           /\ Partner(Partner(p, i), i) = p
           /\ IsServer(p, i) <=> Partner(p, i) > p
           /\ IsServer(Partner(p, i), i) <=> ~IsServer(p, i)
<1>1. PICK a : a = PowerOfTwo(i)
  OBVIOUS
<1>2. a \in Nat \ {0}
  BY <1>1, PowerStep
<1>3. PICK m \in Nat \ {0} : n = 2 * (a * m)
  BY <1>1, PowersGrow
<1>4. PICK c, r : c = p \div a /\ r = p % a
  OBVIOUS
<1>5. n \in Nat /\ p \in Nat
  BY PowerStep
<1>6. r \in 0 .. a - 1 /\ c \in Int /\ p = a * c + r
  BY <1>2, <1>4, <1>5, DivMod
<1>7. c >= 0
  <2>1. c <= -1 => a * c <= -a
    BY <1>2, <1>6, MultipleTooLarge
  <2> QED
    BY <1>2, <1>5, <1>6, <2>1
<1>8. c < 2 * m
  <2>1. PICK d \in Int : d = c - 2 * m
    BY <1>6
  <2>2. a * d = a * c - 2 * (a * m)
    BY <1>2, <1>6, <2>1
  <2>3. a * c \in Int /\ a * m \in Int
    BY <1>2, <1>6
  <2>4. a * c <= p /\ p < n
    BY <1>2, <1>5, <1>6, <2>3
  <2>5. a * d < 0
    BY <1>3, <1>5, <2>2, <2>3, <2>4
  <2>6. d < 0
    BY <1>2, <2>1, <2>5
  <2> QED
    BY <1>6, <2>1, <2>6
<1>9. (a * (c + 1) + r) \div a = c + 1 /\ (a * (c - 1) + r) \div a = c - 1
  <2>1. c + 1 \in Int /\ c - 1 \in Int
    BY <1>6
  <2> QED
    BY <1>2, <1>6, <2>1, DivModUnique
<1>10. a * (c + 1) + r = p + a /\ a * (c - 1) + r = p - a
  BY <1>2, <1>6
<1>11. CASE c % 2 = 0
  <2>1. IsServer(p, i) /\ Partner(p, i) = p + a
    BY <1>1, <1>4, <1>11 DEF IsServer, Partner
  <2>2. (c + 1) % 2 # 0
    BY <1>6, <1>11
  <2>3. ~IsServer(p + a, i) /\ Partner(p + a, i) = p
    BY <1>1, <1>2, <1>5, <1>9, <1>10, <2>2 DEF IsServer, Partner
  <2>4. c + 1 < 2 * m
    BY <1>6, <1>8, <1>11
  <2>5. p + a < n
    <3>1. PICK d \in Int : d = c + 2 - 2 * m
      BY <1>6
    <3>2. a * d = a * c + 2 * a - 2 * (a * m)
      BY <1>2, <1>6, <3>1
    <3>3. d <= 0
      BY <1>6, <2>4, <3>1
    <3>4. a * d <= 0
      BY <1>2, <3>3
    <3>5. a * c \in Int /\ a * m \in Int
      BY <1>2, <1>6
    <3> QED
      BY <1>2, <1>3, <1>5, <1>6, <3>2, <3>4, <3>5
  <2> QED
    BY <1>2, <1>5, <2>1, <2>3, <2>5
<1>12. CASE c % 2 # 0
  <2>1. ~IsServer(p, i) /\ Partner(p, i) = p - a
    BY <1>1, <1>4, <1>12 DEF IsServer, Partner
  <2>2. (c - 1) % 2 = 0
    BY <1>6, <1>12
  <2>3. IsServer(p - a, i) /\ Partner(p - a, i) = p
    BY <1>1, <1>2, <1>5, <1>9, <1>10, <2>2 DEF IsServer, Partner
  <2>4. c >= 1
    BY <1>7, <1>6, <1>12
  <2>5. a * c >= a
    BY <1>2, <1>6, <2>4
  <2>6. p - a >= 0
    <3>1. a * c \in Int
      BY <1>2, <1>6
    <3> QED
      BY <1>2, <1>5, <1>6, <2>5, <3>1
  <2> QED
    BY <1>2, <1>5, <2>1, <2>3, <2>6
<1> QED
  BY <1>11, <1>12

(* A party has another partner in every round.                             *)
LEMMA PartnersDiffer ==
    ASSUME NEW p \in Nat, NEW i \in Nat, NEW j \in Nat, Partner(p, i) = Partner(p, j)
    PROVE  i = j
<1>1. PowerOfTwo(i) \in Nat \ {0} /\ PowerOfTwo(j) \in Nat \ {0}
  BY PowerStep
<1>2. PowerOfTwo(i) = PowerOfTwo(j)
  BY <1>1 DEF Partner
<1> QED
  BY <1>2, PowersDiffer

-----------------------------------------------------------------------------
(* Division with names for its results.                                    *)
Divides(x, m, a, b) == a = x \div m /\ b = (x % m)

(* What they are.                                                         *)
LEMMA Euclid ==
    ASSUME NEW m \in Nat \ {0}, NEW x \in Int
    PROVE  \A a, b : Divides(x, m, a, b) =>
                x = m * a + b /\ a \in Int /\ b \in Nat /\ 0 <= b /\ b <= m - 1
<1>1. (x % m) \in 0 .. m - 1 /\ x \div m \in Int /\ x = m * (x \div m) + (x % m)
  BY DivMod
<1> QED
  BY <1>1 DEF Divides

(* They are the only ones.                                                *)
LEMMA EuclidUnique ==
    ASSUME NEW m \in Nat \ {0}, NEW x, NEW a \in Int, NEW b \in 0 .. m - 1, x = m * a + b
    PROVE  Divides(x, m, a, b)
<1>1. ((m * a + b) % m) = b /\ (m * a + b) \div m = a
  BY DivModUnique
<1> QED
  BY <1>1 DEF Divides

(* The multiples of m below m * k.                                         *)
LEMMA BelowMultiple ==
    ASSUME NEW m \in Nat \ {0}, NEW k \in Int, NEW a \in Int, NEW b \in 0 .. m - 1
    PROVE  m * a + b \in 0 .. m * k - 1 <=> a \in 0 .. k - 1
<1>1. PICK t, u, e, w : t = m * a /\ u = m * k /\ e = a - k /\ w = m * e
  OBVIOUS
<1>2. t \in Int /\ u \in Int /\ e \in Int /\ w \in Int /\ w = t - u
  BY <1>1
<1>3. /\ a >= 1 => t >= m
      /\ a <= -1 => t <= -m
      /\ e >= 1 => w >= m
      /\ e <= -1 => w <= -m
  BY <1>1, <1>2, MultipleTooLarge
<1>4. (a = 0 => t = 0) /\ (e = 0 => w = 0)
  BY <1>1
<1>5. m \in Nat /\ m >= 1 /\ b \in Nat /\ b <= m - 1
  OBVIOUS
<1>6. t + b >= 0 <=> a >= 0
  BY <1>2, <1>3, <1>4, <1>5
<1>7. t + b <= u - 1 <=> e <= -1
  BY <1>2, <1>3, <1>4, <1>5
<1>8. e <= -1 <=> a <= k - 1
  BY <1>1
<1> QED
  BY <1>1, <1>2, <1>5, <1>6, <1>7, <1>8

-----------------------------------------------------------------------------
(* The ranges of the tree.                                                 *)

(* The first id of the range of p's level l.                               *)
IdRange(p, l) == PowerOfTwo(l) * (p \div PowerOfTwo(l))

(* A level adds the range above, for a server, or the one below.           *)
LEMMA RangeStep ==
    ASSUME NEW p \in Nat, NEW k \in Nat
    PROVE  IdRange(p, k + 1) = IF IsServer(p, k) THEN IdRange(p, k) ELSE IdRange(p, k) - PowerOfTwo(k)
<1>1. PICK m, a, b : m = PowerOfTwo(k) /\ Divides(p, m, a, b)
  BY DEF Divides
<1>2. m \in Nat \ {0} /\ PowerOfTwo(k + 1) = 2 * m
  BY <1>1, PowerStep
<1>3. p = m * a + b /\ a \in Int /\ b \in 0 .. m - 1
  BY <1>1, <1>2, Euclid
<1>4. PICK e, h : Divides(a, 2, e, h)
  BY DEF Divides
<1>5. a = 2 * e + h /\ e \in Int /\ h \in 0 .. 1
  BY <1>3, <1>4, Euclid, 2 \in Nat \ {0}
<1>6. PICK t : t = m * e
  OBVIOUS
<1>7. t \in Int /\ (2 * m) * e = 2 * t
  BY <1>2, <1>5, <1>6
<1>8. CASE h = 0
  <2>1. m * a = 2 * t
    BY <1>2, <1>5, <1>6, <1>8
  <2>2. p = (2 * m) * e + b /\ b \in 0 .. (2 * m) - 1
    BY <1>2, <1>3, <1>7, <2>1
  <2>3. p \div (2 * m) = e
    <3>1. 2 * m \in Nat \ {0}
      BY <1>2
    <3>2. PICK w, v : w = 2 * m /\ v = p - w * e
      OBVIOUS
    <3>3. v \in 0 .. w - 1 /\ p = w * e + v /\ w \in Nat \ {0}
      BY <1>3, <1>7, <2>2, <3>1, <3>2
    <3>4. Divides(p, w, e, v)
      BY <1>5, <3>3, EuclidUnique
    <3> QED
      BY <3>2, <3>4 DEF Divides
  <2>4. IsServer(p, k)
    BY <1>1, <1>4, <1>8 DEF IsServer, Divides
  <2> QED
    BY <1>1, <1>2, <1>7, <2>1, <2>3, <2>4 DEF IdRange, Divides
<1>9. CASE h = 1
  <2>1. m * a = 2 * t + m
    BY <1>2, <1>5, <1>6, <1>9
  <2>2. p = (2 * m) * e + (m + b) /\ m + b \in 0 .. (2 * m) - 1
    BY <1>2, <1>3, <1>7, <2>1
  <2>3. p \div (2 * m) = e
    <3>1. 2 * m \in Nat \ {0}
      BY <1>2
    <3>2. PICK w, v : w = 2 * m /\ v = p - w * e
      OBVIOUS
    <3>3. v \in 0 .. w - 1 /\ p = w * e + v /\ w \in Nat \ {0}
      BY <1>3, <1>7, <2>2, <3>1, <3>2
    <3>4. Divides(p, w, e, v)
      BY <1>5, <3>3, EuclidUnique
    <3> QED
      BY <3>2, <3>4 DEF Divides
  <2>4. ~IsServer(p, k)
    BY <1>1, <1>4, <1>9 DEF IsServer, Divides
  <2> QED
    BY <1>1, <1>2, <1>7, <2>1, <2>3, <2>4 DEF IdRange, Divides
<1> QED
  BY <1>5, <1>8, <1>9

(* The range of a level holds the party, and is one of the network's.      *)
LEMMA RangeOf ==
    ASSUME NEW n \in Nat, NEW L \in Nat, n = PowerOfTwo(L), NEW l \in 0 .. L, NEW p \in 0 .. n - 1
    PROVE  /\ IdRange(p, l) \in Nat /\ IdRange(p, l) <= p /\ p < IdRange(p, l) + PowerOfTwo(l)
           /\ IdRange(p, l) + PowerOfTwo(l) <= n
<1>1. PICK m, a, b : m = PowerOfTwo(l) /\ Divides(p, m, a, b)
  BY DEF Divides
<1>2. m \in Nat \ {0}
  BY <1>1, PowerStep
<1>3. p = m * a + b /\ a \in Int /\ b \in 0 .. m - 1
  BY <1>1, <1>2, Euclid
<1>4. PICK K : K = PowerOfTwo(L - l)
  OBVIOUS
<1>5. K \in Nat \ {0} /\ n = m * K
  <2>1. L - l \in Nat /\ l + (L - l) = L
    OBVIOUS
  <2> QED
    BY <1>1, <1>4, <2>1, PowerStep, PowerSum
<1>6. PICK t : t = m * a
  OBVIOUS
<1>7. t \in Int /\ IdRange(p, l) = t
  <2>1. m \in Int /\ a \in Int
    BY <1>2, <1>3
  <2>2. t \in Int
    BY <1>6, <2>1
  <2>3. IdRange(p, l) = t
    BY <1>1, <1>6 DEF IdRange, Divides
  <2> QED
    BY <2>2, <2>3
<1>8. a >= 0
  <2>1. a <= -1 => t <= -m
    BY <1>2, <1>3, <1>6, MultipleTooLarge
  <2> QED
    BY <1>2, <1>3, <1>6, <1>7, <2>1
<1>9. t >= 0
  <2>1. a >= 1 => t >= m
    BY <1>2, <1>3, <1>6, MultipleTooLarge
  <2>2. a = 0 => t = 0
    BY <1>2, <1>6
  <2>3. a >= 1 \/ a = 0
    BY <1>3, <1>8
  <2> QED
    BY <1>2, <1>7, <2>1, <2>2, <2>3
<1>10. t + m <= n
  <2>1. PICK d, e : d = K - a /\ e = m * d
    OBVIOUS
  <2>2. d \in Int /\ n - t = e
    BY <1>2, <1>3, <1>5, <1>6, <2>1
  <2>3. d >= 1 => e >= m
    BY <1>2, <2>1, <2>2, MultipleTooLarge
  <2>4. d <= -1 => e <= -m
    BY <1>2, <2>1, <2>2, MultipleTooLarge
  <2>5. d = 0 => e = 0
    BY <1>2, <2>1
  <2>6. e >= 1 /\ e \in Int
    BY <1>2, <1>3, <1>6, <1>7, <2>2
  <2> QED
    BY <1>2, <1>7, <2>2, <2>3, <2>4, <2>5, <2>6
<1> QED
  BY <1>1, <1>2, <1>3, <1>6, <1>7, <1>9, <1>10

(* A level doubles the range: the other half is that of the partner.       *)
LEMMA RangeHalves ==
    ASSUME NEW n \in Nat, NEW L \in Nat, n = PowerOfTwo(L), NEW l \in 0 .. L - 1,
           NEW p \in 0 .. n - 1, NEW q, q = Partner(p, l)
    PROVE  /\ IsServer(p, l) => IdRange(p, l + 1) = IdRange(p, l)
                                /\ IdRange(q, l) = IdRange(p, l) + PowerOfTwo(l)
           /\ ~IsServer(p, l) => IdRange(p, l + 1) = IdRange(q, l)
                                 /\ IdRange(q, l) = IdRange(p, l) - PowerOfTwo(l)
<1>1. PICK m, a, b : m = PowerOfTwo(l) /\ Divides(p, m, a, b)
  BY DEF Divides
<1>2. m \in Nat \ {0}
  BY <1>1, PowerStep
<1>3. p = m * a + b /\ a \in Int /\ b \in 0 .. m - 1
  BY <1>1, <1>2, Euclid
<1>4. PICK t : t = m * a
  OBVIOUS
<1>5. t \in Int /\ IdRange(p, l) = t
  <2>1. m \in Int /\ a \in Int
    BY <1>2, <1>3
  <2>2. t \in Int
    BY <1>4, <2>1
  <2>3. IdRange(p, l) = t
    BY <1>1, <1>4 DEF IdRange, Divides
  <2> QED
    BY <2>2, <2>3
<1>6. IdRange(p, l + 1) = IF IsServer(p, l) THEN t ELSE t - m
  <2>1. p \in Nat /\ l \in Nat
    OBVIOUS
  <2> QED
    BY <1>1, <1>5, <2>1, RangeStep
<1>7. CASE IsServer(p, l)
  <2>1. q = p + m
    BY <1>1, <1>7 DEF Partner
  <2>2. PICK e, u : e = a + 1 /\ u = m * e
    OBVIOUS
  <2>3. e \in Int /\ u = t + m
    BY <1>2, <1>3, <1>4, <2>2
  <2>4. q = u + b
    BY <1>2, <1>3, <1>4, <1>5, <2>1, <2>3
  <2>5. q \div m = e
    BY <1>2, <1>3, <2>2, <2>3, <2>4, EuclidUnique DEF Divides
  <2>6. IdRange(q, l) = t + m
    BY <1>1, <2>2, <2>3, <2>5 DEF IdRange, Divides
  <2> QED
    BY <1>1, <1>5, <1>6, <1>7, <2>6
<1>8. CASE ~IsServer(p, l)
  <2>1. q = p - m
    BY <1>1, <1>8 DEF Partner
  <2>2. PICK e, u : e = a - 1 /\ u = m * e
    OBVIOUS
  <2>3. e \in Int /\ u = t - m
    BY <1>2, <1>3, <1>4, <2>2
  <2>4. q = u + b
    BY <1>2, <1>3, <1>4, <1>5, <2>1, <2>3
  <2>5. q \div m = e
    BY <1>2, <1>3, <2>2, <2>3, <2>4, EuclidUnique DEF Divides
  <2>6. IdRange(q, l) = t - m
    BY <1>1, <2>2, <2>3, <2>5 DEF IdRange, Divides
  <2> QED
    BY <1>1, <1>5, <1>6, <1>8, <2>6
<1> QED
  BY <1>7, <1>8
=============================================================================
