-------------------------- MODULE DistDecrypt_proofs --------------------------
(***************************************************************************)
(* Proofs about DistDecrypt, for every number of parties, all moduli, all  *)
(* shares of the phase and all masks within the assumptions of the module. *)
(*                                                                         *)
(* The invariant says what every party's value and error are at each of    *)
(* its steps, in terms of the operators of the code.  What these come to   *)
(* is a matter of arithmetic: sums of residues, of rounded quotients and   *)
(* of shares over all the parties.                                         *)
(***************************************************************************)
EXTENDS DistDecrypt, NumberTheorems, TLAPS

-----------------------------------------------------------------------------
(* The moduli for which the arithmetic of FastPath is modular arithmetic:  *)
(* those up to half a word.  Masking and aggregation rest on it: shares    *)
(* may be added in any order and a mask can be taken off.                  *)

Half(m) == m \in Nat \ {0} /\ 2 * m <= Word

(* Below a word, wrapping changes nothing.                                 *)
LEMMA WrapSmall ==
  ASSUME NEW n \in Nat, n < Word
  PROVE  Wrap(n) = n
BY WordAssumption DEF Wrap

(* add_mod_u128 adds, takes the modulus off at most once, and stays below  *)
(* it.                                                                     *)
THEOREM AddModAdds ==
  ASSUME NEW m, Half(m), NEW a \in 0 .. m - 1, NEW b \in 0 .. m - 1
  PROVE  /\ AddMod(a, b, m) \in 0 .. m - 1
         /\ AddMod(a, b, m) = IF a + b >= m THEN a + b - m ELSE a + b
<1>1. m \in Nat /\ a \in Nat /\ b \in Nat /\ a + b < Word
  BY WordAssumption DEF Half
<1>2. Wrap(a + b) = a + b
  BY <1>1, WrapSmall
<1> QED
  BY <1>1, <1>2 DEF AddMod

(* sub_mod_u128 subtracts, puts the modulus on at most once, and stays     *)
(* below it.                                                               *)
THEOREM SubModSubtracts ==
  ASSUME NEW m, Half(m), NEW a \in 0 .. m - 1, NEW b \in 0 .. m - 1
  PROVE  /\ SubMod(a, b, m) \in 0 .. m - 1
         /\ SubMod(a, b, m) = IF a >= b THEN a - b ELSE a + m - b
<1>1. m \in Nat /\ a \in Nat /\ b \in Nat /\ Word \in Nat /\ a + m < Word /\ b < m
  BY WordAssumption DEF Half
<1>2. Wrap(a + m) = a + m
  BY <1>1, WrapSmall
<1>3. ASSUME a < b PROVE Wrap(a + m - b) = a + m - b
  <2>1. a + m - b \in Nat /\ a + m - b < Word
    BY <1>1, <1>3
  <2> QED
    BY <2>1, WrapSmall
<1> QED
  BY <1>1, <1>2, <1>3 DEF SubMod

(* The order in which two shares are added does not matter: party 0 and    *)
(* the others, who hold their own share at another place, get one sum.     *)
THEOREM AddModCommutes ==
  ASSUME NEW m, Half(m), NEW a \in 0 .. m - 1, NEW b \in 0 .. m - 1
  PROVE  AddMod(a, b, m) = AddMod(b, a, m)
<1>1. a + b = b + a
  BY DEF Half
<1> QED
  BY <1>1 DEF AddMod

(* Nor does the way three shares are grouped.                              *)
THEOREM AddModAssociates ==
  ASSUME NEW m, Half(m), NEW a \in 0 .. m - 1, NEW b \in 0 .. m - 1,
         NEW c \in 0 .. m - 1
  PROVE  AddMod(AddMod(a, b, m), c, m) = AddMod(a, AddMod(b, c, m), m)
<1>1. m \in Nat /\ a \in Nat /\ b \in Nat /\ c \in Nat
  BY DEF Half
<1>2. PICK ab \in 0 .. m - 1 : ab = AddMod(a, b, m)
  BY AddModAdds
<1>3. PICK bc \in 0 .. m - 1 : bc = AddMod(b, c, m)
  BY AddModAdds
<1>4. /\ ab = IF a + b >= m THEN a + b - m ELSE a + b
      /\ bc = IF b + c >= m THEN b + c - m ELSE b + c
  BY <1>2, <1>3, AddModAdds
<1>5. /\ AddMod(ab, c, m) = IF ab + c >= m THEN ab + c - m ELSE ab + c
      /\ AddMod(a, bc, m) = IF a + bc >= m THEN a + bc - m ELSE a + bc
  BY AddModAdds
<1>6. AddMod(ab, c, m) = AddMod(a, bc, m)
  BY <1>1, <1>4, <1>5
<1> QED
  BY <1>2, <1>3, <1>6

(* A mask that was added comes off again.                                  *)
THEOREM SubModUndoesAddMod ==
  ASSUME NEW m, Half(m), NEW a \in 0 .. m - 1, NEW b \in 0 .. m - 1
  PROVE  SubMod(AddMod(a, b, m), b, m) = a
<1>1. m \in Nat /\ a \in Nat /\ b \in Nat
  BY DEF Half
<1>2. PICK s \in 0 .. m - 1 : s = AddMod(a, b, m)
  BY AddModAdds
<1>3. s = IF a + b >= m THEN a + b - m ELSE a + b
  BY <1>2, AddModAdds
<1>4. SubMod(s, b, m) = IF s >= b THEN s - b ELSE s + m - b
  BY SubModSubtracts
<1>5. SubMod(s, b, m) = a
  BY <1>1, <1>3, <1>4
<1> QED
  BY <1>2, <1>5

(* neg_mod_u128 gives the number that adds up to zero.                     *)
THEOREM NegModInverts ==
  ASSUME NEW m, Half(m), NEW a \in 0 .. m - 1
  PROVE  NegMod(a, m) \in 0 .. m - 1 /\ AddMod(a, NegMod(a, m), m) = 0
<1>1. m \in Nat /\ m > 0 /\ a \in Nat
  BY DEF Half
<1>2. PICK n \in 0 .. m - 1 : n = NegMod(a, m)
  BY <1>1 DEF NegMod
<1>3. n = IF a # 0 THEN m - a ELSE a
  BY <1>2 DEF NegMod
<1>4. AddMod(a, n, m) = IF a + n >= m THEN a + n - m ELSE a + n
  BY AddModAdds
<1>5. AddMod(a, n, m) = 0
  BY <1>1, <1>3, <1>4
<1> QED
  BY <1>2, <1>5

(* add_mod_u128 and sub_mod_u128 in terms of residues.                     *)
LEMMA AddModIsMod ==
    ASSUME NEW m \in Nat \ {0}, Half(m), NEW a \in 0 .. m - 1, NEW b \in 0 .. m - 1
    PROVE  AddMod(a, b, m) = (a + b) % m
<1>1. /\ AddMod(a, b, m) \in 0 .. m - 1
      /\ AddMod(a, b, m) = IF a + b >= m THEN a + b - m ELSE a + b
  BY AddModAdds
<1>2. PICK r \in 0 .. m - 1 : r = AddMod(a, b, m)
  BY <1>1
<1>3. a + b = r + m * 0 \/ a + b = r + m * 1
  BY <1>1, <1>2
<1>4. PICK k \in Int : a + b = r + m * k
  BY <1>3
<1>5. r % m = r /\ r \in Int
  BY ModSmall
<1>6. (r + m * k) % m = r % m
  BY <1>5, ModShift
<1> QED
  BY <1>2, <1>4, <1>5, <1>6

(* The same of subtraction.                                                *)
LEMMA SubModIsMod ==
    ASSUME NEW m \in Nat \ {0}, Half(m), NEW a \in 0 .. m - 1, NEW b \in 0 .. m - 1
    PROVE  SubMod(a, b, m) = (a - b) % m
<1>1. /\ SubMod(a, b, m) \in 0 .. m - 1
      /\ SubMod(a, b, m) = IF a >= b THEN a - b ELSE a + m - b
  BY SubModSubtracts
<1>2. PICK r \in 0 .. m - 1 : r = SubMod(a, b, m)
  BY <1>1
<1>3. a - b = r + m * 0 \/ a - b = r + m * (-1)
  BY <1>1, <1>2
<1>4. PICK k \in Int : a - b = r + m * k
  BY <1>3
<1>5. r % m = r /\ r \in Int
  BY ModSmall
<1>6. (r + m * k) % m = r % m
  BY <1>5, ModShift
<1> QED
  BY <1>2, <1>4, <1>5, <1>6

(* The rounded quotient is the nearest one, and the greater of two that    *)
(* are equally near.                                                       *)
THEOREM RoundedDivIsNearest ==
    ASSUME NEW d \in Nat \ {0}, 2 * d <= Word, NEW n \in Nat, n \div d < Word
    PROVE  /\ RoundedDiv(n, d) \in Nat
           /\ RoundedDiv(n, d) \in {n \div d, (n \div d) + 1}
           /\ -d <= 2 * (n - d * RoundedDiv(n, d))
           /\ 2 * (n - d * RoundedDiv(n, d)) < d
<1>0. /\ n \div d \in Int /\ n % d \in 0 .. d - 1
      /\ n = d * (n \div d) + (n % d)
  <2>1. n \in Int
    OBVIOUS
  <2> QED
    BY <2>1, DivMod
<1>1. PICK q \in Int, r \in 0 .. d - 1 : q = n \div d /\ r = n % d /\ n = d * q + r
  BY <1>0
<1>2. q \in Nat
  <2>1. q <= -1 => d * q <= -d
    BY MultipleTooLarge
  <2> QED
    BY <1>1, <2>1
<1>3. Wrap(q) = q /\ Wrap(r * 2) = r * 2
  <2>1. q < Word /\ r * 2 \in Nat /\ r * 2 < Word
    BY <1>1, WordAssumption
  <2> QED
    BY <1>2, <2>1, WrapSmall
<1>4. RoundedDiv(n, d) = IF r * 2 >= d THEN q + 1 ELSE q
  BY <1>1, <1>3 DEF RoundedDiv
<1>5. d * (q + 1) = d * q + d /\ d * q \in Int
  BY <1>1
<1>6. CASE r * 2 >= d
  <2>1. n - d * RoundedDiv(n, d) = r - d
    BY <1>1, <1>4, <1>5, <1>6
  <2> QED
    BY <1>1, <1>2, <1>4, <1>6, <2>1
<1>7. CASE r * 2 < d
  <2>1. n - d * RoundedDiv(n, d) = r
    BY <1>1, <1>4, <1>5, <1>7
  <2> QED
    BY <1>1, <1>2, <1>4, <1>7, <2>1
<1> QED
  BY <1>1, <1>6, <1>7

(* There is only one nearest quotient of a number that is not half way     *)
(* between two multiples.                                                  *)
LEMMA NearestUnique ==
    ASSUME NEW d \in Nat \ {0}, NEW k \in Int, NEW l \in Int, NEW n \in Int,
           -d <= 2 * (n - d * k), 2 * (n - d * k) < d,
           -d < 2 * (n - d * l), 2 * (n - d * l) < d
    PROVE  k = l
<1>1. k - l \in Int /\ d * (k - l) = d * k - d * l /\ d * k \in Int /\ d * l \in Int
  OBVIOUS
<1>2. -d < d * (k - l) /\ d * (k - l) < d
  BY <1>1
<1>3. (k - l >= 1 => d * (k - l) >= d) /\ (k - l <= -1 => d * (k - l) <= -d)
  BY <1>1, MultipleTooLarge
<1> QED
  BY <1>1, <1>2, <1>3

(* scale_round_and_mod, for a modulus that does not get smaller: the       *)
(* result is below the new modulus, although nothing reduces it, and off   *)
(* by half a unit at most.                                                 *)
THEOREM ScaleRoundScales ==
    ASSUME NEW q \in Nat \ {0}, NEW qp \in Nat, q <= qp, 2 * qp <= Word,
           NEW v \in 0 .. q - 1
    PROVE  /\ ScaleRound(v, q, qp) \in 0 .. qp - 1
           /\ -q <= 2 * (v * qp - q * ScaleRound(v, q, qp))
           /\ 2 * (v * qp - q * ScaleRound(v, q, qp)) <= q
<1> DEFINE n == v * qp
           s == ScaleRound(v, q, qp)
<1>1. n \in Nat /\ n <= q * qp - qp /\ q * qp \in Nat
  <2>1. (q - 1 - v) * qp \in Nat /\ q * qp = v * qp + qp + (q - 1 - v) * qp
    OBVIOUS
  <2>2. v * qp \in Nat
    OBVIOUS
  <2> QED
    BY <2>1, <2>2
<1>0. /\ n \div q \in Int /\ n % q \in 0 .. q - 1
      /\ n = q * (n \div q) + (n % q)
  <2> HIDE DEF n
  <2> QED
    BY <1>1, DivMod
<1>2. PICK t \in Int, r \in 0 .. q - 1 : t = n \div q /\ n = q * t + r
  BY <1>0
<1>3. q * (t - qp) = q * t - q * qp /\ t - qp \in Int
  BY <1>2
<1>4. t - qp <= -1
  <2>1. t - qp >= 0 => q * (t - qp) >= 0
    BY <1>3
  <2> QED
    BY <1>1, <1>2, <1>3, <2>1
<1>5. n \div q < Word /\ 2 * q <= Word
  BY <1>2, <1>4, WordAssumption
<1>6. /\ s \in Nat /\ s \in {t, t + 1}
      /\ -q <= 2 * (n - q * s) /\ 2 * (n - q * s) < q
  BY <1>1, <1>2, <1>5, RoundedDivIsNearest DEF ScaleRound
<1>7. s # qp
  <2>1. s = qp => 2 * (n - q * s) <= -(2 * qp)
    BY <1>1
  <2> QED
    BY <1>6, <2>1
<1> QED
  BY <1>4, <1>6, <1>7

-----------------------------------------------------------------------------
(* What a party computes, step by step.                                    *)
Scaled(p) == ScaleRound(phase[p], Q, QPrime)

ErrorShare(p) == MaskError(p, Scaled(p))

Opened == Centred(Aggregated([p \in Parties |-> ErrorShare(p)], DeltaPrime))

Sent(p) ==
    AddMod(IF p = 0 THEN SubMod(Scaled(0), Opened, QPrime) ELSE Scaled(p),
           mask[p].q, QPrime)

Coefficient == FinalValue(Aggregated([p \in Parties |-> Sent(p)], QPrime), DeltaPrime)

(* What the first step found.                                              *)
SetupOK ==
    /\ msg \in 0 .. P - 1
    /\ noise \in Noises
    /\ phase \in PhaseShares(((Q \div P) * msg + noise) % Q)
    /\ \E total \in Masks : \E sampled \in [0 .. G - 2 -> Masks] :
           mask = DdRandom(total, sampled)

Sending == {"share", "combine", "done"}

ValueOK(p) ==
    CASE pc[p] = "phase"                        -> value[p] = 0
      [] pc[p] \in {"to_p0", "open", "random"}  -> value[p] = Scaled(p)
      [] OTHER                                  -> value[p] = Sent(p)

ErrorOK(p) ==
    CASE pc[p] = "phase" -> error[p] = 0
      [] p = 0 /\ pc[0] \in {"random"} \cup Sending -> error[p] = Opened
      [] OTHER           -> error[p] = ErrorShare(p)

(* Party 0 has waited for all error shares, and everybody for all values.  *)
BarriersOK ==
    /\ pc[0] \notin {"phase", "to_p0"} =>
           \A q \in Parties \ {0} : pc[q] \notin {"phase", "to_p0"}
    /\ \A p \in Parties : pc[p] \in {"combine", "done"} =>
           \A q \in Parties : pc[q] \in Sending

ResultOK(p) ==
    /\ gathered[p] = [q \in Parties |->
                        IF pc[p] \in {"combine", "done"} THEN Sent(q) ELSE 0]
    /\ result[p] = IF pc[p] = "done" THEN Coefficient ELSE -1

IInv ==
    /\ SetupOK
    /\ pc \in [Parties -> Steps]
    /\ value = [p \in Parties |-> value[p]]
    /\ error = [p \in Parties |-> error[p]]
    /\ gathered = [p \in Parties |-> gathered[p]]
    /\ result = [p \in Parties |-> result[p]]
    /\ \A p \in Parties : pc[p] = "open" => p = 0
    /\ BarriersOK
    /\ \A p \in Parties : ValueOK(p) /\ ErrorOK(p) /\ ResultOK(p)

-----------------------------------------------------------------------------

(* There is a party 0.                                                     *)
LEMMA ZeroIn == 0 \in Parties
BY DistDecryptAssumption DEF Parties

(* The invariant holds at first.                                           *)
LEMMA InitEstablishes == Init => IInv
<1> SUFFICES ASSUME Init PROVE IInv
  OBVIOUS
<1>1. SetupOK
  BY DEF Init, SetupOK
<1>2. \A p \in Parties : /\ pc[p] = "phase" /\ value[p] = 0 /\ error[p] = 0
                         /\ gathered[p] = [j \in Parties |-> 0] /\ result[p] = -1
  BY DEF Init
<1>3. BarriersOK /\ \A p \in Parties : ValueOK(p) /\ ErrorOK(p) /\ ResultOK(p)
  BY <1>2, ZeroIn DEF BarriersOK, ValueOK, ErrorOK, ResultOK, Sending
<1>4. pc \in [Parties -> Steps]
  BY DEF Init, Steps
<1> QED
  BY <1>1, <1>2, <1>3, <1>4 DEF Init, IInv

(* The derived values depend on what does not change only.                 *)
LEMMA SetupUnchanged ==
    ASSUME UNCHANGED setup
    PROVE  /\ \A p : Scaled(p)' = Scaled(p) /\ ErrorShare(p)' = ErrorShare(p)
           /\ Opened' = Opened
           /\ \A p : Sent(p)' = Sent(p)
           /\ Coefficient' = Coefficient
           /\ SetupOK' <=> SetupOK
<1> USE DEF setup
<1>1. \A p : Scaled(p)' = Scaled(p) /\ ErrorShare(p)' = ErrorShare(p)
  BY DEF Scaled, ErrorShare, MaskError
<1>2. [p \in Parties |-> ErrorShare(p)]' = [p \in Parties |-> ErrorShare(p)]
  BY <1>1
<1>3. Opened' = Opened
  BY <1>2 DEF Opened
<1>4. \A p : Sent(p)' = Sent(p)
  BY <1>1, <1>3 DEF Sent
<1>5. [p \in Parties |-> Sent(p)]' = [p \in Parties |-> Sent(p)]
  BY <1>4
<1>6. Coefficient' = Coefficient
  BY <1>5 DEF Coefficient
<1>7. SetupOK' <=> SetupOK
  BY DEF SetupOK
<1> QED
  BY <1>1, <1>3, <1>4, <1>6, <1>7

(* Each step keeps the invariant: modulus switching,                       *)
LEMMA LocalShareStep ==
    ASSUME IInv, NEW p \in Parties, LocalShare(p)
    PROVE  IInv'
<1> USE DEF LocalShare
<1>1. UNCHANGED setup /\ UNCHANGED <<gathered, result>>
  OBVIOUS
<1>2. /\ pc[p] = "phase" /\ pc'[p] = "to_p0"
      /\ value'[p] = Scaled(p) /\ error'[p] = ErrorShare(p)
      /\ \A q \in Parties : q # p => /\ pc'[q] = pc[q] /\ value'[q] = value[q]
                                     /\ error'[q] = error[q]
  BY DEF IInv, Scaled, ErrorShare
<1>3. /\ value' = [q \in Parties |-> value'[q]]
      /\ error' = [q \in Parties |-> error'[q]]
      /\ pc' \in [Parties -> Steps]
  BY DEF IInv, Steps
<1> HIDE DEF LocalShare
<1>4. /\ pc[0] \in {"phase", "to_p0"}
      /\ \A q \in Parties : pc[q] \notin {"combine", "done"}
  BY <1>2, ZeroIn DEF IInv, BarriersOK, Sending
<1>5. BarriersOK'
  BY <1>2, <1>4, ZeroIn DEF BarriersOK
<1>6. ASSUME NEW q \in Parties PROVE ValueOK(q)' /\ ErrorOK(q)' /\ ResultOK(q)'
  <2>1. ValueOK(q) /\ ErrorOK(q) /\ ResultOK(q)
    BY DEF IInv
  <2>2. CASE q = p
    BY <1>1, <1>2, <1>4, <2>1, <2>2, SetupUnchanged
    DEF ValueOK, ErrorOK, ResultOK, Sending
  <2>3. CASE q # p
    BY <1>1, <1>2, <2>1, <2>3, SetupUnchanged DEF ValueOK, ErrorOK, ResultOK
  <2> QED
    BY <2>2, <2>3
<1> QED
  BY <1>1, <1>2, <1>3, <1>5, <1>6, SetupUnchanged DEF IInv

(* sending the error share, or waiting for all of them,                    *)
LEMMA ShareToP0Step ==
    ASSUME IInv, NEW p \in Parties, ShareToP0(p)
    PROVE  IInv'
<1> USE DEF ShareToP0
<1>1. UNCHANGED setup /\ UNCHANGED <<value, error, gathered, result>>
  OBVIOUS
<1>2. /\ pc[p] = "to_p0" /\ pc'[p] = IF p = 0 THEN "open" ELSE "random"
      /\ \A q \in Parties : q # p => pc'[q] = pc[q]
      /\ p = 0 => \A q \in Parties \ {0} : pc[q] \notin {"phase", "to_p0"}
      /\ pc' \in [Parties -> Steps]
  BY DEF IInv, Steps
<1> HIDE DEF ShareToP0
<1>3. \A q \in Parties : pc[q] \notin {"combine", "done"}
  BY <1>2 DEF IInv, BarriersOK, Sending
<1>4. BarriersOK'
  BY <1>2, <1>3, ZeroIn DEF IInv, BarriersOK
<1>5. ASSUME NEW q \in Parties PROVE ValueOK(q)' /\ ErrorOK(q)' /\ ResultOK(q)'
  <2>1. ValueOK(q) /\ ErrorOK(q) /\ ResultOK(q)
    BY DEF IInv
  <2>2. CASE q = p
    BY <1>1, <1>2, <2>1, <2>2, SetupUnchanged DEF ValueOK, ErrorOK, ResultOK, Sending
  <2>3. CASE q # p
    BY <1>1, <1>2, <2>1, <2>3, SetupUnchanged DEF ValueOK, ErrorOK, ResultOK
  <2> QED
    BY <2>2, <2>3
<1> QED
  BY <1>1, <1>2, <1>4, <1>5, SetupUnchanged DEF IInv

(* opening the error, of which party 0 then has all shares,                *)
LEMMA OpenErrorStep ==
    ASSUME IInv, NEW p \in Parties, OpenError(p)
    PROVE  IInv'
<1> USE DEF OpenError
<1>1. UNCHANGED setup /\ UNCHANGED <<value, gathered, result>>
  OBVIOUS
<1>2. /\ pc[p] = "open" /\ p = 0 /\ pc'[p] = "random"
      /\ error'[p] = Centred(Aggregated(error, DeltaPrime))
      /\ \A q \in Parties : q # p => pc'[q] = pc[q] /\ error'[q] = error[q]
      /\ error' = [q \in Parties |-> error'[q]]
      /\ pc' \in [Parties -> Steps]
  BY DEF IInv, Steps
<1> HIDE DEF OpenError
<1>3. error'[p] = Opened
  <2>1. \A q \in Parties : error[q] = ErrorShare(q)
    BY <1>2 DEF IInv, BarriersOK, ErrorOK, Sending
  <2>2. error = [q \in Parties |-> ErrorShare(q)]
    BY <2>1 DEF IInv
  <2> QED
    BY <1>2, <2>2 DEF Opened
<1>4. BarriersOK'
  BY <1>2, ZeroIn DEF IInv, BarriersOK, Sending
<1>5. ASSUME NEW q \in Parties PROVE ValueOK(q)' /\ ErrorOK(q)' /\ ResultOK(q)'
  <2>1. ValueOK(q) /\ ErrorOK(q) /\ ResultOK(q)
    BY DEF IInv
  <2>2. CASE q = p
    BY <1>1, <1>2, <1>3, <2>1, <2>2, SetupUnchanged
    DEF ValueOK, ErrorOK, ResultOK, Sending
  <2>3. CASE q # p
    BY <1>1, <1>2, <2>1, <2>3, SetupUnchanged DEF ValueOK, ErrorOK, ResultOK
  <2> QED
    BY <2>2, <2>3
<1> QED
  BY <1>1, <1>2, <1>4, <1>5, SetupUnchanged DEF IInv

(* taking it off and masking,                                              *)
LEMMA AddRandomStep ==
    ASSUME IInv, NEW p \in Parties, AddRandom(p)
    PROVE  IInv'
<1> USE DEF AddRandom
<1>1. UNCHANGED setup /\ UNCHANGED <<error, gathered, result>>
  OBVIOUS
<1>2. /\ pc[p] = "random" /\ pc'[p] = "share"
      /\ value'[p] = AddMod(IF p = 0 THEN SubMod(value[p], error[p], QPrime)
                            ELSE value[p], mask[p].q, QPrime)
      /\ \A q \in Parties : q # p => pc'[q] = pc[q] /\ value'[q] = value[q]
      /\ value' = [q \in Parties |-> value'[q]]
      /\ pc' \in [Parties -> Steps]
  BY DEF IInv, Steps
<1> HIDE DEF AddRandom
<1>3. value'[p] = Sent(p)
  <2>1. value[p] = Scaled(p) /\ (p = 0 => error[p] = Opened)
    BY <1>2 DEF IInv, ValueOK, ErrorOK
  <2> QED
    BY <1>2, <2>1 DEF Sent
<1>4. BarriersOK'
  BY <1>2, ZeroIn DEF IInv, BarriersOK, Sending
<1>5. ASSUME NEW q \in Parties PROVE ValueOK(q)' /\ ErrorOK(q)' /\ ResultOK(q)'
  <2>1. ValueOK(q) /\ ErrorOK(q) /\ ResultOK(q)
    BY DEF IInv
  <2>2. CASE q = p
    BY <1>1, <1>2, <1>3, <2>1, <2>2, SetupUnchanged
    DEF ValueOK, ErrorOK, ResultOK, Sending
  <2>3. CASE q # p
    BY <1>1, <1>2, <2>1, <2>3, SetupUnchanged DEF ValueOK, ErrorOK, ResultOK
  <2> QED
    BY <2>2, <2>3
<1> QED
  BY <1>1, <1>2, <1>4, <1>5, SetupUnchanged DEF IInv

(* waiting for the values of all the others,                               *)
LEMMA ShareValuesStep ==
    ASSUME IInv, NEW p \in Parties, ShareValues(p)
    PROVE  IInv'
<1> USE DEF ShareValues
<1>1. UNCHANGED setup /\ UNCHANGED <<value, error, result>>
  OBVIOUS
<1>2. /\ pc[p] = "share" /\ pc'[p] = "combine"
      /\ \A q \in Parties : pc[q] \in Sending
      /\ gathered'[p] = value
      /\ \A q \in Parties : q # p => pc'[q] = pc[q] /\ gathered'[q] = gathered[q]
      /\ gathered' = [q \in Parties |-> gathered'[q]]
      /\ pc' \in [Parties -> Steps]
  BY DEF IInv, Steps, Sending
<1> HIDE DEF ShareValues
<1>3. gathered'[p] = [q \in Parties |-> Sent(q)]
  <2>1. \A q \in Parties : value[q] = Sent(q)
    BY <1>2 DEF IInv, ValueOK, Sending
  <2> QED
    BY <1>2, <2>1 DEF IInv
<1>4. BarriersOK'
  BY <1>2, ZeroIn DEF IInv, BarriersOK, Sending
<1>5. ASSUME NEW q \in Parties PROVE ValueOK(q)' /\ ErrorOK(q)' /\ ResultOK(q)'
  <2>1. ValueOK(q) /\ ErrorOK(q) /\ ResultOK(q)
    BY DEF IInv
  <2>2. CASE q = p
    BY <1>1, <1>2, <1>3, <2>1, <2>2, SetupUnchanged
    DEF ValueOK, ErrorOK, ResultOK, Sending
  <2>3. CASE q # p
    BY <1>1, <1>2, <2>1, <2>3, SetupUnchanged DEF ValueOK, ErrorOK, ResultOK
  <2> QED
    BY <2>2, <2>3
<1> QED
  BY <1>1, <1>2, <1>4, <1>5, SetupUnchanged DEF IInv

(* and adding them up.                                                     *)
LEMMA CombineStep ==
    ASSUME IInv, NEW p \in Parties, Combine(p)
    PROVE  IInv'
<1> USE DEF Combine
<1>1. UNCHANGED setup /\ UNCHANGED <<value, error, gathered>>
  OBVIOUS
<1>2. /\ pc[p] = "combine" /\ pc'[p] = "done"
      /\ result'[p] = FinalValue(Aggregated(gathered[p], QPrime), DeltaPrime)
      /\ \A q \in Parties : q # p => pc'[q] = pc[q] /\ result'[q] = result[q]
      /\ result' = [q \in Parties |-> result'[q]]
      /\ pc' \in [Parties -> Steps]
  BY DEF IInv, Steps
<1> HIDE DEF Combine
<1>3. result'[p] = Coefficient
  <2>1. gathered[p] = [q \in Parties |-> Sent(q)]
    BY <1>2 DEF IInv, ResultOK
  <2> QED
    BY <1>2, <2>1 DEF Coefficient
<1>4. BarriersOK'
  BY <1>2, ZeroIn DEF IInv, BarriersOK, Sending
<1>5. ASSUME NEW q \in Parties PROVE ValueOK(q)' /\ ErrorOK(q)' /\ ResultOK(q)'
  <2>1. ValueOK(q) /\ ErrorOK(q) /\ ResultOK(q)
    BY DEF IInv
  <2>2. CASE q = p
    BY <1>1, <1>2, <1>3, <2>1, <2>2, SetupUnchanged
    DEF ValueOK, ErrorOK, ResultOK, Sending
  <2>3. CASE q # p
    BY <1>1, <1>2, <2>1, <2>3, SetupUnchanged DEF ValueOK, ErrorOK, ResultOK
  <2> QED
    BY <2>2, <2>3
<1> QED
  BY <1>1, <1>2, <1>4, <1>5, SetupUnchanged DEF IInv

(* The invariant holds of every reachable state.                           *)
THEOREM Invariance == Spec => []IInv
<1>1. IInv /\ [Next]_vars => IInv'
  <2> SUFFICES ASSUME IInv, [Next]_vars PROVE IInv'
    OBVIOUS
  <2>1. CASE UNCHANGED vars
    <3>1. UNCHANGED setup
      BY <2>1 DEF vars
    <3>2. BarriersOK' /\ \A p \in Parties : ValueOK(p)' /\ ErrorOK(p)' /\ ResultOK(p)'
      BY <2>1, <3>1, SetupUnchanged
      DEF IInv, vars, BarriersOK, ValueOK, ErrorOK, ResultOK
    <3> QED
      BY <2>1, <3>1, <3>2, SetupUnchanged DEF IInv, vars
  <2> QED
    BY <2>1, LocalShareStep, ShareToP0Step, OpenErrorStep, AddRandomStep,
       ShareValuesStep, CombineStep DEF Next, Finished
<1> QED
  BY InitEstablishes, <1>1, PTL DEF Spec

(* All parties add up the same values, so that they end with the same      *)
(* coefficient.                                                            *)
THEOREM AllAgree == Spec => []ResultsAgree
<1>1. IInv => ResultsAgree
  BY DEF IInv, ResultOK, ResultsAgree, Done
<1> QED
  BY Invariance, <1>1, PTL
-----------------------------------------------------------------------------

(* The moduli.                                                             *)
LEMMA Moduli ==
    /\ G \in Nat /\ G - 1 \in Nat /\ Parties = 0 .. G - 1
    /\ P \in Nat \ {0} /\ Q \in Nat \ {0} /\ Q <= QPrime /\ 2 * QPrime <= Word
    /\ DeltaPrime \in Nat \ {0} /\ QPrime \in Nat \ {0} /\ DeltaPrime <= QPrime
    /\ QPrime = DeltaPrime * P
    /\ Half(QPrime) /\ Half(DeltaPrime)
<1> DEFINE c == (Q + P - 1) \div P
           r == (Q + P - 1) % P
<1>1. /\ G \in Nat /\ G - 1 \in Nat /\ Parties = 0 .. G - 1
      /\ P \in Nat \ {0} /\ Q \in Nat \ {0} /\ 2 * QPrime <= Word
  BY DistDecryptAssumption, RoomAssumption DEF Parties
<1>2. c \in Int /\ r \in 0 .. P - 1 /\ Q + P - 1 = P * c + r
  <2>1. Q + P - 1 \in Int
    BY <1>1
  <2> QED
    BY <1>1, <2>1, DivMod
<1>3. QPrime = c * P
  BY DEF QPrime
<1> HIDE DEF c, r
<1>4. P * c >= Q /\ c * P = P * c + 0
  BY <1>1, <1>2
<1>5. c \in Nat \ {0}
  <2>1. c <= 0 => P * c <= 0
    BY <1>1, <1>2
  <2> QED
    BY <1>1, <1>2, <1>4, <2>1
<1>6. (P * c + 0) \div P = c
  BY <1>1, <1>2, DivModUnique
<1>7. DeltaPrime = c
  BY <1>3, <1>4, <1>6 DEF DeltaPrime
<1>8. c <= c * P /\ c * P \in Nat \ {0}
  <2>1. (P - 1) * c \in Nat /\ c * P = c + (P - 1) * c
    BY <1>1, <1>5
  <2> QED
    BY <1>5, <2>1
<1>9. /\ QPrime \in Nat \ {0} /\ Q <= QPrime
      /\ DeltaPrime \in Nat \ {0} /\ DeltaPrime <= QPrime
  BY <1>1, <1>3, <1>4, <1>5, <1>7, <1>8
<1>10. QPrime = DeltaPrime * P
  BY <1>3, <1>7
<1>11. Word \in Nat
  BY WordAssumption
<1>12. Half(QPrime) /\ Half(DeltaPrime)
  BY <1>1, <1>9, <1>11 DEF Half
<1> QED
  BY <1>1, <1>9, <1>10, <1>12

(* SumTo is the running sum.                                               *)
LEMMA SumToIs ==
    ASSUME NEW n \in Nat, NEW f, NEW S, IsSum(S, f, n)
    PROVE  \A k \in 0 .. n : SumTo(f, k) = S[k]
<1> SUFFICES ASSUME NEW k \in 0 .. n PROVE SumTo(f, k) = S[k]
  OBVIOUS
<1> DEFINE Eqn(h) == h = [i \in 0 .. k |-> IF i = 0 THEN f[0] ELSE h[i - 1] + f[i]]
           sum == CHOOSE h : Eqn(h)
           R == [i \in 0 .. k |-> S[i]]
<1>1. SumTo(f, k) = sum[k]
  BY DEF SumTo
<1>2. ASSUME NEW i \in 0 .. k PROVE R[i] = IF i = 0 THEN f[0] ELSE R[i - 1] + f[i]
  <2>1. CASE i = 0
    BY <2>1 DEF IsSum
  <2>2. CASE i # 0
    <3>1. i \in 1 .. n /\ i - 1 \in 0 .. k
      BY <2>2
    <3>2. S[i] = S[i - 1] + f[i]
      BY <3>1 DEF IsSum
    <3> QED
      BY <2>2, <3>1, <3>2
  <2> QED
    BY <2>1, <2>2
<1>3. R = [i \in 0 .. k |-> R[i]]
  OBVIOUS
<1>4. Eqn(R)
  <2> HIDE DEF R
  <2> QED
    BY <1>2, <1>3
<1>5. Eqn(sum)
  BY <1>4
<1> DEFINE T == {i \in 0 .. k : sum[i] = S[i]}
<1>6. ASSUME NEW i \in 0 .. k, i = 0 \/ sum[i - 1] = S[i - 1] PROVE sum[i] = S[i]
  <2>1. sum[i] = IF i = 0 THEN f[0] ELSE sum[i - 1] + f[i]
    <3> HIDE DEF sum
    <3> QED
      BY <1>5
  <2> HIDE DEF sum
  <2>2. i # 0 => S[i] = S[i - 1] + f[i]
    BY DEF IsSum
  <2>3. i = 0 => S[i] = f[0]
    BY DEF IsSum
  <2> QED
    BY <1>6, <2>1, <2>2, <2>3
<1> HIDE DEF sum
<1>7. 0 \in T /\ \A i \in 1 .. k : i - 1 \in T => i \in T
  BY <1>6
<1>8. k \in T
  <2> HIDE DEF T
  <2>1. k \in Nat
    OBVIOUS
  <2>2. \A i \in 0 .. k : i \in T
    BY <1>7, <2>1, InductionUpTo
  <2> QED
    BY <2>1, <2>2
<1> QED
  BY <1>1, <1>8

(* Aggregation adds up mod m.                                              *)
LEMMA AggregatedIs ==
    ASSUME NEW m \in Nat \ {0}, Half(m), NEW s, NEW S, IsSum(S, s, G - 1),
           \A p \in Parties : s[p] \in 0 .. m - 1
    PROVE  Aggregated(s, m) = S[G - 1] % m /\ Aggregated(s, m) \in 0 .. m - 1
<1> DEFINE n == G - 1
           Eqn(f) == f = [k \in Parties |->
                            IF k = 0 THEN s[0] ELSE AddMod(f[k - 1], s[k], m)]
           acc == CHOOSE f : Eqn(f)
           X == 0 .. m - 1
           step == [x \in X \X (1 .. n) |-> AddMod(x[1], s[x[2]], m)]
           start == s[0]
<1>1. n \in Nat /\ Parties = 0 .. n
  BY Moduli
<1>2. Aggregated(s, m) = acc[n]
  BY DEF Aggregated
<1>3. start \in X /\ \A x \in X, k \in 1 .. n : AddMod(x, s[k], m) \in X
  <2>1. \A k \in 0 .. n : s[k] \in 0 .. m - 1
    BY <1>1
  <2>2. ASSUME NEW x \in 0 .. m - 1, NEW y \in 0 .. m - 1
        PROVE  AddMod(x, y, m) \in 0 .. m - 1
    BY AddModAdds
  <2>3. 0 \in 0 .. n /\ \A k \in 1 .. n : k \in 0 .. n
    BY <1>1
  <2> QED
    BY <2>1, <2>2, <2>3
<1>4. step \in [X \X (1 .. n) -> X]
  <2> HIDE DEF X, n
  <2>1. \A x \in X \X (1 .. n) : AddMod(x[1], s[x[2]], m) \in X
    BY <1>3
  <2> QED
    BY <2>1
<1>5. \A x \in X, k \in 1 .. n : step[<<x, k>>] = AddMod(x, s[k], m)
  OBVIOUS
<1> HIDE DEF step, X, start, n
<1>6. PICK f \in [0 .. n -> X] : Iterates(f, start, step, n)
  BY <1>1, <1>3, <1>4, RecursiveFunction
<1>7. Eqn(f)
  <2>1. ASSUME NEW k \in 0 .. n
        PROVE  f[k] = IF k = 0 THEN s[0] ELSE AddMod(f[k - 1], s[k], m)
    <3>1. CASE k = 0
      BY <1>6, <3>1 DEF Iterates, start
    <3>2. CASE k # 0
      <4>1. k \in 1 .. n /\ k - 1 \in 0 .. n
        BY <1>1, <3>2
      <4>2. f[k] = step[<<f[k - 1], k>>] /\ f[k - 1] \in X
        BY <1>6, <4>1 DEF Iterates
      <4> QED
        BY <1>5, <3>2, <4>1, <4>2
    <3> QED
      BY <3>1, <3>2
  <2> QED
    BY <1>1, <2>1
<1>8. Eqn(acc)
  BY <1>7
<1> HIDE DEF acc
<1>9. acc[0] = s[0] /\ \A k \in 1 .. n : acc[k] = AddMod(acc[k - 1], s[k], m)
  BY <1>1, <1>8
<1>10. \A k \in 0 .. n : s[k] \in 0 .. m - 1
  BY <1>1
<1>11. IsSum(S, s, n)
  BY DEF n
<1>12. \A k \in 0 .. n : acc[k] = S[k] % m
  <2>1. \A k \in 0 .. n : s[k] \in Int
    BY <1>10
  <2>2. acc[0] = s[0] % m
    <3>1. s[0] \in 0 .. m - 1
      BY <1>1, <1>10
    <3>2. s[0] % m = s[0]
      BY <3>1, ModSmall
    <3> QED
      BY <1>9, <3>2
  <2>3. ASSUME NEW k \in 1 .. n, acc[k - 1] \in 0 .. m - 1
        PROVE  acc[k] = (acc[k - 1] + s[k]) % m
    <3>1. s[k] \in 0 .. m - 1
      BY <1>1, <1>10
    <3>2. AddMod(acc[k - 1], s[k], m) = (acc[k - 1] + s[k]) % m
      BY <2>3, <3>1, AddModIsMod
    <3> QED
      BY <1>9, <3>2
  <2>4. \A k \in 1 .. n : acc[k - 1] \in 0 .. m - 1 => acc[k] = (acc[k - 1] + s[k]) % m
    BY <2>3
  <2>5. n \in Nat /\ m \in Nat \ {0}
    BY <1>1
  <2> QED
    BY <1>11, <2>1, <2>2, <2>4, <2>5, SumMod
<1>13. S[n] \in Int /\ acc[n] = S[n] % m
  <2>1. n \in 0 .. n
    BY <1>1
  <2> QED
    BY <1>11, <1>12, <2>1 DEF IsSum
<1>14. S[n] % m \in 0 .. m - 1
  BY <1>13, DivMod
<1> QED
  BY <1>2, <1>13, <1>14 DEF n

(* A residue is one.                                                       *)
LEMMA ResidueIs ==
    ASSUME NEW m \in Nat \ {0}, NEW r \in Int, -m <= r, r < m
    PROVE  Residue(r, m) \in 0 .. m - 1 /\ Residue(r, m) % m = r % m
<1>1. Residue(r, m) \in 0 .. m - 1
  BY DEF Residue
<1>2. Residue(r, m) = r + m * 0 \/ Residue(r, m) = r + m * 1
  BY DEF Residue
<1>3. PICK k \in Int : Residue(r, m) = r + m * k
  BY <1>2
<1>4. (r + m * k) % m = r % m
  BY ModShift
<1> QED
  BY <1>1, <1>3, <1>4

(* The masks of all parties are residues and add up to the sampled total.  *)
LEMMA MasksAddUp ==
    ASSUME NEW m \in Nat \ {0}, Half(m), NEW total, NEW sampled,
           Residue(total, m) \in 0 .. m - 1,
           \A k \in 0 .. G - 2 : Residue(sampled[k], m) \in 0 .. m - 1
    PROVE  LET s == MaskShares(total, sampled, m)
           IN  /\ \A p \in Parties : s[p] \in 0 .. m - 1
               /\ \A p \in 0 .. G - 2 : s[p] = Residue(sampled[p], m)
               /\ \A S : IsSum(S, s, G - 1) => S[G - 1] % m = Residue(total, m) % m
<1> DEFINE n == G - 1
           Eqn(f) == f = [k \in 0 .. G - 1 |->
                            IF k = 0 THEN Residue(total, m)
                            ELSE SubMod(f[k - 1], Residue(sampled[k - 1], m), m)]
           left == CHOOSE f : Eqn(f)
           s == MaskShares(total, sampled, m)
           X == 0 .. m - 1
           step == [x \in X \X (1 .. n) |->
                      SubMod(x[1], Residue(sampled[x[2] - 1], m), m)]
           start == Residue(total, m)
<1>1. n \in Nat /\ Parties = 0 .. n /\ G - 2 = n - 1 /\ n >= 1
  BY DistDecryptAssumption, Moduli
<1>2. s = [p \in Parties |-> IF p = n THEN left[n] ELSE Residue(sampled[p], m)]
  BY DEF MaskShares
<1> HIDE DEF s
<1>3. /\ start \in X
      /\ \A x \in X, k \in 1 .. n : SubMod(x, Residue(sampled[k - 1], m), m) \in X
  <2>1. ASSUME NEW x \in 0 .. m - 1, NEW y \in 0 .. m - 1
        PROVE  SubMod(x, y, m) \in 0 .. m - 1
    BY SubModSubtracts
  <2>2. \A k \in 1 .. n : Residue(sampled[k - 1], m) \in 0 .. m - 1
    BY <1>1
  <2> QED
    BY <2>1, <2>2
<1>4. step \in [X \X (1 .. n) -> X]
  <2> HIDE DEF X, n
  <2>1. \A x \in X \X (1 .. n) : SubMod(x[1], Residue(sampled[x[2] - 1], m), m) \in X
    BY <1>3
  <2> QED
    BY <2>1
<1>5. \A x \in X, k \in 1 .. n :
         step[<<x, k>>] = SubMod(x, Residue(sampled[k - 1], m), m)
  OBVIOUS
<1> HIDE DEF step, X, start, n
<1>6. PICK f \in [0 .. n -> X] : Iterates(f, start, step, n)
  BY <1>1, <1>3, <1>4, RecursiveFunction
<1>7. Eqn(f)
  <2>1. ASSUME NEW k \in 0 .. n
        PROVE  f[k] = IF k = 0 THEN Residue(total, m)
                      ELSE SubMod(f[k - 1], Residue(sampled[k - 1], m), m)
    <3>1. CASE k = 0
      BY <1>6, <3>1 DEF Iterates, start
    <3>2. CASE k # 0
      <4>1. k \in 1 .. n /\ k - 1 \in 0 .. n
        BY <1>1, <3>2
      <4>2. f[k] = step[<<f[k - 1], k>>] /\ f[k - 1] \in X
        BY <1>6, <4>1 DEF Iterates
      <4> QED
        BY <1>5, <3>2, <4>1, <4>2
    <3> QED
      BY <3>1, <3>2
  <2>2. n = G - 1
    BY DEF n
  <2> QED
    BY <2>1, <2>2
<1>8. Eqn(left)
  BY <1>7
<1> HIDE DEF left
<1>9. /\ left[0] = Residue(total, m)
      /\ \A k \in 1 .. n : left[k] = SubMod(left[k - 1], Residue(sampled[k - 1], m), m)
  <2>1. n = G - 1
    BY DEF n
  <2> QED
    BY <1>1, <1>8, <2>1
<1>10. \A k \in 0 .. n : left[k] \in 0 .. m - 1
  <2> DEFINE T == {k \in 0 .. n : left[k] \in 0 .. m - 1}
  <2>1. 0 \in T
    BY <1>1, <1>9
  <2>2. ASSUME NEW k \in 1 .. n, k - 1 \in T PROVE k \in T
    <3>1. Residue(sampled[k - 1], m) \in 0 .. m - 1
      BY <1>1
    <3>2. SubMod(left[k - 1], Residue(sampled[k - 1], m), m) \in 0 .. m - 1
      BY <2>2, <3>1, SubModSubtracts
    <3> QED
      BY <1>9, <3>2
  <2> HIDE DEF T
  <2>3. \A k \in 0 .. n : k \in T
    BY <1>1, <2>1, <2>2, InductionUpTo
  <2> QED
    BY <2>3 DEF T
<1>11. /\ \A p \in Parties : s[p] \in 0 .. m - 1
       /\ \A p \in 0 .. n - 1 : s[p] = Residue(sampled[p], m)
       /\ s[n] = left[n]
  <2>1. n \in Parties /\ n \in 0 .. n /\ \A p \in 0 .. n - 1 : p \in Parties /\ p # n
    BY <1>1
  <2>2. \A p \in 0 .. n - 1 : s[p] = Residue(sampled[p], m) /\ s[p] \in 0 .. m - 1
    BY <1>1, <1>2, <2>1
  <2>3. s[n] = left[n] /\ s[n] \in 0 .. m - 1
    BY <1>2, <1>10, <2>1
  <2>4. \A p \in Parties : p = n \/ p \in 0 .. n - 1
    BY <1>1
  <2> QED
    BY <2>2, <2>3, <2>4
<1>12. ASSUME NEW S, IsSum(S, s, n)
       PROVE  S[n] % m = Residue(total, m) % m
  <2> DEFINE B(k) == IF k = 0 THEN 0 ELSE S[k - 1]
             T == {k \in 0 .. n : (B(k) + left[k]) % m = Residue(total, m) % m}
  <2>1. \A k \in 0 .. n : S[k] \in Int /\ B(k) \in Int
    BY <1>1, <1>12, SumType
  <2>2. 0 \in T
    <3>1. B(0) + left[0] = Residue(total, m)
      BY <1>1, <1>9
    <3> QED
      BY <1>1, <3>1
  <2>3. ASSUME NEW k \in 1 .. n, k - 1 \in T PROVE k \in T
    <3>1. k - 1 \in 0 .. n /\ k - 1 \in 0 .. n - 1 /\ k \in 0 .. n
      BY <1>1
    <3>2. PICK r \in 0 .. m - 1 : r = Residue(sampled[k - 1], m)
      BY <1>1, <3>1
    <3>3. PICK b \in Int, l \in 0 .. m - 1 : b = B(k - 1) /\ l = left[k - 1]
      BY <1>10, <2>1, <3>1
    <3>4. B(k) = b + r
      BY <1>11, <1>12, <3>1, <3>2, <3>3 DEF IsSum
    <3>5. left[k] = (l - r) % m
      <4>1. left[k] = SubMod(l, r, m)
        BY <1>9, <3>2, <3>3
      <4> QED
        BY <4>1, SubModIsMod
    <3>6. ((b + r) + ((l - r) % m)) % m = ((b + r) + (l - r)) % m
      <4>1. b + r \in Int /\ l - r \in Int
        OBVIOUS
      <4> QED
        BY <4>1, ModAdd
    <3>7. (b + r) + (l - r) = b + l
      OBVIOUS
    <3>8. (B(k) + left[k]) % m = (b + l) % m
      BY <3>4, <3>5, <3>6, <3>7
    <3>9. (b + l) % m = Residue(total, m) % m
      BY <2>3, <3>3
    <3> QED
      BY <3>1, <3>8, <3>9
  <2> HIDE DEF T
  <2>4. n \in T
    <3>1. \A k \in 0 .. n : k \in T
      BY <1>1, <2>2, <2>3, InductionUpTo
    <3> QED
      BY <1>1, <3>1
  <2>5. B(n) + left[n] = S[n]
    BY <1>1, <1>11, <1>12 DEF IsSum
  <2> QED
    BY <2>4, <2>5 DEF T
<1> QED
  BY <1>1, <1>11, <1>12 DEF n, s

-----------------------------------------------------------------------------

(* The shares of the phase are residues that add up to the phase.          *)
LEMMA PhaseAddsUp ==
    ASSUME SetupOK
    PROVE  /\ msg \in 0 .. P - 1 /\ noise \in Noises /\ noise \in Int
           /\ phase \in [Parties -> 0 .. Q - 1]
           /\ \A S : IsSum(S, phase, G - 1) =>
                  S[G - 1] % Q = ((Q \div P) * msg + noise) % Q
<1> DEFINE n == G - 1
           u == ((Q \div P) * msg + noise) % Q
<1>1. n \in Nat /\ Parties = 0 .. n /\ Q \in Nat \ {0} /\ P \in Nat \ {0}
  BY Moduli
<1>2. msg \in 0 .. P - 1 /\ noise \in Noises /\ noise \in Int
  BY DistDecryptAssumption DEF SetupOK
<1>3. u \in Int /\ u % Q = u
  <2>1. Q \div P \in Int
    BY <1>1, DivMod
  <2>2. (Q \div P) * msg + noise \in Int
    BY <1>2, <2>1
  <2>3. u \in 0 .. Q - 1
    BY <1>1, <2>2, DivMod
  <2> QED
    BY <1>1, <2>3, ModSmall
<1>4. PICK g \in [Parties -> Shares \cup {0}] :
        /\ g[0] = 0
        /\ phase = [p \in Parties |-> IF p = 0 THEN (u - SumTo(g, G - 1)) % Q ELSE g[p]]
  BY DEF SetupOK, PhaseShares
<1> HIDE DEF u
<1>5. \A k \in 0 .. n : g[k] \in 0 .. Q - 1 /\ g[k] \in Int
  <2>1. Shares \cup {0} \subseteq 0 .. Q - 1
    BY <1>1, DistDecryptAssumption
  <2>2. \A k \in 0 .. n : g[k] \in Shares \cup {0}
    BY <1>1
  <2> QED
    BY <2>1, <2>2
<1>6. PICK F : IsSum(F, g, n)
  BY <1>1, <1>5, SumExists
<1>7. SumTo(g, n) = F[n] /\ F[n] \in Int
  BY <1>1, <1>6, SumToIs, SumType
<1>8. PICK c \in 0 .. Q - 1 : c = (u - F[n]) % Q
  <2>1. u - F[n] \in Int
    BY <1>3, <1>7
  <2> QED
    BY <1>1, <2>1, DivMod
<1>9. phase[0] = c /\ \A k \in 1 .. n : phase[k] = g[k]
  BY <1>1, <1>4, <1>7, <1>8
<1>10. phase \in [Parties -> 0 .. Q - 1]
  <2>1. \A p \in Parties : phase[p] \in 0 .. Q - 1
    BY <1>1, <1>5, <1>9
  <2> QED
    BY <1>4, <2>1
<1>11. ASSUME NEW S, IsSum(S, phase, n) PROVE S[n] % Q = u
  <2> DEFINE T == [k \in 0 .. n |-> c + F[k]]
  <2>1. \A k \in 0 .. n : F[k] \in Int
    BY <1>1, <1>6, SumType
  <2>2. T \in [0 .. n -> Int] /\ \A k \in 0 .. n : T[k] = c + F[k]
    BY <2>1
  <2> HIDE DEF T
  <2>3. T[0] = phase[0]
    BY <1>1, <1>4, <1>6, <1>9, <2>2 DEF IsSum
  <2>4. ASSUME NEW k \in 1 .. n PROVE T[k] = T[k - 1] + phase[k]
    <3>1. k - 1 \in 0 .. n /\ k \in 0 .. n /\ g[k] \in Int
      BY <1>1, <1>5
    <3>2. F[k] = F[k - 1] + g[k]
      BY <1>6 DEF IsSum
    <3> QED
      BY <1>9, <2>1, <2>2, <3>1, <3>2
  <2>5. IsSum(T, phase, n)
    BY <2>2, <2>3, <2>4 DEF IsSum
  <2>6. S[n] = c + F[n]
    <3>1. S[n] = T[n]
      BY <1>1, <1>11, <2>5, SumUnique
    <3> QED
      BY <1>1, <2>2, <3>1
  <2>7. (((u - F[n]) % Q) + F[n]) % Q = ((u - F[n]) + F[n]) % Q
    <3>1. u - F[n] \in Int
      BY <1>3, <1>7
    <3> QED
      BY <1>1, <1>7, <3>1, ModAdd
  <2>8. (u - F[n]) + F[n] = u
    BY <1>3, <1>7
  <2> QED
    BY <1>3, <1>8, <2>6, <2>7, <2>8
<1> QED
  BY <1>2, <1>10, <1>11 DEF n, u

(* What is known of the masks: they are residues, party 0's stands for a   *)
(* sampled number and all of them together for the sampled total.          *)
MaskOK(total, first) ==
    /\ mask \in [Parties -> [delta : 0 .. DeltaPrime - 1, q : 0 .. QPrime - 1]]
    /\ mask[0].q % QPrime = first % QPrime
    /\ \A S : IsSum(S, [p \in Parties |-> mask[p].delta], G - 1) =>
           S[G - 1] % DeltaPrime = total % DeltaPrime
    /\ \A S : IsSum(S, [p \in Parties |-> mask[p].q], G - 1) =>
           S[G - 1] % QPrime = total % QPrime

(* generate_dd_random makes such masks.                                    *)
LEMMA MasksOK ==
    ASSUME SetupOK
    PROVE  \E total, first \in Masks : MaskOK(total, first)
<1>1. PICK total \in Masks, sampled \in [0 .. G - 2 -> Masks] :
         mask = DdRandom(total, sampled)
  BY DEF SetupOK
<1>2. /\ G \in Nat /\ G - 1 \in Nat /\ Parties = 0 .. G - 1 /\ G >= 2
      /\ DeltaPrime \in Nat \ {0} /\ QPrime \in Nat \ {0} /\ DeltaPrime <= QPrime
      /\ Half(QPrime) /\ Half(DeltaPrime)
  BY Moduli, DistDecryptAssumption
<1>3. ASSUME NEW r \in Masks, NEW m \in {DeltaPrime, QPrime}
      PROVE  r \in Int /\ Residue(r, m) \in 0 .. m - 1 /\ Residue(r, m) % m = r % m
  <2>1. r \in Int /\ -DeltaPrime <= r /\ r < DeltaPrime
    BY DistDecryptAssumption, RoomAssumption
  <2>2. m \in Nat \ {0} /\ -m <= r /\ r < m
    BY <1>2, <2>1
  <2> QED
    BY <2>1, <2>2, ResidueIs
<1>4. ASSUME NEW m \in {DeltaPrime, QPrime}
      PROVE  LET s == MaskShares(total, sampled, m)
             IN  /\ \A p \in Parties : s[p] \in 0 .. m - 1
                 /\ s[0] % m = sampled[0] % m
                 /\ \A S : IsSum(S, s, G - 1) => S[G - 1] % m = total % m
  <2> DEFINE s == MaskShares(total, sampled, m)
  <2>1. m \in Nat \ {0} /\ Half(m)
    BY <1>2
  <2>2. Residue(total, m) \in 0 .. m - 1 /\ Residue(total, m) % m = total % m
    BY <1>3
  <2>3. \A k \in 0 .. G - 2 : Residue(sampled[k], m) \in 0 .. m - 1
    BY <1>3
  <2>4. /\ \A p \in Parties : s[p] \in 0 .. m - 1
        /\ \A p \in 0 .. G - 2 : s[p] = Residue(sampled[p], m)
        /\ \A S : IsSum(S, s, G - 1) => S[G - 1] % m = Residue(total, m) % m
    BY <2>1, <2>2, <2>3, MasksAddUp
  <2> HIDE DEF s
  <2>5. 0 \in 0 .. G - 2
    BY <1>2
  <2>6. s[0] % m = sampled[0] % m
    BY <1>3, <2>4, <2>5
  <2> QED
    BY <2>2, <2>4, <2>6 DEF s
<1>5. 0 \in 0 .. G - 2 /\ sampled[0] \in Masks /\ 0 \in Parties
  BY <1>2
<1> DEFINE d == MaskShares(total, sampled, DeltaPrime)
           q == MaskShares(total, sampled, QPrime)
<1>6. mask = [p \in Parties |-> [delta |-> d[p], q |-> q[p]]]
  BY <1>1 DEF DdRandom
<1>7. /\ \A p \in Parties : d[p] \in 0 .. DeltaPrime - 1
      /\ \A S : IsSum(S, d, G - 1) => S[G - 1] % DeltaPrime = total % DeltaPrime
  BY <1>4
<1>8. /\ \A p \in Parties : q[p] \in 0 .. QPrime - 1
      /\ q[0] % QPrime = sampled[0] % QPrime
      /\ \A S : IsSum(S, q, G - 1) => S[G - 1] % QPrime = total % QPrime
  BY <1>4
<1> HIDE DEF d, q
<1>9. mask \in [Parties -> [delta : 0 .. DeltaPrime - 1, q : 0 .. QPrime - 1]]
  BY <1>6, <1>7, <1>8
<1>10. \A p \in Parties : mask[p].delta = d[p] /\ mask[p].q = q[p]
  BY <1>6
<1>11. ASSUME NEW S, IsSum(S, [p \in Parties |-> mask[p].delta], G - 1)
       PROVE  IsSum(S, d, G - 1)
  <2>1. \A k \in 0 .. G - 1 : [p \in Parties |-> mask[p].delta][k] = d[k]
    BY <1>2, <1>10
  <2> QED
    BY <1>2, <1>11, <2>1, IsSumSame
<1>12. ASSUME NEW S, IsSum(S, [p \in Parties |-> mask[p].q], G - 1)
       PROVE  IsSum(S, q, G - 1)
  <2>1. \A k \in 0 .. G - 1 : [p \in Parties |-> mask[p].q][k] = q[k]
    BY <1>2, <1>10
  <2> QED
    BY <1>2, <1>12, <2>1, IsSumSame
<1>13. MaskOK(total, sampled[0])
  BY <1>5, <1>7, <1>8, <1>9, <1>10, <1>11, <1>12 DEF MaskOK
<1> QED
  BY <1>5, <1>13

-----------------------------------------------------------------------------

(* Each value of the protocol is below its modulus, and the switched value *)
(* is off by half a unit at most.                                          *)
LEMMA ScaledIs ==
    ASSUME SetupOK, NEW p \in Parties
    PROVE  /\ Scaled(p) \in 0 .. QPrime - 1
           /\ -Q <= 2 * (phase[p] * QPrime - Q * Scaled(p))
           /\ 2 * (phase[p] * QPrime - Q * Scaled(p)) <= Q
<1>1. phase[p] \in 0 .. Q - 1
  BY PhaseAddsUp
<1>2. Q \in Nat \ {0} /\ QPrime \in Nat /\ Q <= QPrime /\ 2 * QPrime <= Word
  BY Moduli
<1> QED
  BY <1>1, <1>2, ScaleRoundScales DEF Scaled

(* A share of the error is the masked value mod Delta'.                    *)
LEMMA ErrorShareIs ==
    ASSUME SetupOK, NEW p \in Parties
    PROVE  /\ ErrorShare(p) \in 0 .. DeltaPrime - 1
           /\ ErrorShare(p) = (Scaled(p) + mask[p].delta) % DeltaPrime
<1>1. DeltaPrime \in Nat \ {0} /\ Half(DeltaPrime)
  BY Moduli
<1>2. mask[p].delta \in 0 .. DeltaPrime - 1
  BY MasksOK DEF MaskOK
<1>3. PICK v \in Int : v = Scaled(p)
  BY ScaledIs
<1>4. v % DeltaPrime \in 0 .. DeltaPrime - 1
  BY <1>1, DivMod
<1>5. /\ ErrorShare(p) \in 0 .. DeltaPrime - 1
      /\ ErrorShare(p) = ((v % DeltaPrime) + mask[p].delta) % DeltaPrime
  <2>1. ErrorShare(p) = AddMod(v % DeltaPrime, mask[p].delta, DeltaPrime)
    BY <1>3 DEF ErrorShare, MaskError
  <2>2. PICK a \in 0 .. DeltaPrime - 1, b \in 0 .. DeltaPrime - 1 :
           a = v % DeltaPrime /\ b = mask[p].delta
    BY <1>2, <1>4
  <2>3. AddMod(a, b, DeltaPrime) \in 0 .. DeltaPrime - 1
    BY <1>1, AddModAdds
  <2>4. AddMod(a, b, DeltaPrime) = (a + b) % DeltaPrime
    BY <1>1, AddModIsMod
  <2> QED
    BY <2>1, <2>2, <2>3, <2>4
<1>6. mask[p].delta \in Int
  BY <1>2
<1>7. ((v % DeltaPrime) + mask[p].delta) % DeltaPrime = (v + mask[p].delta) % DeltaPrime
  BY <1>1, <1>6, ModAdd
<1> QED
  BY <1>3, <1>5, <1>7

(* What is opened is a residue, of the sum of all the switched and masked  *)
(* values.                                                                 *)
LEMMA ErrorsAddUp ==
    ASSUME SetupOK, NEW S, IsSum(S, [p \in Parties |-> Scaled(p) + mask[p].delta], G - 1)
    PROVE  /\ S[G - 1] \in Int
           /\ Aggregated([p \in Parties |-> ErrorShare(p)], DeltaPrime)
                  = S[G - 1] % DeltaPrime
<1> DEFINE n == G - 1
           e == [p \in Parties |-> ErrorShare(p)]
           v == [p \in Parties |-> Scaled(p) + mask[p].delta]
           m == DeltaPrime
<1>1. n \in Nat /\ Parties = 0 .. n /\ m \in Nat \ {0} /\ Half(m)
  BY Moduli
<1>2. \A p \in Parties : e[p] \in 0 .. m - 1 /\ e[p] = v[p] % m
  BY ErrorShareIs
<1>3. \A p \in Parties : v[p] \in Int
  BY ScaledIs, MasksOK DEF MaskOK
<1>4. IsSum(S, v, n)
  OBVIOUS
<1> HIDE DEF e, v, m
<1>5. PICK E : IsSum(E, e, n)
  BY <1>1, <1>2, SumExists
<1>6. Aggregated(e, m) = E[n] % m
  BY <1>1, <1>2, <1>5, AggregatedIs
<1>7. ASSUME NEW k \in 0 .. n PROVE e[k] \in Int /\ v[k] \in Int /\ e[k] % m = v[k] % m
  <2>1. e[k] \in 0 .. m - 1 /\ e[k] = v[k] % m /\ v[k] \in Int
    BY <1>1, <1>2, <1>3
  <2>2. e[k] % m = e[k]
    BY <1>1, <2>1, ModSmall
  <2> QED
    BY <2>1, <2>2
<1>8. \A k \in 0 .. n : E[k] % m = S[k] % m
  BY <1>1, <1>4, <1>5, <1>7, SumModSame
<1>9. S[n] \in Int
  BY <1>1, <1>4, SumType
<1> QED
  BY <1>1, <1>6, <1>8, <1>9 DEF e, m

(* What party 0 opens is below Delta'.                                     *)
LEMMA OpenedIs ==
    ASSUME SetupOK
    PROVE  Opened \in 0 .. DeltaPrime - 1
<1>1. /\ DeltaPrime \in Nat \ {0} /\ Half(DeltaPrime)
      /\ G - 1 \in Nat /\ Parties = 0 .. G - 1
  BY Moduli
<1> DEFINE e == [p \in Parties |-> ErrorShare(p)]
<1>2. \A p \in Parties : e[p] \in 0 .. DeltaPrime - 1
  BY ErrorShareIs
<1> HIDE DEF e
<1>3. PICK E : IsSum(E, e, G - 1)
  BY <1>1, <1>2, SumExists
<1>4. Aggregated(e, DeltaPrime) \in 0 .. DeltaPrime - 1
  BY <1>1, <1>2, <1>3, AggregatedIs
<1>5. Opened = Centred(Aggregated(e, DeltaPrime))
  BY DEF Opened, e
<1>6. \A x \in 0 .. DeltaPrime - 1 : Centred(x) \in 0 .. DeltaPrime - 1
  BY <1>1 DEF Centred, NegMod
<1> QED
  BY <1>4, <1>5, <1>6

(* What a party sends to all the others is below q'.                       *)
LEMMA SentIs ==
    ASSUME SetupOK, NEW p \in Parties
    PROVE  /\ Sent(p) \in 0 .. QPrime - 1
           /\ Sent(p) = (Scaled(p) - (IF p = 0 THEN Opened ELSE 0) + mask[p].q) % QPrime
<1>1. QPrime \in Nat \ {0} /\ Half(QPrime) /\ DeltaPrime <= QPrime /\ DeltaPrime \in Nat
  BY Moduli
<1>2. PICK r \in 0 .. QPrime - 1 : r = mask[p].q
  BY MasksOK DEF MaskOK
<1>3. PICK v \in 0 .. QPrime - 1 : v = Scaled(p)
  BY ScaledIs
<1>4. PICK o \in 0 .. QPrime - 1 : o = IF p = 0 THEN Opened ELSE 0
  <2>1. Opened \in 0 .. QPrime - 1 /\ 0 \in 0 .. QPrime - 1
    BY <1>1, OpenedIs
  <2> QED
    BY <2>1
<1>5. PICK w \in 0 .. QPrime - 1 :
         w = (v - o) % QPrime /\ Sent(p) = AddMod(w, r, QPrime)
  <2>1. CASE p = 0
    <3>1. SubMod(v, o, QPrime) = (v - o) % QPrime
      BY <1>1, SubModIsMod
    <3>2. SubMod(v, o, QPrime) \in 0 .. QPrime - 1
      BY <1>1, SubModSubtracts
    <3>3. Sent(p) = AddMod(SubMod(v, o, QPrime), r, QPrime)
      BY <1>2, <1>3, <1>4, <2>1 DEF Sent
    <3> QED
      BY <3>1, <3>2, <3>3
  <2>2. CASE p # 0
    <3>1. v - o = v /\ v % QPrime = v
      BY <1>1, <1>4, <2>2, ModSmall
    <3>2. Sent(p) = AddMod(v, r, QPrime)
      BY <1>2, <1>3, <2>2 DEF Sent
    <3> QED
      BY <3>1, <3>2
  <2> QED
    BY <2>1, <2>2
<1>6. Sent(p) \in 0 .. QPrime - 1 /\ Sent(p) = (w + r) % QPrime
  BY <1>1, <1>5, AddModIsMod, AddModAdds
<1>7. (((v - o) % QPrime) + r) % QPrime = ((v - o) + r) % QPrime
  <2>1. v - o \in Int /\ r \in Int
    OBVIOUS
  <2> QED
    BY <1>1, <2>1, ModAdd
<1> QED
  BY <1>2, <1>3, <1>4, <1>5, <1>6, <1>7

(* The nearest multiple of Delta' to a residue mod q' is the p-th at most. *)
LEMMA FinalValueIs ==
    ASSUME NEW v \in 0 .. QPrime - 1
    PROVE  /\ FinalValue(v, DeltaPrime) \in 0 .. P
           /\ -DeltaPrime <= 2 * (v - DeltaPrime * FinalValue(v, DeltaPrime))
           /\ 2 * (v - DeltaPrime * FinalValue(v, DeltaPrime)) < DeltaPrime
<1> DEFINE d == DeltaPrime
           f == FinalValue(v, d)
<1>1. /\ d \in Nat \ {0} /\ P \in Nat /\ QPrime = d * P /\ 2 * QPrime <= Word
      /\ QPrime \in Nat /\ d <= QPrime /\ v \in Nat
  BY Moduli
<1> HIDE DEF d
<1>2. v \div d < Word /\ 2 * d <= Word
  <2>1. Word \in Nat
    BY WordAssumption
  <2>2. v \div d \in Int /\ v % d \in 0 .. d - 1 /\ v = d * (v \div d) + (v % d)
    BY <1>1, DivMod
  <2>3. PICK q \in Int : q = v \div d /\ d * q <= v
    BY <1>1, <2>2
  <2>4. q <= v
    <3>1. q >= 1 => d * q >= q
      BY <1>1
    <3> QED
      BY <1>1, <2>3, <3>1
  <2> QED
    BY <1>1, <2>1, <2>3, <2>4
<1>3. /\ f \in Nat /\ -d <= 2 * (v - d * f) /\ 2 * (v - d * f) < d
  BY <1>1, <1>2, RoundedDivIsNearest DEF FinalValue
<1> HIDE DEF f
<1>4. f <= P
  <2>1. f - P \in Int /\ d * (f - P) = d * f - d * P
    BY <1>1, <1>3
  <2>2. f - P >= 1 => d * (f - P) >= d
    BY <1>1, <2>1, MultipleTooLarge
  <2> QED
    BY <1>1, <1>3, <2>1, <2>2
<1> QED
  BY <1>1, <1>3, <1>4 DEF f, d

(* The coefficient is p at most.                                           *)
LEMMA CoefficientIs ==
    ASSUME SetupOK
    PROVE  Coefficient \in 0 .. P
<1>1. QPrime \in Nat \ {0} /\ Half(QPrime) /\ G - 1 \in Nat /\ Parties = 0 .. G - 1
  BY Moduli
<1> DEFINE s == [p \in Parties |-> Sent(p)]
<1>2. \A p \in Parties : s[p] \in 0 .. QPrime - 1
  BY SentIs
<1>3. Coefficient = FinalValue(Aggregated(s, QPrime), DeltaPrime)
  BY DEF Coefficient
<1> HIDE DEF s
<1>4. PICK S : IsSum(S, s, G - 1)
  BY <1>1, <1>2, SumExists
<1>5. Aggregated(s, QPrime) \in 0 .. QPrime - 1
  BY <1>1, <1>2, <1>4, AggregatedIs
<1> QED
  BY <1>3, <1>5, FinalValueIs

(* Every value stays below the modulus it is of, although the fast path    *)
(* takes the modulus off once at most and never reduces what it scales; the *)
(* coefficient may be p itself.                                            *)
THEOREM TypeCorrect == Spec => []TypeOK
<1>1. ASSUME IInv PROVE TypeOK
  <2>1. SetupOK
    BY <1>1 DEF IInv
  <2>2. /\ msg \in 0 .. P - 1 /\ noise \in Noises
        /\ phase \in [Parties -> 0 .. Q - 1]
        /\ mask \in [Parties -> [delta : 0 .. DeltaPrime - 1, q : 0 .. QPrime - 1]]
    BY <2>1, PhaseAddsUp, MasksOK DEF MaskOK
  <2>3. QPrime \in Nat \ {0} /\ DeltaPrime \in Nat \ {0} /\ P \in Nat
    BY Moduli
  <2>4. ASSUME NEW p \in Parties
        PROVE  /\ value[p] \in 0 .. QPrime - 1 /\ error[p] \in 0 .. DeltaPrime - 1
               /\ gathered[p] \in [Parties -> 0 .. QPrime - 1] /\ result[p] \in -1 .. P
    <3>1. ValueOK(p) /\ ErrorOK(p) /\ ResultOK(p)
      BY <1>1 DEF IInv
    <3>2. value[p] \in {0, Scaled(p), Sent(p)} /\ error[p] \in {0, Opened, ErrorShare(p)}
      BY <3>1 DEF ValueOK, ErrorOK
    <3>3. \A q \in Parties : Sent(q) \in 0 .. QPrime - 1 /\ Scaled(q) \in 0 .. QPrime - 1
      BY <2>1, SentIs, ScaledIs
    <3>4. Opened \in 0 .. DeltaPrime - 1 /\ ErrorShare(p) \in 0 .. DeltaPrime - 1
      BY <2>1, OpenedIs, ErrorShareIs
    <3>5. 0 \in 0 .. QPrime - 1 /\ 0 \in 0 .. DeltaPrime - 1
      BY <2>3
    <3>6. gathered[p] \in [Parties -> 0 .. QPrime - 1]
      BY <3>1, <3>3, <3>5 DEF ResultOK
    <3>7. result[p] \in -1 .. P
      BY <2>1, <2>3, <3>1, CoefficientIs DEF ResultOK
    <3> QED
      BY <3>2, <3>3, <3>4, <3>5, <3>6, <3>7
  <2>5. /\ value \in [Parties -> 0 .. QPrime - 1]
        /\ error \in [Parties -> 0 .. DeltaPrime - 1]
    BY <1>1, <2>4 DEF IInv
  <2>6. gathered \in [Parties -> [Parties -> 0 .. QPrime - 1]]
    BY <1>1, <2>4 DEF IInv
  <2>7. result \in [Parties -> -1 .. P]
    BY <1>1, <2>4 DEF IInv
  <2> QED
    BY <1>1, <2>2, <2>5, <2>6, <2>7 DEF IInv, TypeOK
<1> QED
  BY Invariance, <1>1, PTL

(* What a party sends to all others is its switched value masked mod q',   *)
(* in one word.                                                            *)
THEOREM MasksModQPrime == Spec => []MaskedModQPrime
<1>1. ASSUME IInv PROVE MaskedModQPrime
  <2> SUFFICES ASSUME NEW p \in Parties \ {0}, pc[p] \in Sending
               PROVE  value[p] = (ScaleRound(phase[p], Q, QPrime) + mask[p].q) % QPrime
    BY DEF MaskedModQPrime, Sending
  <2>1. SetupOK /\ value[p] = Sent(p)
    BY <1>1 DEF IInv, ValueOK, Sending
  <2>2. Scaled(p) \in Int
    BY <2>1, ScaledIs
  <2>3. Sent(p) = (Scaled(p) - 0 + mask[p].q) % QPrime
    BY <2>1, SentIs
  <2>4. Scaled(p) - 0 = Scaled(p)
    BY <2>2
  <2> QED
    BY <2>1, <2>3, <2>4 DEF Scaled
<1> QED
  BY Invariance, <1>1, PTL

-----------------------------------------------------------------------------

(* How far the sum V of the switched shares, masked with r, is from        *)
(* d msg: F is the sum of the shares of the phase, R what rounding makes   *)
(* of it, q = p c + t and q' = d p.                                        *)
LEMMA DistanceIs ==
    ASSUME NEW q \in Int, NEW qp \in Int, NEW d \in Int, NEW p \in Int, NEW c \in Int,
           NEW t \in Int, NEW x \in Int, NEW y \in Int, NEW r \in Int, NEW j \in Int,
           NEW F \in Int, NEW V \in Int, NEW R \in Int,
           q = p * c + t, qp = d * p, F = c * y + x + q * j,
           R = (2 * qp) * F + (-(2 * q)) * V
    PROVE  4 * (q * (V + r - d * y - qp * j))
               = 4 * (qp * x) + 4 * (q * r) - 4 * (d * (t * y)) - 2 * R
<1>1. qp * F = qp * (c * y) + qp * x + qp * (q * j)
  OBVIOUS
<1>2. qp * (c * y) = d * (q * y) - d * (t * y)
  <2>1. p * (c * y) = q * y - t * y
    OBVIOUS
  <2>2. qp * (c * y) = d * (p * (c * y))
    OBVIOUS
  <2>3. PICK u \in Int, v \in Int : u = q * y /\ v = t * y
    OBVIOUS
  <2>4. d * (u - v) = d * u - d * v
    OBVIOUS
  <2> QED
    BY <2>1, <2>2, <2>3, <2>4
<1>3. q * (V + r - d * y - qp * j) = q * V + q * r - q * (d * y) - q * (qp * j)
  <2>1. PICK u \in Int, v \in Int : u = d * y /\ v = qp * j
    OBVIOUS
  <2>2. q * (V + r - u - v) = q * V + q * r - q * u - q * v
    OBVIOUS
  <2> QED
    BY <2>1, <2>2
<1>4. q * (d * y) = d * (q * y) /\ q * (qp * j) = qp * (q * j)
  OBVIOUS
<1>5. R = 2 * (qp * F) - 2 * (q * V)
  OBVIOUS
<1>6. PICK a1 \in Int, a2 \in Int, a3 \in Int, a4 \in Int, a5 \in Int, a6 \in Int,
           a7 \in Int :
         /\ a1 = qp * F /\ a2 = qp * x /\ a3 = qp * (q * j) /\ a4 = d * (q * y)
         /\ a5 = d * (t * y) /\ a6 = q * V /\ a7 = q * r
  OBVIOUS
<1>7. a1 = (a4 - a5) + a2 + a3
  BY <1>1, <1>2, <1>6
<1>8. q * (V + r - d * y - qp * j) = a6 + a7 - a4 - a3
  BY <1>3, <1>4, <1>6
<1>9. R = 2 * a1 - 2 * a6
  BY <1>5, <1>6
<1>10. 4 * (a6 + a7 - a4 - a3) = 4 * a2 + 4 * a7 - 4 * a5 - 2 * R
  BY <1>7, <1>9
<1> QED
  BY <1>6, <1>8, <1>10

(* The noise assumption, for the noise x, the sampled total r, the number  *)
(* s sampled by party 0 and the coefficient y.                             *)
LEMMA NoiseLeaves ==
    ASSUME NEW x \in Noises, NEW r \in Masks, NEW s \in Masks, NEW y \in 0 .. P - 1,
           NEW R \in Int, -(Q * G) <= R, R <= Q * G, NEW e \in Int,
           4 * (Q * e) = 4 * (QPrime * x) + 4 * (Q * r)
                         - 4 * (DeltaPrime * ((Q % P) * y)) - 2 * R
    PROVE  /\ 4 * e + 2 * s < DeltaPrime /\ 4 * e - 2 * s < DeltaPrime
           /\ -DeltaPrime < 4 * e + 2 * s /\ -DeltaPrime < 4 * e - 2 * s
<1> DEFINE Abs(z) == IF z < 0 THEN -z ELSE z
<1>1. /\ Q \in Nat \ {0} /\ P \in Nat \ {0} /\ QPrime \in Nat /\ DeltaPrime \in Nat
      /\ G \in Nat
  BY Moduli
<1>2. x \in Int /\ r \in Int /\ s \in Int
  BY DistDecryptAssumption
<1>3. 4 * (QPrime * Abs(x) + Q * Abs(r) + DeltaPrime * ((Q % P) * (P - 1)))
          + 2 * (Q * G) + 2 * (Q * Abs(s)) < Q * DeltaPrime
  BY NoiseAssumption
<1>4. PICK t \in Nat : t = Q % P
  <2>1. Q \in Int
    BY <1>1
  <2>2. Q % P \in 0 .. P - 1
    BY <1>1, <2>1, DivMod
  <2> QED
    BY <1>1, <2>2
<1>5. PICK X \in Int, XA \in Int : /\ X = QPrime * x /\ XA = QPrime * Abs(x)
                                   /\ -XA <= X /\ X <= XA
  BY <1>1, <1>2
<1>6. PICK B \in Int, BA \in Int : /\ B = Q * r /\ BA = Q * Abs(r)
                                   /\ -BA <= B /\ B <= BA
  BY <1>1, <1>2
<1>7. PICK S \in Int, SA \in Int : /\ S = Q * s /\ SA = Q * Abs(s)
                                   /\ -SA <= S /\ S <= SA
  BY <1>1, <1>2
<1>8. PICK D \in Int, DA \in Int :
         /\ D = DeltaPrime * (t * y) /\ DA = DeltaPrime * (t * (P - 1))
         /\ 0 <= D /\ D <= DA
  <2>1. PICK a \in Nat, b \in Nat : a = t * y /\ b = t * (P - 1) - t * y
    <3>1. t * (P - 1) - t * y = t * (P - 1 - y) /\ t * y \in Nat /\ P - 1 - y \in Nat
      BY <1>1
    <3> QED
      BY <3>1
  <2>2. DeltaPrime * a \in Nat /\ DeltaPrime * b \in Nat
    BY <1>1
  <2>3. t * (P - 1) = a + b /\ DeltaPrime * (a + b) = DeltaPrime * a + DeltaPrime * b
    BY <1>1, <2>1
  <2> QED
    BY <2>1, <2>2, <2>3
<1>9. PICK g \in Int, E \in Int, M \in Int : g = Q * G /\ E = Q * e /\ M = Q * DeltaPrime
  BY <1>1
<1>10. 4 * (XA + BA + DA) + 2 * g + 2 * SA < M
  BY <1>3, <1>4, <1>5, <1>6, <1>7, <1>8, <1>9
<1>11. 4 * E = 4 * X + 4 * B - 4 * D - 2 * R /\ -g <= R /\ R <= g
  BY <1>4, <1>5, <1>6, <1>8, <1>9
<1>12. /\ 4 * E + 2 * S < M /\ 4 * E - 2 * S < M
       /\ -M < 4 * E + 2 * S /\ -M < 4 * E - 2 * S
  BY <1>5, <1>6, <1>7, <1>8, <1>9, <1>10, <1>11
<1>13. ASSUME NEW z \in Int, Q * z < Q * DeltaPrime PROVE z < DeltaPrime
  <2>1. Q * (z - DeltaPrime) = Q * z - Q * DeltaPrime /\ z - DeltaPrime \in Int
    BY <1>1
  <2>2. z - DeltaPrime >= 0 => Q * (z - DeltaPrime) >= 0
    BY <1>1, <2>1
  <2> QED
    BY <1>1, <1>13, <2>1, <2>2
<1>14. /\ Q * (4 * e + 2 * s) = 4 * E + 2 * S /\ Q * (4 * e - 2 * s) = 4 * E - 2 * S
       /\ Q * (-(4 * e + 2 * s)) = -(4 * E + 2 * S)
       /\ Q * (-(4 * e - 2 * s)) = -(4 * E - 2 * S)
  BY <1>1, <1>2, <1>7, <1>9
<1>15. /\ Q * (4 * e + 2 * s) < Q * DeltaPrime /\ Q * (4 * e - 2 * s) < Q * DeltaPrime
       /\ Q * (-(4 * e + 2 * s)) < Q * DeltaPrime
       /\ Q * (-(4 * e - 2 * s)) < Q * DeltaPrime
  BY <1>9, <1>12, <1>14
<1>16. 4 * e + 2 * s \in Int /\ 4 * e - 2 * s \in Int
  BY <1>2
<1>17. /\ 4 * e + 2 * s < DeltaPrime /\ 4 * e - 2 * s < DeltaPrime
       /\ -(4 * e + 2 * s) < DeltaPrime /\ -(4 * e - 2 * s) < DeltaPrime
  BY <1>13, <1>15, <1>16
<1> QED
  BY <1>1, <1>16, <1>17

(* e is the error of the protocol: the distance of the masked sum of the   *)
(* switched values from Delta' msg, mod q'.                                *)
IsError(e, V, total, first) ==
    /\ e \in Int
    /\ \E j \in Int : V + total = DeltaPrime * msg + QPrime * j + e
    /\ 4 * e + 2 * first < DeltaPrime /\ 4 * e - 2 * first < DeltaPrime
    /\ -DeltaPrime < 4 * e + 2 * first /\ -DeltaPrime < 4 * e - 2 * first

(* There is such an error: rounding, noise and masks are all in it.        *)
LEMMA ErrorIsSmall ==
    ASSUME SetupOK, NEW total \in Masks, NEW first \in Masks,
           NEW V, IsSum(V, [p \in Parties |-> Scaled(p)], G - 1)
    PROVE  \E e : IsError(e, V[G - 1], total, first)
<1> DEFINE n == G - 1
           v == [p \in Parties |-> Scaled(p)]
           a == 2 * QPrime
           b == -(2 * Q)
           h == [p \in Parties |-> a * phase[p] + b * v[p]]
<1>1. /\ n \in Nat /\ n + 1 = G /\ Parties = 0 .. n /\ P \in Nat \ {0} /\ Q \in Nat \ {0}
      /\ QPrime \in Nat /\ DeltaPrime \in Nat /\ QPrime = DeltaPrime * P
  BY Moduli
<1>2. /\ msg \in 0 .. P - 1 /\ noise \in Noises /\ noise \in Int
      /\ phase \in [Parties -> 0 .. Q - 1]
      /\ \A S : IsSum(S, phase, n) => S[n] % Q = ((Q \div P) * msg + noise) % Q
  BY PhaseAddsUp
<1>3. /\ \A k \in 0 .. n : phase[k] \in Int /\ v[k] \in Int
      /\ IsSum(V, v, n) /\ a \in Int /\ b \in Int
  BY <1>1, <1>2, ScaledIs
<1>4. \A k \in 0 .. n : h[k] = a * phase[k] + b * v[k] /\ h[k] \in Int
  BY <1>1, <1>3
<1>5. \A k \in 0 .. n : -Q <= h[k] /\ h[k] <= Q
  <2> SUFFICES ASSUME NEW k \in 0 .. n PROVE -Q <= h[k] /\ h[k] <= Q
    OBVIOUS
  <2>1. v[k] = Scaled(k) /\ h[k] = a * phase[k] + b * v[k]
    BY <1>1
  <2>2. /\ -Q <= 2 * (phase[k] * QPrime - Q * v[k])
        /\ 2 * (phase[k] * QPrime - Q * v[k]) <= Q
    BY <1>1, <2>1, ScaledIs
  <2>3. PICK x \in Int, y \in Int : x = phase[k] /\ y = v[k]
    BY <1>3
  <2>4. 2 * (x * QPrime - Q * y) = a * x + b * y
    BY <1>1
  <2> QED
    BY <2>1, <2>2, <2>3, <2>4
<1>6. Combines(h, a, phase, b, v, n)
  BY <1>4 DEF Combines
<1> HIDE DEF v, h, a, b
<1>7. PICK F, R : IsSum(F, phase, n) /\ IsSum(R, h, n)
  BY <1>1, <1>3, <1>4, SumExists
<1>8. R[n] = a * F[n] + b * V[n]
  BY <1>1, <1>3, <1>6, <1>7, SumLinear
<1>9. F[n] \in Int /\ V[n] \in Int /\ R[n] \in Int
  BY <1>1, <1>3, <1>7, SumType
<1>10. -(Q * G) <= R[n] /\ R[n] <= Q * G
  <2>1. Q \in Nat /\ \A k \in 0 .. n : h[k] \in Int /\ -Q <= h[k] /\ h[k] <= Q
    BY <1>1, <1>4, <1>5
  <2>2. \A k \in 0 .. n : -(Q * (k + 1)) <= R[k] /\ R[k] <= Q * (k + 1)
    BY <1>1, <1>7, <2>1, SumBound
  <2>3. n \in 0 .. n
    BY <1>1
  <2> QED
    BY <1>1, <2>2, <2>3
<1>11. PICK c \in Int, t \in Int : c = Q \div P /\ t = Q % P /\ Q = P * c + t
  <2>1. Q \in Int
    BY <1>1
  <2>2. /\ Q % P \in 0 .. P - 1 /\ Q \div P \in Int
        /\ Q = P * (Q \div P) + (Q % P)
    BY <1>1, <2>1, DivMod
  <2>3. Q % P \in Int
    BY <2>2
  <2> QED
    BY <2>2, <2>3
<1>12. PICK j \in Int : F[n] = c * msg + noise + Q * j
  <2>1. F[n] % Q = (c * msg + noise) % Q
    BY <1>2, <1>7, <1>11
  <2>2. c * msg + noise \in Int
    BY <1>2
  <2> QED
    BY <1>1, <1>9, <2>1, <2>2, ModSame
<1> DEFINE e == V[n] + total - DeltaPrime * msg - QPrime * j
<1>13. total \in Int /\ first \in Int /\ msg \in Int
  BY <1>2, DistDecryptAssumption
<1>14. e \in Int /\ V[n] + total = DeltaPrime * msg + QPrime * j + e
  BY <1>1, <1>9, <1>13
<1>15. 4 * (Q * e) = 4 * (QPrime * noise) + 4 * (Q * total)
                     - 4 * (DeltaPrime * (t * msg)) - 2 * R[n]
  <2>1. R[n] = (2 * QPrime) * F[n] + (-(2 * Q)) * V[n]
    BY <1>8 DEF a, b
  <2>2. Q \in Int /\ QPrime \in Int /\ DeltaPrime \in Int /\ P \in Int
    BY <1>1
  <2>3. Q = P * c + t /\ QPrime = DeltaPrime * P
    BY <1>1, <1>11
  <2>4. noise \in Int
    BY <1>2
  <2>5. 4 * (Q * (V[n] + total - DeltaPrime * msg - QPrime * j))
            = 4 * (QPrime * noise) + 4 * (Q * total)
              - 4 * (DeltaPrime * (t * msg)) - 2 * R[n]
    BY <1>9, <1>12, <1>13, <2>1, <2>2, <2>3, <2>4, DistanceIs
  <2> QED
    BY <2>5
<1> HIDE DEF e
<1>16. /\ 4 * e + 2 * first < DeltaPrime /\ 4 * e - 2 * first < DeltaPrime
       /\ -DeltaPrime < 4 * e + 2 * first /\ -DeltaPrime < 4 * e - 2 * first
  BY <1>2, <1>9, <1>10, <1>11, <1>14, <1>15, NoiseLeaves
<1>17. IsError(e, V[n], total, first)
  BY <1>14, <1>16 DEF IsError
<1> QED
  BY <1>17

(* Centring a small number's residue gives its size.                       *)
LEMMA CentredIs ==
    ASSUME NEW e \in Int, 4 * e < DeltaPrime, -DeltaPrime < 4 * e
    PROVE  /\ Centred(e % DeltaPrime) = IF e < 0 THEN -e ELSE e
           /\ Centred(e % DeltaPrime) <= DeltaPrime \div 4
<1> DEFINE d == DeltaPrime
<1>1. d \in Nat \ {0}
  BY Moduli
<1> HIDE DEF d
<1>2. PICK h \in Int : h = d \div 2 /\ 2 * h <= d /\ d <= 2 * h + 1
  BY <1>1
<1>3. PICK k \in Int : k = d \div 4 /\ 4 * k <= d /\ d <= 4 * k + 3
  BY <1>1
<1>4. CASE e >= 0
  <2>1. e \in 0 .. d - 1
    BY <1>1, <1>4 DEF d
  <2>2. e % d = e
    BY <1>1, <2>1, ModSmall
  <2>3. Centred(e % d) = e
    <3>1. CASE e >= h
      <4>1. e = 0
        BY <1>1, <1>2, <1>4, <3>1 DEF d
      <4> QED
        BY <1>1, <1>2, <2>2, <3>1, <4>1 DEF Centred, NegMod, d
    <3>2. CASE e < h
      BY <1>2, <2>2, <3>2 DEF Centred, d
    <3> QED
      BY <1>2, <3>1, <3>2
  <2>4. e <= k
    BY <1>1, <1>3, <1>4 DEF d
  <2> QED
    BY <1>3, <1>4, <2>3, <2>4 DEF d
<1>5. CASE e < 0
  <2>1. d + e \in 0 .. d - 1 /\ d + e # 0 /\ d + e >= h
    BY <1>1, <1>2, <1>5 DEF d
  <2>2. e % d = d + e
    <3>1. d + e \in Int /\ (d + e) % d = d + e
      BY <1>1, <2>1, ModSmall
    <3>2. PICK one \in Int : d + e = e + d * one
      BY <1>1
    <3>3. (e + d * one) % d = e % d
      BY <1>1, ModShift
    <3> QED
      BY <3>1, <3>2, <3>3
  <2>3. Centred(e % d) = -e
    <3>1. Centred(d + e) = NegMod(d + e, d)
      BY <1>2, <2>1 DEF Centred, d
    <3>2. NegMod(d + e, d) = d - (d + e)
      BY <2>1 DEF NegMod
    <3> QED
      BY <1>1, <2>2, <3>1, <3>2
  <2>4. -e <= k
    BY <1>1, <1>3, <1>5 DEF d
  <2> QED
    BY <1>3, <1>5, <2>3, <2>4 DEF d
<1> QED
  BY <1>4, <1>5

(* Running sums of the switched values and of both masks of all parties.   *)
Sums(V, D, M) ==
    /\ IsSum(V, [p \in Parties |-> Scaled(p)], G - 1)
    /\ IsSum(D, [p \in Parties |-> mask[p].delta], G - 1)
    /\ IsSum(M, [p \in Parties |-> mask[p].q], G - 1)

(* There are such sums.                                                    *)
LEMMA SumsExist ==
    ASSUME SetupOK
    PROVE  \E V, D, M : Sums(V, D, M)
<1>1. G - 1 \in Nat /\ Parties = 0 .. G - 1
  BY Moduli
<1> DEFINE v == [p \in Parties |-> Scaled(p)]
           d == [p \in Parties |-> mask[p].delta]
           m == [p \in Parties |-> mask[p].q]
<1>2. \A k \in 0 .. G - 1 : v[k] \in Int
  BY <1>1, ScaledIs
<1>3. \A k \in 0 .. G - 1 : d[k] \in Int /\ m[k] \in Int
  BY <1>1, MasksOK DEF MaskOK
<1> HIDE DEF v, d, m
<1>4. PICK V, D, M : IsSum(V, v, G - 1) /\ IsSum(D, d, G - 1) /\ IsSum(M, m, G - 1)
  BY <1>1, <1>2, <1>3, SumExists
<1>5. Sums(V, D, M)
  BY <1>4 DEF Sums, v, d, m
<1> QED
  BY <1>5

(* What party 0 opens is the size of the error.                            *)
LEMMA OpensError ==
    ASSUME SetupOK, NEW total \in Masks, NEW first \in Masks, MaskOK(total, first),
           NEW V, NEW D, NEW M, Sums(V, D, M),
           NEW e, IsError(e, V[G - 1], total, first)
    PROVE  /\ Opened = IF e < 0 THEN -e ELSE e
           /\ Opened <= DeltaPrime \div 4
           /\ \A S : IsSum(S, [p \in Parties |-> Scaled(p) + mask[p].delta], G - 1) =>
                  Opened = Centred(S[G - 1] % DeltaPrime)
<1> DEFINE n == G - 1
           v == [p \in Parties |-> Scaled(p)]
           d == [p \in Parties |-> mask[p].delta]
           h == [p \in Parties |-> Scaled(p) + mask[p].delta]
<1>1. /\ n \in Nat /\ Parties = 0 .. n /\ DeltaPrime \in Nat \ {0} /\ P \in Int
      /\ QPrime = DeltaPrime * P
  BY Moduli
<1>2. \A k \in 0 .. n : /\ v[k] \in Int /\ d[k] \in Int /\ h[k] \in Int
                         /\ h[k] = v[k] + d[k]
  <2> SUFFICES ASSUME NEW k \in 0 .. n
               PROVE  v[k] \in Int /\ d[k] \in Int /\ h[k] \in Int /\ h[k] = v[k] + d[k]
    OBVIOUS
  <2>1. v[k] = Scaled(k) /\ d[k] = mask[k].delta /\ h[k] = Scaled(k) + mask[k].delta
    BY <1>1
  <2>2. Scaled(k) \in Int
    BY <1>1, ScaledIs
  <2>3. mask[k].delta \in Int
    BY <1>1 DEF MaskOK
  <2> QED
    BY <2>1, <2>2, <2>3
<1>3. IsSum(V, v, n) /\ IsSum(D, d, n) /\ D[n] % DeltaPrime = total % DeltaPrime
  BY DEF Sums, MaskOK
<1>4. \A S : IsSum(S, h, n) => Opened = Centred(S[n] % DeltaPrime)
  BY ErrorsAddUp DEF Opened
<1> HIDE DEF v, d, h
<1>5. PICK S : IsSum(S, h, n)
  BY <1>1, <1>2, SumExists
<1>6. /\ S[n] = V[n] + D[n]
      /\ V[n] \in Int /\ D[n] \in Int /\ total \in Int /\ first \in Int /\ msg \in Int
  <2>1. S[n] = V[n] + D[n]
    <3>1. \A k \in 0 .. n : v[k] \in Int /\ d[k] \in Int /\ h[k] = v[k] + d[k]
      BY <1>2
    <3>2. n \in Nat /\ IsSum(V, v, n) /\ IsSum(D, d, n) /\ IsSum(S, h, n)
      BY <1>1, <1>3, <1>5
    <3> HIDE DEF n
    <3> QED
      BY <3>1, <3>2, SumPlus
  <2>2. V[n] \in Int /\ D[n] \in Int
    BY <1>1, <1>3, SumType
  <2>3. total \in Int /\ first \in Int /\ msg \in Int
    BY PhaseAddsUp, DistDecryptAssumption
  <2> QED
    BY <2>1, <2>2, <2>3
<1>7. PICK j \in Int : V[n] + total = DeltaPrime * msg + QPrime * j + e
  BY DEF IsError
<1>8. e \in Int /\ 4 * e < DeltaPrime /\ -DeltaPrime < 4 * e
  BY <1>1, <1>6 DEF IsError
<1>9. S[n] % DeltaPrime = e % DeltaPrime
  <2>1. (V[n] + (D[n] % DeltaPrime)) % DeltaPrime = (V[n] + D[n]) % DeltaPrime
    BY <1>1, <1>6, ModAdd
  <2>2. (V[n] + (total % DeltaPrime)) % DeltaPrime = (V[n] + total) % DeltaPrime
    BY <1>1, <1>6, ModAdd
  <2>3. PICK k \in Int : k = msg + P * j
    BY <1>1, <1>6
  <2>4. V[n] + total = e + DeltaPrime * k
    <3>1. DeltaPrime * (msg + P * j) = DeltaPrime * msg + (DeltaPrime * P) * j
      BY <1>1, <1>6
    <3> QED
      BY <1>1, <1>6, <1>7, <1>8, <2>3, <3>1
  <2>5. (e + DeltaPrime * k) % DeltaPrime = e % DeltaPrime
    BY <1>1, <1>8, ModShift
  <2> QED
    BY <1>3, <1>6, <2>1, <2>2, <2>4, <2>5
<1>10. Opened = Centred(e % DeltaPrime)
  BY <1>4, <1>5, <1>9
<1>11. /\ Centred(e % DeltaPrime) = IF e < 0 THEN -e ELSE e
       /\ Centred(e % DeltaPrime) <= DeltaPrime \div 4
  BY <1>8, CentredIs
<1> QED
  BY <1>4, <1>10, <1>11 DEF h

(* What is less than half of Delta' away from Delta' msg rounds to msg, or *)
(* to p when msg is 0 and it is below.                                     *)
LEMMA RoundsToMsg ==
    ASSUME NEW y \in 0 .. P - 1, NEW x \in Int, -DeltaPrime < 2 * x, 2 * x < DeltaPrime
    PROVE  FinalValue((DeltaPrime * y + x) % QPrime, DeltaPrime) % P = y
<1> DEFINE d == DeltaPrime
           w == (DeltaPrime * y + x) % QPrime
<1>1. /\ d \in Nat \ {0} /\ P \in Nat \ {0} /\ QPrime \in Nat \ {0} /\ QPrime = d * P
  BY Moduli
<1>2. \E l \in {y, P} : w = d * l + x /\ (l = P => y = 0)
  <2>1. PICK k \in Nat : k = d * y /\ k + d <= QPrime
    <3>1. P - 1 - y \in Nat /\ d * (P - 1 - y) \in Nat
      BY <1>1
    <3>2. d * P = d * y + d + d * (P - 1 - y)
      BY <1>1
    <3>3. d * y \in Nat
      BY <1>1
    <3> QED
      BY <1>1, <3>1, <3>2, <3>3
  <2>2. CASE k + x >= 0
    <3>1. k + x \in 0 .. QPrime - 1
      BY <1>1, <2>1, <2>2 DEF d
    <3>2. (k + x) % QPrime = k + x
      BY <1>1, <3>1, ModSmall
    <3>3. w = d * y + x
      BY <2>1, <3>2 DEF d
    <3>4. y # P
      BY <1>1
    <3> QED
      BY <3>3, <3>4
  <2>3. CASE k + x < 0
    <3>1. y = 0
      <4>1. y >= 1 => d * y >= d
        BY <1>1
      <4> QED
        BY <1>1, <2>1, <2>3, <4>1 DEF d
    <3>2. k = 0
      BY <1>1, <2>1, <3>1
    <3>3. QPrime + x \in 0 .. QPrime - 1
      BY <1>1, <2>1, <2>3, <3>2 DEF d
    <3>4. PICK one \in Int : one = 1
      OBVIOUS
    <3>5. x + QPrime * one = QPrime + x
      BY <1>1, <3>4
    <3>6. (x + QPrime * one) % QPrime = x % QPrime
      BY <1>1, ModShift
    <3>7. (QPrime + x) % QPrime = QPrime + x
      BY <1>1, <3>3, ModSmall
    <3>8. k + x = x
      BY <3>2
    <3>9. w = QPrime + x
      BY <2>1, <3>5, <3>6, <3>7, <3>8 DEF d
    <3> QED
      BY <1>1, <3>1, <3>9
  <2> QED
    BY <2>1, <2>2, <2>3
<1>3. PICK l \in Int : w = d * l + x /\ (l = y \/ (l = P /\ y = 0))
  BY <1>1, <1>2
<1>4. w \in 0 .. QPrime - 1
  <2>1. DeltaPrime * y + x \in Int
    BY <1>1 DEF d
  <2> QED
    BY <1>1, <2>1, DivMod
<1> HIDE DEF w
<1>5. PICK f \in Int : /\ f = FinalValue(w, d)
                       /\ -d <= 2 * (w - d * f) /\ 2 * (w - d * f) < d
  BY <1>4, FinalValueIs DEF d
<1>6. w \in Int /\ -d < 2 * (w - d * l) /\ 2 * (w - d * l) < d
  <2>1. d * l \in Int
    BY <1>1
  <2> QED
    BY <1>3, <1>4, <2>1 DEF d
<1> HIDE DEF d
<1>7. f = l
  BY <1>1, <1>5, <1>6, NearestUnique
<1>8. P % P = 0 /\ y % P = y
  <2>1. y % P = y
    BY <1>1, ModSmall
  <2>2. PICK one \in Int, zero \in Int : one = 1 /\ zero = 0
    OBVIOUS
  <2>3. (zero + P * one) % P = zero % P
    BY <1>1, ModShift
  <2>4. zero + P * one = P /\ zero % P = 0
    BY <1>1, <2>2
  <2> QED
    BY <2>1, <2>3, <2>4
<1>9. f % P = y
  BY <1>3, <1>7, <1>8
<1> QED
  BY <1>5, <1>9 DEF w, d

(* The masked values, o taken off party 0's, and what they add up to.      *)
MaskedLess(s, o) ==
    \A p \in Parties :
        /\ s[p] \in 0 .. QPrime - 1
        /\ s[p] = (Scaled(p) - (IF p = 0 THEN o ELSE 0) + mask[p].q) % QPrime

(* They add up to Delta' msg, but for the error.                           *)
LEMMA AggregatesToMsg ==
    ASSUME SetupOK, NEW total \in Masks, NEW first \in Masks, MaskOK(total, first),
           NEW V, NEW D, NEW M, Sums(V, D, M),
           NEW e, IsError(e, V[G - 1], total, first),
           NEW o \in Int, NEW s, MaskedLess(s, o)
    PROVE  Aggregated(s, QPrime) = (DeltaPrime * msg + (e - o)) % QPrime
<1> DEFINE n == G - 1
           v == [p \in Parties |-> Scaled(p)]
           m == [p \in Parties |-> mask[p].q]
           h == [p \in Parties |-> Scaled(p) - (IF p = 0 THEN o ELSE 0) + mask[p].q]
           T == [k \in 0 .. n |-> V[k] + M[k] - o]
<1>1. /\ n \in Nat /\ Parties = 0 .. n /\ QPrime \in Nat \ {0} /\ Half(QPrime)
      /\ DeltaPrime \in Nat /\ 0 \in 0 .. n
  BY Moduli
<1>2. \A k \in 0 .. n : v[k] \in Int /\ m[k] \in Int
  <2> SUFFICES ASSUME NEW k \in 0 .. n PROVE v[k] \in Int /\ m[k] \in Int
    OBVIOUS
  <2>1. v[k] = Scaled(k) /\ m[k] = mask[k].q
    BY <1>1
  <2>2. Scaled(k) \in Int
    BY <1>1, ScaledIs
  <2>3. mask[k].q \in Int
    BY <1>1 DEF MaskOK
  <2> QED
    BY <2>1, <2>2, <2>3
<1>3. \A k \in 0 .. n : h[k] = v[k] - (IF k = 0 THEN o ELSE 0) + m[k] /\ h[k] \in Int
  BY <1>1, <1>2
<1>4. IsSum(V, v, n) /\ IsSum(M, m, n) /\ M[n] % QPrime = total % QPrime
  BY DEF Sums, MaskOK
<1>5. \A k \in 0 .. n : s[k] \in 0 .. QPrime - 1 /\ s[k] = h[k] % QPrime
  BY <1>1 DEF MaskedLess
<1> HIDE DEF v, m, h
<1>6. \A k \in 0 .. n : V[k] \in Int /\ M[k] \in Int
  BY <1>1, <1>4, SumType
<1>7. T \in [0 .. n -> Int] /\ \A k \in 0 .. n : T[k] = V[k] + M[k] - o
  BY <1>6
<1> HIDE DEF T
<1>8. IsSum(T, h, n)
  <2>1. T[0] = h[0]
    <3>1. V[0] = v[0] /\ M[0] = m[0]
      BY <1>4 DEF IsSum
    <3>2. PICK a \in Int, b \in Int : a = v[0] /\ b = m[0]
      BY <1>1, <1>2
    <3>3. h[0] = a - o + b
      BY <1>1, <1>3, <3>2
    <3>4. T[0] = a + b - o
      BY <1>1, <1>7, <3>1, <3>2
    <3> QED
      BY <3>2, <3>3, <3>4
  <2>2. ASSUME NEW k \in 1 .. n PROVE T[k] = T[k - 1] + h[k]
    <3>1. k - 1 \in 0 .. n /\ k \in 0 .. n /\ k # 0
      BY <1>1
    <3>2. V[k] = V[k - 1] + v[k] /\ M[k] = M[k - 1] + m[k]
      BY <1>4 DEF IsSum
    <3>3. PICK a \in Int, b \in Int, x \in Int, y \in Int :
             a = V[k - 1] /\ b = M[k - 1] /\ x = v[k] /\ y = m[k]
      BY <1>2, <1>6, <3>1
    <3>4. h[k] = x - 0 + y
      BY <1>3, <3>1, <3>3
    <3>5. T[k] = (a + x) + (b + y) - o /\ T[k - 1] = a + b - o
      BY <1>7, <3>1, <3>2, <3>3
    <3> QED
      BY <3>4, <3>5
  <2> QED
    BY <1>7, <2>1, <2>2 DEF IsSum
<1>9. PICK S : IsSum(S, s, n)
  BY <1>1, <1>5, SumExists
<1>10. Aggregated(s, QPrime) = S[n] % QPrime
  BY <1>1, <1>5, <1>9, AggregatedIs
<1>11. S[n] % QPrime = T[n] % QPrime
  <2>1. ASSUME NEW k \in 0 .. n
        PROVE  s[k] \in Int /\ h[k] \in Int /\ s[k] % QPrime = h[k] % QPrime
    <3>1. s[k] \in 0 .. QPrime - 1 /\ s[k] = h[k] % QPrime /\ h[k] \in Int
      BY <1>3, <1>5
    <3>2. s[k] % QPrime = s[k]
      BY <1>1, <3>1, ModSmall
    <3> QED
      BY <3>1, <3>2
  <2>2. \A k \in 0 .. n : S[k] % QPrime = T[k] % QPrime
    <3>1. n \in Nat /\ QPrime \in Nat \ {0}
      BY <1>1
    <3> HIDE DEF n
    <3> QED
      BY <1>8, <1>9, <2>1, <3>1, SumModSame
  <2> QED
    BY <1>1, <2>2
<1>12. /\ V[n] \in Int /\ M[n] \in Int /\ T[n] = V[n] + M[n] - o
       /\ total \in Int /\ msg \in Int /\ e \in Int
  <2>1. n \in 0 .. n
    BY <1>1
  <2>2. total \in Int /\ msg \in Int /\ e \in Int
    BY PhaseAddsUp, DistDecryptAssumption DEF IsError
  <2> QED
    BY <1>6, <1>7, <2>1, <2>2
<1>13. PICK j \in Int : V[n] + total = DeltaPrime * msg + QPrime * j + e
  BY DEF IsError
<1>14. T[n] % QPrime = (DeltaPrime * msg + (e - o)) % QPrime
  <2>1. PICK a \in Int : a = V[n] - o
    BY <1>12
  <2>2. (a + (M[n] % QPrime)) % QPrime = (a + M[n]) % QPrime
    BY <1>1, <1>12, ModAdd
  <2>3. (a + (total % QPrime)) % QPrime = (a + total) % QPrime
    BY <1>1, <1>12, ModAdd
  <2>4. PICK b \in Int : b = DeltaPrime * msg + (e - o)
    BY <1>1, <1>12
  <2>5. a + total = b + QPrime * j /\ a + M[n] = T[n]
    <3>1. PICK x \in Int, y \in Int : x = DeltaPrime * msg /\ y = QPrime * j
      BY <1>1, <1>12
    <3> QED
      BY <1>12, <1>13, <2>1, <2>4, <3>1
  <2>6. (b + QPrime * j) % QPrime = b % QPrime
    BY <1>1, ModShift
  <2> QED
    BY <1>4, <2>2, <2>3, <2>4, <2>5, <2>6
<1> QED
  BY <1>10, <1>11, <1>14

(* The protocol decrypts: party 0 takes off what it opened.                *)
LEMMA CoefficientIsMsg ==
    ASSUME SetupOK
    PROVE  Coefficient % P = msg
<1>1. PICK total \in Masks, first \in Masks : MaskOK(total, first)
  BY MasksOK
<1>2. PICK V, D, M : Sums(V, D, M)
  BY SumsExist
<1>3. PICK e : IsError(e, V[G - 1], total, first)
  BY <1>1, <1>2, ErrorIsSmall DEF Sums
<1>4. Opened = IF e < 0 THEN -e ELSE e
  BY <1>1, <1>2, <1>3, OpensError
<1>5. e \in Int /\ first \in Int /\ DeltaPrime \in Nat /\ Opened \in Int
  BY <1>3, Moduli, OpenedIs, DistDecryptAssumption DEF IsError
<1> DEFINE s == [p \in Parties |-> Sent(p)]
<1>6. MaskedLess(s, Opened)
  BY SentIs DEF MaskedLess
<1>7. Coefficient = FinalValue(Aggregated(s, QPrime), DeltaPrime)
  BY DEF Coefficient
<1> HIDE DEF s
<1>8. Aggregated(s, QPrime) = (DeltaPrime * msg + (e - Opened)) % QPrime
  <2>1. PICK o, z : o \in Int /\ o = Opened /\ z = s
    BY <1>5
  <2>2. MaskedLess(z, o)
    BY <1>6, <2>1
  <2>3. o \in Int
    BY <2>1
  <2>4. Aggregated(z, QPrime) = (DeltaPrime * msg + (e - o)) % QPrime
    BY <1>1, <1>2, <1>3, <2>2, <2>3, AggregatesToMsg
  <2> QED
    BY <2>1, <2>4
<1>9. PICK x \in Int : x = e - Opened /\ -DeltaPrime < 2 * x /\ 2 * x < DeltaPrime
  BY <1>3, <1>4, <1>5 DEF IsError
<1>10. msg \in 0 .. P - 1
  BY PhaseAddsUp
<1> QED
  BY <1>7, <1>8, <1>9, <1>10, RoundsToMsg

(* Each party decrypts: what it computes from the shares it has gathered   *)
(* is the coefficient that was encrypted, for every split of the phase and *)
(* all masks, as long as the noise stays within the assumption.            *)
THEOREM Recovers == Spec => []Recovered
<1>1. ASSUME IInv PROVE Recovered
  <2> SUFFICES ASSUME NEW p \in Parties, pc[p] = "done" PROVE result[p] % P = msg
    BY DEF Recovered, Done
  <2>1. SetupOK /\ result[p] = Coefficient
    BY <1>1 DEF IInv, ResultOK
  <2> QED
    BY <2>1, CoefficientIsMsg
<1> QED
  BY Invariance, <1>1, PTL

(* What party 0 opens depends on the masked sum of all the switched shares *)
(* only, and is at most a quarter of Delta'.                               *)
THEOREM OpensTheError == Spec => []OpensMaskedError
<1>1. ASSUME IInv PROVE OpensMaskedError
  <2> DEFINE h == [p \in Parties |-> ScaleRound(phase[p], Q, QPrime) + mask[p].delta]
  <2> SUFFICES ASSUME pc[0] \in Sending
               PROVE  /\ error[0] = Centred(SumTo(h, G - 1) % DeltaPrime)
                      /\ error[0] <= DeltaPrime \div 4
    BY DEF OpensMaskedError, Sending
  <2>1. SetupOK /\ error[0] = Opened
    BY <1>1, ZeroIn DEF IInv, ErrorOK, Sending
  <2>2. PICK total \in Masks, first \in Masks : MaskOK(total, first)
    BY <2>1, MasksOK
  <2>3. PICK V, D, M : Sums(V, D, M)
    BY <2>1, SumsExist
  <2>4. PICK e : IsError(e, V[G - 1], total, first)
    BY <2>1, <2>2, <2>3, ErrorIsSmall DEF Sums
  <2>5. h = [p \in Parties |-> Scaled(p) + mask[p].delta]
    BY DEF Scaled
  <2>6. /\ Opened <= DeltaPrime \div 4
        /\ \A S : IsSum(S, h, G - 1) => Opened = Centred(S[G - 1] % DeltaPrime)
    BY <2>1, <2>2, <2>3, <2>4, <2>5, OpensError
  <2>7. \A k \in 0 .. G - 1 : h[k] \in Int
    <3> SUFFICES ASSUME NEW k \in Parties PROVE h[k] \in Int
      BY Moduli
    <3>1. Scaled(k) \in Int
      BY <2>1, ScaledIs
    <3>2. mask[k].delta \in Int
      BY <2>2 DEF MaskOK
    <3> QED
      BY <2>5, <3>1, <3>2
  <2> HIDE DEF h
  <2>8. PICK S : IsSum(S, h, G - 1)
    BY <2>7, Moduli, SumExists
  <2>9. SumTo(h, G - 1) = S[G - 1]
    BY <2>8, Moduli, SumToIs
  <2> QED
    BY <2>1, <2>6, <2>8, <2>9
<1> QED
  BY Invariance, <1>1, PTL

(* The benchmark takes the mask of party 0 on twice.                       *)
LEMMA BenchmarkIsMsg ==
    ASSUME SetupOK
    PROVE  BenchmarkResult \in Int /\ BenchmarkResult % P = msg
<1>1. PICK total \in Masks, first \in Masks : MaskOK(total, first)
  BY MasksOK
<1>2. PICK V, D, M : Sums(V, D, M)
  BY SumsExist
<1>3. PICK e : IsError(e, V[G - 1], total, first)
  BY <1>1, <1>2, ErrorIsSmall DEF Sums
<1>4. Opened = IF e < 0 THEN -e ELSE e
  BY <1>1, <1>2, <1>3, OpensError
<1>5. e \in Int /\ first \in Int /\ DeltaPrime \in Nat /\ Opened \in Int
  BY <1>3, Moduli, OpenedIs, DistDecryptAssumption DEF IsError
<1>6. QPrime \in Nat \ {0} /\ Half(QPrime) /\ DeltaPrime <= QPrime /\ 0 \in Parties
  BY Moduli, ZeroIn
<1>7. ASSUME NEW p \in Parties
      PROVE  /\ BenchmarkShare(p) \in 0 .. QPrime - 1
             /\ BenchmarkShare(p) = (Scaled(p) + mask[p].q) % QPrime
  <2>1. Scaled(p) \in 0 .. QPrime - 1 /\ mask[p].q \in 0 .. QPrime - 1
    BY <1>1, ScaledIs DEF MaskOK
  <2>2. BenchmarkShare(p) = AddMod(Scaled(p), mask[p].q, QPrime)
    BY DEF BenchmarkShare, Scaled
  <2>3. PICK a \in 0 .. QPrime - 1, b \in 0 .. QPrime - 1 : a = Scaled(p) /\ b = mask[p].q
    BY <2>1
  <2>4. AddMod(a, b, QPrime) \in 0 .. QPrime - 1
    BY <1>6, AddModAdds
  <2>5. AddMod(a, b, QPrime) = (a + b) % QPrime
    BY <1>6, AddModIsMod
  <2> QED
    BY <2>2, <2>3, <2>4, <2>5
<1>8. Centred(Aggregated([j \in Parties |-> BenchmarkError(j)], DeltaPrime)) = Opened
  <2>1. \A j \in Parties : BenchmarkError(j) = ErrorShare(j)
    BY DEF BenchmarkError, ErrorShare, Scaled
  <2>2. [j \in Parties |-> BenchmarkError(j)] = [j \in Parties |-> ErrorShare(j)]
    BY <2>1
  <2> QED
    BY <2>2 DEF Opened
<1> DEFINE s == [p \in Parties |-> BenchmarkValue(p)]
           o == Opened - first
<1>9. s[0] \in 0 .. QPrime - 1 /\ s[0] = (Scaled(0) - o + mask[0].q) % QPrime
  <2>1. PICK r \in 0 .. QPrime - 1 : r = mask[0].q /\ r % QPrime = first % QPrime
    BY <1>1, <1>6 DEF MaskOK
  <2>2. PICK b \in 0 .. QPrime - 1, v \in Int :
           b = BenchmarkShare(0) /\ v = Scaled(0) /\ b = (v + r) % QPrime
    BY <1>6, <1>7, <2>1, ScaledIs
  <2>3. PICK x \in 0 .. QPrime - 1 : x = Opened
    <3>1. DeltaPrime \in Nat /\ Opened \in 0 .. DeltaPrime - 1
      BY OpenedIs, Moduli
    <3> QED
      BY <1>6, <3>1
  <2>4. PICK y \in 0 .. QPrime - 1 : y = SubMod(b, x, QPrime) /\ y = (b - x) % QPrime
    BY <1>6, SubModSubtracts, SubModIsMod
  <2>5. s[0] = AddMod(y, r, QPrime)
    BY <1>6, <1>8, <2>1, <2>2, <2>3, <2>4 DEF BenchmarkValue
  <2>6. s[0] \in 0 .. QPrime - 1 /\ s[0] = (y + r) % QPrime
    <3>1. AddMod(y, r, QPrime) \in 0 .. QPrime - 1
      BY <1>6, AddModAdds
    <3>2. AddMod(y, r, QPrime) = (y + r) % QPrime
      BY <1>6, AddModIsMod
    <3> QED
      BY <2>5, <3>1, <3>2
  <2>7. PICK w \in Int : w = v + r
    OBVIOUS
  <2>8. ((w % QPrime) + (-x)) % QPrime = (w + (-x)) % QPrime
    <3>1. -x \in Int
      OBVIOUS
    <3> QED
      BY <1>6, <3>1, ModAdd
  <2>9. PICK z \in Int : z = w - x /\ w + (-x) = z /\ b + (-x) = b - x
    OBVIOUS
  <2>10. y = z % QPrime
    BY <2>2, <2>4, <2>7, <2>8, <2>9
  <2>11. /\ ((z % QPrime) + r) % QPrime = (z + r) % QPrime
         /\ (z + (r % QPrime)) % QPrime = (z + r) % QPrime
    <3>1. r \in Int /\ QPrime \in Nat \ {0}
      BY <1>6
    <3> QED
      BY <3>1, ModAdd
  <2>12. (z + (first % QPrime)) % QPrime = (z + first) % QPrime
    BY <1>5, <1>6, ModAdd
  <2>13. z + first = Scaled(0) - o + mask[0].q
    BY <1>5, <2>1, <2>2, <2>3, <2>7, <2>9
  <2> QED
    BY <2>1, <2>6, <2>10, <2>11, <2>12, <2>13
<1>10. ASSUME NEW p \in Parties, p # 0
       PROVE  /\ s[p] \in 0 .. QPrime - 1
              /\ s[p] = (Scaled(p) - 0 + mask[p].q) % QPrime
  <2>1. s[p] = BenchmarkShare(p)
    BY <1>10 DEF BenchmarkValue
  <2>2. Scaled(p) - 0 = Scaled(p)
    BY ScaledIs
  <2> QED
    BY <1>7, <2>1, <2>2
<1>11. MaskedLess(s, o)
  <2> HIDE DEF s, o
  <2> QED
    BY <1>9, <1>10 DEF MaskedLess
<1>12. BenchmarkResult = FinalValue(Aggregated(s, QPrime), DeltaPrime)
  BY DEF BenchmarkResult
<1>13. o \in Int
  BY <1>5
<1>14. PICK x \in Int : x = e - o /\ -DeltaPrime < 2 * x /\ 2 * x < DeltaPrime
  <2>1. /\ 4 * e + 2 * first < DeltaPrime /\ 4 * e - 2 * first < DeltaPrime
        /\ -DeltaPrime < 4 * e + 2 * first /\ -DeltaPrime < 4 * e - 2 * first
    BY <1>3 DEF IsError
  <2>2. PICK a \in Int, d \in Nat : a = Opened /\ d = DeltaPrime
    BY <1>5
  <2>3. CASE e >= 0
    BY <1>4, <1>5, <2>1, <2>2, <2>3
  <2>4. CASE e < 0
    BY <1>4, <1>5, <2>1, <2>2, <2>4
  <2> QED
    BY <1>5, <2>3, <2>4
<1> HIDE DEF s, o
<1>15. Aggregated(s, QPrime) = (DeltaPrime * msg + x) % QPrime
  <2>1. PICK u, z : u \in Int /\ u = o /\ z = s
    BY <1>13
  <2>2. MaskedLess(z, u)
    BY <1>11, <2>1
  <2>3. u \in Int
    BY <2>1
  <2>4. Aggregated(z, QPrime) = (DeltaPrime * msg + (e - u)) % QPrime
    BY <1>1, <1>2, <1>3, <2>2, <2>3, AggregatesToMsg
  <2> QED
    BY <1>14, <2>1, <2>4
<1>16. msg \in 0 .. P - 1
  BY PhaseAddsUp
<1>17. BenchmarkResult \in Int
  <2>1. DeltaPrime * msg + x \in Int
    BY <1>5, <1>16
  <2>2. (DeltaPrime * msg + x) % QPrime \in 0 .. QPrime - 1
    BY <1>6, <2>1, DivMod
  <2>3. BenchmarkResult \in 0 .. P
    BY <1>12, <1>15, <2>2, FinalValueIs
  <2> QED
    BY <2>3, Moduli
<1> QED
  BY <1>12, <1>14, <1>15, <1>16, <1>17, RoundsToMsg

(* The benchmark and the protocol decrypt to the same coefficient, although *)
(* the benchmark masks the value of party 0 once more: that is the half    *)
(* mask the noise assumption leaves room for.                              *)
THEOREM BenchmarkIsRight == Spec => []BenchmarkAgrees
<1>1. ASSUME IInv PROVE BenchmarkAgrees
  <2> SUFFICES ASSUME NEW p \in Parties, pc[p] = "done"
               PROVE  (result[p] - BenchmarkResult) % P = 0
    BY DEF BenchmarkAgrees, Done
  <2>1. SetupOK /\ result[p] = Coefficient
    BY <1>1 DEF IInv, ResultOK
  <2>2. P \in Nat \ {0}
    BY Moduli
  <2>3. PICK a \in Int, b \in Int : a = result[p] /\ b = BenchmarkResult /\ a % P = b % P
    BY <2>1, <2>2, CoefficientIs, CoefficientIsMsg, BenchmarkIsMsg
  <2>4. PICK k \in Int : a = b + P * k
    BY <2>2, <2>3, ModSame
  <2>5. PICK zero \in 0 .. P - 1 : zero = 0
    BY <2>2
  <2>6. (P * k + zero) % P = zero
    BY <2>2, DivModUnique
  <2>7. a - b = P * k + zero
    BY <2>2, <2>4, <2>5
  <2> QED
    BY <2>3, <2>5, <2>6, <2>7
<1> QED
  BY Invariance, <1>1, PTL
=============================================================================
