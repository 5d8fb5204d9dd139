------------------------------ MODULE TreeIds ------------------------------
(***************************************************************************)
(* The ids of the parties of a TcpTree as bits: the partner of level i is  *)
(* the party whose id differs in bit i, and the lower of the two is the    *)
(* server of their connection.                                             *)
(***************************************************************************)
EXTENDS Integers

PowerOfTwo(i) ==
    LET power[k \in 0 .. i] == IF k = 0 THEN 1 ELSE 2 * power[k - 1]
    IN  power[i]

LogN(n) == CHOOSE l \in 0 .. n : PowerOfTwo(l) = n

IsServer(p, i) == (p \div PowerOfTwo(i)) % 2 = 0

Partner(p, i) == IF IsServer(p, i) THEN p + PowerOfTwo(i) ELSE p - PowerOfTwo(i)
=============================================================================
