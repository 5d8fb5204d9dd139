--------------------------- MODULE MCDistDecrypt ---------------------------
(* Small instances of DistDecrypt for TLC.                                 *)
EXTENDS DistDecrypt

(* Shares at both ends of the range and around its middle.                 *)
SomeShares == {0, 1, Q \div 2, (Q \div 2) + 1, Q - 1}

(* A ciphertext with no noise, or one unit of either sign.                 *)
UnitNoise == {-1, 0, 1}

(* Masks of either sign; with them the masks of three parties add up to    *)
(* up to three times as much before they cancel.                           *)
SmallMasks == {-1, 0, 2}
=============================================================================
