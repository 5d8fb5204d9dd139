---------------------------- MODULE ShareVectors ----------------------------
(***************************************************************************)
(* How the shares of all parties, which a network call leaves one after    *)
(* the other in one buffer, are added up: aggregate_value_shares_u128 in   *)
(* the loop of its callers, and aggregate_value_shares_biguint, the        *)
(* fallback for numbers wider than a u128 (the e-shares have the same two  *)
(* functions).  A value is one number here, not big_uint_value_len limbs.  *)
(***************************************************************************)
EXTENDS FastPath, Sequences

CONSTANTS
    G,          \* the number of parties
    ShareLen,   \* values in one party's share: two slots of ring_poly_length
    Modulus,
    Fast        \* the modulus fits in a u128

ASSUME ShareVectorsAssumption ==
    /\ G \in Nat /\ G >= 2
    /\ ShareLen \in Nat /\ ShareLen >= 2
    /\ Modulus \in Nat /\ Modulus >= 2 /\ Modulus * 2 <= Word
    /\ Fast \in BOOLEAN

Values == 0 .. Modulus - 1

VARIABLES
    p0,         \* the share the sum is built in
    others,     \* the shares of the other parties, in one sequence
    next,       \* the chunk of others that comes next
    initial     \* p0 as it was (only the properties look at it)

vars == <<p0, others, next, initial>>

(* Mutant of ChunkLen: a chunk is one slot of a share.                     *)
ChunkLenSlot == IF Fast THEN ShareLen \div 2 ELSE 2

(* The callers cut others by big_uint_poly_len * 2 limbs; the fallback     *)
(* cuts it itself, by big_uint_value_len * 2.                              *)
ChunkLen == IF Fast THEN ShareLen ELSE 2

Chunks == Len(others) \div ChunkLen

Init ==
    /\ p0 \in [1 .. ShareLen -> Values]
    /\ others \in [1 .. (G - 1) * ShareLen -> Values]
    /\ next = 1
    /\ initial = p0

(* zip stops with the shorter of the two.                                  *)
AddChunk ==
    /\ next <= Chunks
    /\ p0' = [i \in 1 .. ShareLen |->
                IF i <= ChunkLen
                THEN AddMod(p0[i], others[(next - 1) * ChunkLen + i], Modulus)
                ELSE p0[i]]
    /\ next' = next + 1
    /\ UNCHANGED <<others, initial>>

Finished == next > Chunks /\ UNCHANGED vars

Next == AddChunk \/ Finished

Spec == Init /\ [][Next]_vars

-----------------------------------------------------------------------------

(* "Aggregate value shares (mod q_prime)": in the end every value is the   *)
(* sum of the values all parties have at its place, and of nothing else.   *)
SumsPlaceByPlace ==
    next > Chunks =>
        \A i \in 1 .. ShareLen :
            LET sum[k \in 0 .. G - 1] ==
                  IF k = 0 THEN initial[i]
                  ELSE sum[k - 1] + others[(k - 1) * ShareLen + i]
            IN  p0[i] = sum[G - 1] % Modulus
=============================================================================
