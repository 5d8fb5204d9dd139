---------------------------- MODULE DistDecrypt ----------------------------
(***************************************************************************)
(* The distributed decryption of party_operation (ssle_core/examples/      *)
(* ssle.rs), for one coefficient of one slot: every line of it treats the  *)
(* coefficients one by one and alike.  Each party switches its share of    *)
(* the phase from q to q', masks what is left of it mod Delta' and sends   *)
(* that to party 0, which opens the sum, centres it and takes it off its   *)
(* value; then everybody adds a mask mod q' and everybody adds up.         *)
(*                                                                         *)
(* Network calls are the barriers ShareRounds shows them to be.            *)
(***************************************************************************)
EXTENDS FastPath

CONSTANTS
    G,          \* the number of parties
    Q,          \* the ciphertext modulus
    P,          \* the plaintext modulus, which is the commit modulus
    Noises,     \* the noise of the ciphertext
    Masks,      \* what generate_dd_random may sample, with its sign
    Shares      \* the phase shares parties 1 .. G - 1 may have

ASSUME DistDecryptAssumption ==
    /\ G \in Nat /\ G >= 2
    /\ P \in Nat /\ P >= 2
    /\ Q \in Nat /\ Q >= P
    /\ Noises \subseteq Int
    /\ Masks \subseteq Int
    /\ Shares \subseteq 0 .. Q - 1

Parties == 0 .. G - 1

(* q' is the next multiple of p, and Delta' how often p goes into it.      *)
QPrime     == ((Q + P - 1) \div P) * P
DeltaPrime == QPrime \div P

(* The three numbers take the fast path together.                          *)
ASSUME FastAssumption == Fits(Q) /\ Fits(QPrime) /\ Fits(DeltaPrime)

(* What the parameter sets leave room for: a word holds a sum mod q'       *)
(* before it is reduced (q' is at most 111 bits wide), and a sampled mask  *)
(* (30 bits) is less than Delta' (84 bits or more).                        *)
ASSUME RoomAssumption ==
    /\ 2 * QPrime <= Word
    /\ \A r \in Masks : -DeltaPrime <= r /\ r < DeltaPrime

(* The noise after modulus switching, the total mask, what Delta' msg and  *)
(* the encoding q div p differ by, and half a unit of rounding per party   *)
(* are together below a quarter of Delta'.  Half a mask more is left for   *)
(* the benchmark, which masks twice.  All is multiplied by 4 q.            *)
ASSUME NoiseAssumption ==
    LET Abs(x) == IF x < 0 THEN -x ELSE x
    IN  \A x \in Noises, r, s \in Masks :
            4 * (QPrime * Abs(x) + Q * Abs(r) + DeltaPrime * ((Q % P) * (P - 1)))
                + 2 * (Q * G) + 2 * (Q * Abs(s)) < Q * DeltaPrime

SumTo(f, k) == LET sum[i \in 0 .. k] == IF i = 0 THEN f[0] ELSE sum[i - 1] + f[i]
               IN  sum[k]

(* What aggregation does with the parties' contributions, in their order.  *)
Aggregated(s, m) ==
    LET acc[k \in Parties] == IF k = 0 THEN s[0] ELSE AddMod(acc[k - 1], s[k], m)
    IN  acc[G - 1]

VARIABLES
    msg,        \* the plaintext coefficient (no party knows it)
    noise,      \* the noise it is encrypted with
    phase,      \* phase[p]: p's share of the phase
    mask,       \* mask[p]: p's r mod Delta' and r mod q'
    pc,         \* pc[p]: the step p is at
    value,      \* value[p]: big_uint_dec_share
    error,      \* error[p]: e_shares; party 0's is opened in place
    gathered,   \* gathered[p]: all_big_uint_dec_share, once it is shared
    result      \* result[p]: the coefficient of final_commit, or -1

setup == <<msg, noise, phase, mask>>
vars == <<setup, pc, value, error, gathered, result>>

Steps == {"phase", "to_p0", "open", "random", "share", "combine", "done"}

TypeOK ==
    /\ msg \in 0 .. P - 1 /\ noise \in Noises
    /\ phase \in [Parties -> 0 .. Q - 1]
    /\ mask \in [Parties -> [delta : 0 .. DeltaPrime - 1, q : 0 .. QPrime - 1]]
    /\ pc \in [Parties -> Steps]
    /\ \A p \in Parties : pc[p] = "open" => p = 0
    /\ value \in [Parties -> 0 .. QPrime - 1]
    /\ error \in [Parties -> 0 .. DeltaPrime - 1]
    /\ gathered \in [Parties -> [Parties -> 0 .. QPrime - 1]]
    /\ result \in [Parties -> -1 .. P]

-----------------------------------------------------------------------------

(* A sample and its sign bit as a number mod m.                            *)
Residue(r, m) == IF r >= 0 THEN r ELSE m + r

(* generate_dd_random: all parties but the last sample, and the last one   *)
(* gets what is missing to a sampled total, mod Delta' and mod q' alike.   *)
MaskShares(total, sampled, m) ==
    LET left[k \in 0 .. G - 1] ==
          IF k = 0 THEN Residue(total, m)
          ELSE SubMod(left[k - 1], Residue(sampled[k - 1], m), m)
    IN  [p \in Parties |-> IF p = G - 1 THEN left[G - 1] ELSE Residue(sampled[p], m)]

DdRandom(total, sampled) ==
    [p \in Parties |-> [delta |-> MaskShares(total, sampled, DeltaPrime)[p],
                        q     |-> MaskShares(total, sampled, QPrime)[p]]]

(* The shares of a phase: any, as long as they add up to it.               *)
PhaseShares(u) ==
    {[p \in Parties |-> IF p = 0 THEN (u - SumTo(f, G - 1)) % Q ELSE f[p]] :
        f \in {g \in [Parties -> Shares \cup {0}] : g[0] = 0}}

Init ==
    /\ msg \in 0 .. P - 1
    /\ noise \in Noises
    /\ phase \in PhaseShares(((Q \div P) * msg + noise) % Q)
    /\ \E total \in Masks : \E sampled \in [0 .. G - 2 -> Masks] :
           mask = DdRandom(total, sampled)
    /\ pc = [p \in Parties |-> "phase"]
    /\ value = [p \in Parties |-> 0]
    /\ error = [p \in Parties |-> 0]
    /\ gathered = [p \in Parties |-> [j \in Parties |-> 0]]
    /\ result = [p \in Parties |-> -1]

(* Mutant of MaskError: the error share is sent in the clear.              *)
MaskErrorNot(p, v) == v % DeltaPrime

(* e = value mod Delta', masked with r mod Delta'.                         *)
MaskError(p, v) == AddMod(v % DeltaPrime, mask[p].delta, DeltaPrime)

(* Modulus switching.                                                      *)
LocalShare(p) ==
    /\ pc[p] = "phase"
    /\ LET v == ScaleRound(phase[p], Q, QPrime)
       IN  /\ value' = [value EXCEPT ![p] = v]
           /\ error' = [error EXCEPT ![p] = MaskError(p, v)]
    /\ pc' = [pc EXCEPT ![p] = "to_p0"]
    /\ UNCHANGED <<setup, gathered, result>>

(* share_to_p0: the others send and go on; party 0 has waited for all.     *)
ShareToP0(p) ==
    /\ pc[p] = "to_p0"
    /\ p = 0 => \A q \in Parties \ {0} : pc[q] \notin {"phase", "to_p0"}
    /\ pc' = [pc EXCEPT ![p] = IF p = 0 THEN "open" ELSE "random"]
    /\ UNCHANGED <<setup, value, error, gathered, result>>

(* Mutant of Centred: it is not centred at all.                            *)
CentredNot(e) == e

(* center_e_shares_u128: the distance of e from a multiple of Delta'.      *)
Centred(e) == IF e >= DeltaPrime \div 2 THEN NegMod(e, DeltaPrime) ELSE e

(* Party 0 aggregates the error shares and centres the sum.                *)
OpenError(p) ==
    /\ pc[p] = "open"
    /\ error' = [error EXCEPT ![p] = Centred(Aggregated(error, DeltaPrime))]
    /\ pc' = [pc EXCEPT ![p] = "random"]
    /\ UNCHANGED <<setup, value, gathered, result>>

(* Party 0 takes the opened error off its value; all add r mod q'.         *)
AddRandom(p) ==
    /\ pc[p] = "random"
    /\ LET v == IF p = 0 THEN SubMod(value[p], error[p], QPrime) ELSE value[p]
       IN  value' = [value EXCEPT ![p] = AddMod(v, mask[p].q, QPrime)]
    /\ pc' = [pc EXCEPT ![p] = "share"]
    /\ UNCHANGED <<setup, error, gathered, result>>

(* Mutant of ShareValues: a party does not wait for the others' shares.    *)
ShareValuesEarly(p) ==
    /\ pc[p] = "share"
    /\ gathered' = [gathered EXCEPT ![p] = value]
    /\ pc' = [pc EXCEPT ![p] = "combine"]
    /\ UNCHANGED <<setup, value, error, result>>

(* share_v2 of the values.                                                 *)
ShareValues(p) ==
    /\ pc[p] = "share"
    /\ \A q \in Parties : pc[q] \in {"share", "combine", "done"}
    /\ gathered' = [gathered EXCEPT ![p] = value]
    /\ pc' = [pc EXCEPT ![p] = "combine"]
    /\ UNCHANGED <<setup, value, error, result>>

Combine(p) ==
    /\ pc[p] = "combine"
    /\ result' = [result EXCEPT
                    ![p] = FinalValue(Aggregated(gathered[p], QPrime), DeltaPrime)]
    /\ pc' = [pc EXCEPT ![p] = "done"]
    /\ UNCHANGED <<setup, value, error, gathered>>

Finished == (\A p \in Parties : pc[p] = "done") /\ UNCHANGED vars

Next ==
    \/ \E p \in Parties :
          \/ LocalShare(p) \/ ShareToP0(p) \/ OpenError(p)
          \/ AddRandom(p) \/ ShareValues(p) \/ Combine(p)
    \/ Finished

Spec == Init /\ [][Next]_vars

-----------------------------------------------------------------------------
(* run_compute_time_protocol does the same for all parties in one thread,  *)
(* but masks party 0's value in decrypt_share_for_party already, and again *)
(* when it takes the opened error off.                                     *)

BenchmarkError(p) == MaskError(p, ScaleRound(phase[p], Q, QPrime))

(* Mutant of BenchmarkShare: the mask of the other modulus.                *)
BenchmarkShareDelta(p) ==
    AddMod(ScaleRound(phase[p], Q, QPrime), mask[p].delta, QPrime)

BenchmarkShare(p) == AddMod(ScaleRound(phase[p], Q, QPrime), mask[p].q, QPrime)

BenchmarkValue(p) ==
    IF p = 0
    THEN LET opened == Centred(Aggregated([j \in Parties |-> BenchmarkError(j)],
                                          DeltaPrime))
         IN  AddMod(SubMod(BenchmarkShare(0), opened, QPrime), mask[0].q, QPrime)
    ELSE BenchmarkShare(p)

BenchmarkResult ==
    FinalValue(Aggregated([p \in Parties |-> BenchmarkValue(p)], QPrime), DeltaPrime)

-----------------------------------------------------------------------------

Done(p) == pc[p] = "done"

(* Every party decrypts the coefficient: mod p, since what is a little     *)
(* below q' is rounded up to p and is never reduced.                       *)
Recovered == \A p \in Parties : Done(p) => result[p] % P = msg

(* All parties end with the same coefficient, not only with congruent      *)
(* ones: they scan the same chunks for zeros afterwards.                   *)
ResultsAgree ==
    \A p, q \in Parties : Done(p) /\ Done(q) => result[p] = result[q]

(* What party 0 opens is how far the masked sum of all the switched shares *)
(* is from a multiple of Delta'; so it is as small as noise and mask are,  *)
(* whatever the shares and the parties' own masks.                         *)
OpensMaskedError ==
    pc[0] \in {"share", "combine", "done"} =>
        LET total == SumTo([p \in Parties |->
                              ScaleRound(phase[p], Q, QPrime) + mask[p].delta], G - 1)
        IN  error[0] = Centred(total % DeltaPrime) /\ error[0] <= DeltaPrime \div 4

(* The benchmark, which masks party 0's share once more, computes the same *)
(* coefficient.                                                            *)
BenchmarkAgrees == \A p \in Parties : Done(p) => (result[p] - BenchmarkResult) % P = 0

(* What a party sends to all others is its value switched to q' and masked *)
(* mod q', which the fast path computes in one word: that needs q' to be   *)
(* at most half of one.                                                    *)
MaskedModQPrime ==
    \A p \in Parties \ {0} : pc[p] \in {"share", "combine", "done"} =>
        value[p] = (ScaleRound(phase[p], Q, QPrime) + mask[p].q) % QPrime

(* The comment of decrypt_share_for_party: party 0 "centers, and subtracts *)
(* e from value to recover Delta * m".                                     *)
RecoversDeltaM ==
    \A p \in Parties : Done(p) =>
        Aggregated(gathered[p], QPrime) = (DeltaPrime * msg) % QPrime
=============================================================================
