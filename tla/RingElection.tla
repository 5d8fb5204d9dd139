---------------------------- MODULE RingElection ----------------------------
(***************************************************************************)
(* What an election computes (party_operation of ssle_core/examples/ssle.rs *)
(* and the steps of ssle_core/src/protocol.rs it calls), on the plaintexts  *)
(* and without the noise: a polynomial with a mark at every G-th place is  *)
(* rotated by every party's secret degree, taken apart into one selector   *)
(* per party, multiplied with the commits, and folded so that the commit   *)
(* of one party is left.  Commits are RLWE encryptions of zero, here pairs *)
(* <<a, a * s>>; the leader is whoever's key opens what is left.           *)
(*                                                                         *)
(* A polynomial is a function from 0 .. length - 1, with X^length = -1.    *)
(***************************************************************************)
EXTENDS Integers, FiniteSetsExt

CONSTANTS
    G,          \* the number of parties
    N,          \* ring_poly_length
    CommitLen,  \* commit_poly_length
    P,          \* the commit modulus
    Key,        \* Key[p]: the secret key of p's commit
    Degrees,    \* the degrees a party may choose
    RgswCount,  \* rgsw_count of the benchmark: how many degrees it uses
    Threads,    \* rayon's threads in the benchmark
    Randoms     \* what a party may have for the first half of a zero encryption

Parties == 0 .. G - 1
Ring == [0 .. N - 1 -> 0 .. P - 1]
Small == [0 .. CommitLen - 1 -> 0 .. P - 1]

ASSUME RingElectionAssumption ==
    /\ G \in Nat /\ G >= 2 /\ N \in Nat \ {0} /\ N % G = 0
    /\ CommitLen \in Nat \ {0} /\ N % CommitLen = 0 /\ N > 2 * CommitLen
    /\ P \in Nat /\ P % 2 = 1 /\ P >= 3
    /\ Key \in [Parties -> Small]
    /\ Degrees \subseteq 0 .. 2 * N - 1
    /\ RgswCount \in 1 .. G /\ Threads \in Nat \ {0}
    /\ Randoms \subseteq Small

(* f[0] + ... + f[n - 1], for a positive n.                                *)
SumBelow(n, f) ==
    LET sum[k \in 0 .. n - 1] == IF k = 0 THEN f[0] ELSE sum[k - 1] + f[k]
    IN  sum[n - 1]

(* X^d * f, for d below twice the length.                                  *)
MulMonomial(f, d, len) ==
    [i \in 0 .. len - 1 |->
        LET flips == (IF i < d % len THEN 1 ELSE 0) + (d \div len)
        IN  IF flips % 2 = 0 THEN f[(i - d) % len] ELSE (-f[(i - d) % len]) % P]

(* f * g for a g that may be shorter than f.                               *)
Mul(f, g, len, short) ==
    [i \in 0 .. len - 1 |->
        SumBelow(short, [j \in 0 .. short - 1 |->
            IF i >= j THEN f[i - j] * g[j] ELSE -(f[len + i - j] * g[j])]) % P]

Zero(len) == [i \in 0 .. len - 1 |-> 0]

VARIABLES
    degree,     \* degree[p]: p's secret degree, or -1 before it is chosen
    drawn,      \* drawn[p][q]: the first half of q's commit as p re-randomises it
    encoded,    \* encoded[p]: p's encode_commits, << >> before they are there
    decoded,    \* decoded[p]: p's decoded_commit, << >> before it is there
    announced   \* the leader check_result logs, or -1

vars == <<degree, drawn, encoded, decoded, announced>>

TypeOK ==
    /\ degree \in [Parties -> Degrees \cup {-1}]
    /\ \A p \in Parties :
         /\ drawn[p] \in {<< >>} \cup [Parties -> Randoms]
         /\ encoded[p] \in {<< >>} \cup (Ring \X Ring)
         /\ decoded[p] \in {<< >>} \cup (Small \X Small)
    /\ announced \in Parties \cup {-1}

Init ==
    /\ degree = [p \in Parties |-> -1]
    /\ drawn = [p \in Parties |-> << >>]
    /\ encoded = [p \in Parties |-> << >>]
    /\ decoded = [p \in Parties |-> << >>]
    /\ announced = -1

-----------------------------------------------------------------------------

(* generate_init_acc.                                                      *)
InitAcc == [i \in 0 .. N - 1 |-> IF i % G = 0 THEN 1 ELSE 0]

(* The external product with the RGSW encryption of X^d, that is of        *)
(* -X^(d - N) if d is N or more.                                           *)
Rotate(f, d) == MulMonomial(f, d, N)

(* external_product_chain over the first count degrees.                    *)
Rotated(count) ==
    LET acc[k \in 0 .. count] ==
          IF k = 0 THEN InitAcc ELSE Rotate(acc[k - 1], degree[k - 1])
    IN  acc[count]

(* Mutant of Selector: the selectors come in the opposite order.           *)
SelectorReversed(f, i) ==
    [j \in 0 .. N - 1 |-> IF j % G = 0 THEN f[j + G - 1 - i] ELSE 0]

(* Partial expansion: selector i has the coefficients at i, i + G, ...     *)
Selector(f, i) == [j \in 0 .. N - 1 |-> IF j % G = 0 THEN f[j + i] ELSE 0]

(* encode_single_commit over all parties, for one half of the commits.     *)
EncodeHalf(selectors, half) ==
    [i \in 0 .. N - 1 |->
        SumBelow(G, [p \in Parties |->
            Mul(selectors[p], half[p], N, CommitLen)[i]]) % P]

(* A re-randomised commit is a fresh encryption of zero, with the same key. *)
Commit(p, a) == <<a, Mul(a, Key[p], CommitLen, CommitLen)>>

(* share_v3 of the RGSW ciphertext of a degree.                            *)
Contribute(p) ==
    /\ degree[p] = -1
    /\ \E d \in Degrees : degree' = [degree EXCEPT ![p] = d]
    /\ UNCHANGED <<drawn, encoded, decoded, announced>>

(* Every party expands the same product, and encodes all the commits, each *)
(* re-randomised by itself.                                                *)
Encode(p) ==
    /\ encoded[p] = << >>
    /\ \A q \in Parties : degree[q] # -1
    /\ LET product == Rotated(G)
           selectors == [i \in Parties |-> Selector(product, i)]
       IN  \E a \in [Parties -> Randoms] :
               LET commits == [i \in Parties |-> Commit(i, a[i])]
                   Half(h) == EncodeHalf(selectors, [i \in Parties |-> commits[i][h]])
               IN  /\ drawn' = [drawn EXCEPT ![p] = a]
                   /\ encoded' = [encoded EXCEPT ![p] = <<Half(1), Half(2)>>]
    /\ UNCHANGED <<degree, decoded, announced>>

(* aggregate_encode_commits, and the distributed decryption of the sum.    *)
FinalCommit(h) ==
    [i \in 0 .. N - 1 |-> SumBelow(G, [p \in Parties |-> encoded[p][h][i]]) % P]

(* div_v_inplace: f * (1 - X^G) / 2.                                       *)
DivV(f) ==
    LET moved == MulMonomial(f, G, N)
    IN  [i \in 0 .. N - 1 |-> ((f[i] - moved[i]) * ((P + 1) \div 2)) % P]

Chunk(f, i) == [j \in 0 .. CommitLen - 1 |-> f[i * CommitLen + j]]

(* Mutant of Joined: the second chunk is always subtracted.                *)
JoinedMinus(f, first, second) ==
    [j \in 0 .. CommitLen - 1 |-> (Chunk(f, first)[j] - Chunk(f, second)[j]) % P]

(* The second chunk found wraps around unless it follows the first.        *)
Joined(f, first, second) ==
    [j \in 0 .. CommitLen - 1 |->
        (Chunk(f, first)[j] + (IF second = first + 1 THEN -1 ELSE 1)
                              * Chunk(f, second)[j]) % P]

(* decode_commit: the first two chunks with anything in them.              *)
DecodeCommit(a, b) ==
    LET found == {i \in 0 .. (N \div CommitLen) - 1 :
                    Chunk(a, i) # Zero(CommitLen) \/ Chunk(b, i) # Zero(CommitLen)}
        first == Min(found)
        rest == found \ {first}
        Decode(f) == IF found = {} THEN Zero(CommitLen)
                     ELSE IF rest = {} THEN Chunk(f, first)
                     ELSE Joined(f, first, Min(rest))
    IN  <<Decode(a), Decode(b)>>

Opens(p, commit) == commit[2] = Mul(commit[1], Key[p], CommitLen, CommitLen)

(* Every party aggregates, decrypts, folds and decodes.                    *)
Verify(p) ==
    /\ decoded[p] = << >>
    /\ \A q \in Parties : encoded[q] # << >>
    /\ decoded' = [decoded EXCEPT
                     ![p] = DecodeCommit(DivV(FinalCommit(1)), DivV(FinalCommit(2)))]
    /\ UNCHANGED <<degree, drawn, encoded, announced>>

(* Mutant of CheckResult: forgets the last party.                          *)
CheckResultShort ==
    /\ announced = -1
    /\ \A p \in Parties : decoded[p] # << >>
    /\ announced' = SumBelow(G - 1, degree) % G
    /\ UNCHANGED <<degree, drawn, encoded, decoded>>

(* Mutant of CheckResult: the sum of the degrees is not reduced.           *)
CheckResultSum ==
    /\ announced = -1
    /\ \A p \in Parties : decoded[p] # << >>
    /\ announced' = SumBelow(G, degree)
    /\ UNCHANGED <<degree, drawn, encoded, decoded>>

(* check_result joins the threads and adds up the degrees they return.     *)
CheckResult ==
    /\ announced = -1
    /\ \A p \in Parties : decoded[p] # << >>
    /\ announced' = SumBelow(G, degree) % G
    /\ UNCHANGED <<degree, drawn, encoded, decoded>>

Finished == announced # -1 /\ UNCHANGED vars

Next ==
    \/ \E p \in Parties : Contribute(p) \/ Encode(p) \/ Verify(p)
    \/ CheckResult
    \/ Finished

Spec == Init /\ [][Next]_vars

-----------------------------------------------------------------------------
(* run_compute_time_protocol: one thread plays all parties.  It draws and  *)
(* rotates by RgswCount degrees only, and party 0 encodes everybody's      *)
(* commits, from 256 parties on in parallel; what it adds for the others   *)
(* are encryptions of zero.                                                *)

BenchmarkChoose == SumBelow(RgswCount, degree) % G

ChunkSize == (G + Threads - 1) \div Threads

(* lo_a and lo_b: the commits of the k-th chunk of parties.                *)
PartialHalf(selectors, half, k) ==
    LET first == k * ChunkSize
        count == IF first + ChunkSize <= G THEN ChunkSize ELSE G - first
    IN  [i \in 0 .. N - 1 |->
            SumBelow(count, [p \in 0 .. count - 1 |->
                Mul(selectors[first + p], half[first + p], N, CommitLen)[i]]) % P]

(* Mutant of BenchmarkHalf: a partial sum replaces the one before.         *)
BenchmarkHalfLast(selectors, half) ==
    PartialHalf(selectors, half, ((G + ChunkSize - 1) \div ChunkSize) - 1)

(* The partial sums are added up without a reduction.                      *)
BenchmarkHalf(selectors, half) ==
    LET chunks == (G + ChunkSize - 1) \div ChunkSize
        partials == [k \in 0 .. chunks - 1 |-> PartialHalf(selectors, half, k)]
    IN  [i \in 0 .. N - 1 |-> SumBelow(chunks, [k \in 0 .. chunks - 1 |-> partials[k][i]])]

(* Only aggregate_encode_commits reduces them, with the zeros of the       *)
(* others added.                                                           *)
BenchmarkCommit(a) ==
    LET product == Rotated(RgswCount)
        selectors == [i \in Parties |-> Selector(product, i)]
        commits == [i \in Parties |-> Commit(i, a[i])]
        Sums(h) == BenchmarkHalf(selectors, [i \in Parties |-> commits[i][h]])
        Final(h) == DivV([i \in 0 .. N - 1 |-> Sums(h)[i] % P])
    IN  DecodeCommit(Final(1), Final(2))

-----------------------------------------------------------------------------

(* The keys of p and q do the same to c.  Whether they do depends on c, a  *)
(* random half of a commit: modulo a prime that splits the ring the        *)
(* difference of two keys often has no inverse, and then two parties open  *)
(* some of the commits.                                                    *)
Alike(c, p, q) == Mul(c, Key[p], CommitLen, CommitLen) = Mul(c, Key[q], CommitLen, CommitLen)

TellsApart(c) == \A p, q \in Parties : Alike(c, p, q) => p = q

(* The first half of the leader's commit, re-randomised by everybody.      *)
LeaderHalf ==
    LET leader == SumBelow(G, degree) % G
    IN  [i \in 0 .. CommitLen - 1 |->
            SumBelow(G, [p \in Parties |-> drawn[p][leader][i]]) % P]

(* is_leader: the decoded commit is an encryption of zero under p's key.   *)
IsLeader(p) ==
    decoded[p] # << >> /\ Opens(p, decoded[p])

(* The party check_result announces from the degrees, which nobody could   *)
(* add up, is the one whose own check of the decoded commit succeeds.      *)
AnnouncedIsLeader == announced # -1 => IsLeader(announced)

(* Once everybody has verified, exactly one party finds itself to be the  *)
(* leader, if the keys are told apart by what all have drawn for the       *)
(* leader's commit: on the way to the check it is not lost or mixed up.    *)
ElectsOne ==
    (\A p \in Parties : decoded[p] # << >>) /\ TellsApart(LeaderHalf) =>
        \E p \in Parties : {q \in Parties : IsLeader(q)} = {p}

(* The benchmark's result is a leader too: with fewer degrees, and the     *)
(* commits encoded chunk by chunk, the party it returns opens the commit   *)
(* it decodes, and another one only if its key does the same to the first  *)
(* half of the leader's commit.                                            *)
BenchmarkElects ==
    (\A p \in 0 .. RgswCount - 1 : degree[p] # -1) =>
        \A a \in [Parties -> Randoms] :
            LET c == BenchmarkCommit(a)
            IN  /\ Opens(BenchmarkChoose, c)
                /\ \A q \in Parties :
                     Opens(q, c) => Alike(a[BenchmarkChoose], BenchmarkChoose, q)

(* The election implements the drawing of a leader: it is settled by the   *)
(* last degree, the last encoding settles whose check will succeed, the    *)
(* leader's among them, and it is the leader who is announced.             *)
Abstract == INSTANCE Election WITH
    Nobody <- -1,
    leader <- IF \A p \in Parties : degree[p] # -1
              THEN SumBelow(G, degree) % G ELSE -1,
    openers <- IF \A p \in Parties : encoded[p] # << >>
               THEN {p \in Parties :
                       Opens(p, DecodeCommit(DivV(FinalCommit(1)), DivV(FinalCommit(2))))}
               ELSE {},
    verdict <- [p \in Parties |-> IF decoded[p] = << >> THEN "unknown"
                                  ELSE IF IsLeader(p) THEN "leader" ELSE "other"],
    result <- announced

ImplementsElection == Abstract!Spec
=============================================================================
