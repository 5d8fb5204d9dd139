--------------------------- MODULE MCRingElection ---------------------------
(* Small instances of RingElection for TLC.                                *)
EXTENDS RingElection, TLC

(* Two parties, commits longer than G: the leader's is spread over two     *)
(* chunks, and all degrees are tried.  The modulus splits the ring, as the *)
(* real ones do: X^4 + 1 = (X^2 + 2) (X^2 - 2) modulo 5.  The keys differ  *)
(* by X^2 + 2, so that the first random value, (X^2 - 2) (X + 1), does not *)
(* tell them apart.                                                        *)
TwoKeys == 0 :> (0 :> 1 @@ 1 :> 1 @@ 2 :> 0 @@ 3 :> 4)
        @@ 1 :> (0 :> 3 @@ 1 :> 1 @@ 2 :> 1 @@ 3 :> 4)

AllDegrees == 0 .. 2 * N - 1

TwoRandoms == { 0 :> 3 @@ 1 :> 3 @@ 2 :> 1 @@ 3 :> 1,
                0 :> 0 @@ 1 :> 1 @@ 2 :> 1 @@ 3 :> 0 }

(* Four parties, commits shorter than G: the leader's fits in one chunk.   *)
(* X^2 + 1 = (X + 2) (X - 2) modulo 5, and what comes out is a multiple of *)
(* X - 2: it does not tell the first two keys, which differ by X + 2,      *)
(* apart, but all others.                                                  *)
FourKeys == 0 :> (0 :> 0 @@ 1 :> 1)
         @@ 1 :> (0 :> 2 @@ 1 :> 2)
         @@ 2 :> (0 :> 1 @@ 1 :> 0)
         @@ 3 :> (0 :> 4 @@ 1 :> 0)

SomeDegrees == {1, N - 2, N + 3}

FourRandoms == { 0 :> 3 @@ 1 :> 1 }
=============================================================================
