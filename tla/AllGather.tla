----------------------------- MODULE AllGather -----------------------------
(***************************************************************************)
(* What a sequence of share calls promises, with the network left out.     *)
(*                                                                         *)
(* Every party goes through the same list of rounds.  To leave a round is  *)
(* one atomic step: it is possible only when everybody whose contribution  *)
(* the party needs has entered that round, and it puts exactly those       *)
(* contributions in the party's hands.  A party may stop at any time.      *)
(***************************************************************************)
EXTENDS Integers

CONSTANTS
    Parties,    \* the parties
    LastRound,  \* rounds are numbered 1 .. LastRound
    Needs       \* Needs[r][p]: whose contribution p has after round r

VARIABLES
    at,         \* at[p]: the round p is in, LastRound + 1 after the last
    holds,      \* holds[p][r]: whose contribution to round r p has
    stopped     \* stopped[p]: p has given up

vars == <<at, holds, stopped>>

Init ==
    /\ at = [p \in Parties |-> 1]
    /\ holds = [p \in Parties |-> [r \in 1 .. LastRound |-> {}]]
    /\ stopped = [p \in Parties |-> FALSE]

(* Party p leaves its round with everything it needs from it.              *)
Leave(p) ==
    /\ ~stopped[p]
    /\ at[p] \in 1 .. LastRound
    /\ \A j \in Needs[at[p]][p] : at[j] >= at[p]
    /\ at' = [at EXCEPT ![p] = @ + 1]
    /\ holds' = [holds EXCEPT ![p][at[p]] = Needs[at[p]][p]]
    /\ UNCHANGED stopped

(* Party p gives up before the last round is over.                         *)
Stop(p) ==
    /\ ~stopped[p]
    /\ at[p] \in 1 .. LastRound
    /\ stopped' = [stopped EXCEPT ![p] = TRUE]
    /\ UNCHANGED <<at, holds>>

Next == \E p \in Parties : Leave(p) \/ Stop(p)

Spec == Init /\ [][Next]_vars
=============================================================================
