------------------------------ MODULE Election ------------------------------
(***************************************************************************)
(* What an election promises, with the cryptography left out: a leader is  *)
(* drawn, a commit comes out that the leader's key opens, every party      *)
(* finds out, by itself, whether its own key does, and the result that is  *)
(* announced in the end names the leader.                                  *)
(***************************************************************************)
CONSTANTS
    Parties,    \* the parties
    Nobody      \* no party: the leader before it is drawn

VARIABLES
    leader,     \* the party that is drawn
    openers,    \* the parties whose key opens what comes out
    verdict,    \* verdict[p]: "unknown", "leader" or "other"
    result      \* the party that is announced

vars == <<leader, openers, verdict, result>>

Init ==
    /\ leader = Nobody
    /\ openers = {}
    /\ verdict = [p \in Parties |-> "unknown"]
    /\ result = Nobody

(* The last contribution settles who it is.                                *)
Draw ==
    /\ leader = Nobody
    /\ leader' \in Parties
    /\ UNCHANGED <<openers, verdict, result>>

(* The last encoding settles what comes out.  Another key may open it too, *)
(* but the leader's does.                                                  *)
Reveal ==
    /\ leader # Nobody /\ openers = {}
    /\ openers' \in {S \in SUBSET Parties : leader \in S}
    /\ UNCHANGED <<leader, verdict, result>>

FindOut(p) ==
    /\ openers # {} /\ verdict[p] = "unknown"
    /\ verdict' = [verdict EXCEPT ![p] = IF p \in openers THEN "leader" ELSE "other"]
    /\ UNCHANGED <<leader, openers, result>>

Announce ==
    /\ result = Nobody
    /\ \A p \in Parties : verdict[p] # "unknown"
    /\ result' = leader
    /\ UNCHANGED <<leader, openers, verdict>>

Next == Draw \/ Reveal \/ (\E p \in Parties : FindOut(p)) \/ Announce

Spec == Init /\ [][Next]_vars
=============================================================================
