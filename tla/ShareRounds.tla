---------------------------- MODULE ShareRounds ----------------------------
(***************************************************************************)
(* The online phase of an election as the network sees it: G parties, each *)
(* one a thread that runs the same list of share calls of                  *)
(* ssle_core/src/party.rs over one TCP connection per pair of parties.     *)
(*                                                                         *)
(* Nothing on the wire says which call or which party a byte belongs to:   *)
(* recv(i, buf) takes the next buf.len() bytes of the connection with i,   *)
(* whatever they are.  Broadcasts are sequential write_all calls, the      *)
(* kernel's buffers are finite, and a call's messages may be longer than   *)
(* they are.  A message of call r is modelled as a row of Calls[r].size    *)
(* segments; a segment is the unit in which bytes move, and carries a tag  *)
(* (sender, call, place) that only the properties look at.                 *)
(*                                                                         *)
(* A call is "share" (share, share_v2, share_v3: everybody's data goes to  *)
(* everybody) or "to_p0" (share_to_p0: everybody's data goes to party 0).  *)
(***************************************************************************)
EXTENDS Integers, Sequences, FiniteSets

CONSTANTS
    G,          \* the number of parties
    Calls,      \* the share calls a party makes, in order
    Window,     \* segments one direction of a connection can hold in flight
    MayPanic    \* the parties whose thread may panic on its own account

ASSUME PartiesAssumption == G \in Nat /\ G >= 2
ASSUME CallsAssumption ==
    /\ Calls \in Seq([call : {"share", "to_p0"}, size : Nat \ {0}])
    /\ Calls # << >>
ASSUME WindowAssumption == Window \in Nat \ {0}

Parties == 0 .. G - 1
Rounds  == 1 .. Len(Calls)

Size(r)  == Calls[r].size
ToAll(r) == Calls[r].call = "share"

(* The ids p writes to in call r, and the ids it reads from.               *)
Dests(p, r)   == (IF ToAll(r) THEN Parties ELSE {0}) \ {p}
Sources(p, r) == (IF ToAll(r) \/ p = 0 THEN Parties ELSE {}) \ {p}

(* Mutant of HasBuffer: party 0 passes no buffer to share_to_p0 either.     *)
HasBufferNobody(p, r) == ToAll(r)

(* Only the destination buffer of share_to_p0 may be absent.               *)
HasBuffer(p, r) == ToAll(r) \/ p = 0

Segments == [from : Parties, rnd : Rounds, seg : Nat \ {0}]

Segment(p, r, k) == [from |-> p, rnd |-> r, seg |-> k]

Message(p, r) == [k \in 1 .. Size(r) |-> Segment(p, r, k)]

VARIABLES
    status,     \* status[p]: "run", "done" (returned) or "failed" (panicked)
    round,      \* round[p]: the share call p is in, Len(Calls) + 1 after the last
    turn,       \* turn[p]: i of the loop over the chunks, G when it is over
    dest,       \* dest[p]: id of broadcast's loop, G when it is over
    sofar,      \* sofar[p]: segments moved by the write_all or read_exact under way
    chan,       \* chan[p][q]: segments on their way from p to q
    buf         \* buf[p][r][j]: what p has of chunk j of call r

vars == <<status, round, turn, dest, sofar, chan, buf>>

TypeOK ==
    /\ status \in [Parties -> {"run", "done", "failed"}]
    /\ round \in [Parties -> 1 .. Len(Calls) + 1]
    /\ turn \in [Parties -> 0 .. G]
    /\ dest \in [Parties -> 0 .. G]
    /\ sofar \in [Parties -> Nat]
    /\ chan \in [Parties -> [Parties -> Seq(Segments)]]
    /\ buf \in [Parties -> [Rounds -> [Parties -> Seq(Segments)]]]

-----------------------------------------------------------------------------

(* Mutant of FirstTurn: own data first, which skips the lower ids.          *)
FirstTurnOwn(p, r) == p

(* Where the loops of call r start: a party that only sends has no loop     *)
(* over chunks, and is at its own turn right away.                         *)
FirstTurn(p, r) == IF r \in Rounds /\ ~HasBuffer(p, r) THEN p ELSE 0

FirstDest(p, r) ==
    IF r \notin Rounds \/ (p = 0 /\ ~ToAll(r)) THEN G
    ELSE IF p = 0 THEN 1 ELSE 0

(* Mutant of NextDest: the skipped id shifts every id above it again.      *)
NextDestShifted(p, r, d) ==
    IF ~ToAll(r) THEN G
    ELSE IF d + 1 >= p THEN d + 2 ELSE d + 1

(* The id after d in (0..num_parties).filter(|x| x != p).                  *)
NextDest(p, r, d) ==
    IF ~ToAll(r) THEN G
    ELSE IF d + 1 = p THEN d + 2 ELSE d + 1

(* Mutant of NextTurn: nobody above is waited for.                         *)
NextTurnEarly(p, r, i) == IF HasBuffer(p, r) /\ i # p THEN i + 1 ELSE G

NextTurn(p, r, i) == IF HasBuffer(p, r) THEN i + 1 ELSE G

Init ==
    /\ status = [p \in Parties |-> "run"]
    /\ round = [p \in Parties |-> 1]
    /\ turn = [p \in Parties |-> FirstTurn(p, 1)]
    /\ dest = [p \in Parties |-> FirstDest(p, 1)]
    /\ sofar = [p \in Parties |-> 0]
    /\ chan = [p \in Parties |-> [q \in Parties |-> << >>]]
    /\ buf = [p \in Parties |-> [r \in Rounds |-> [j \in Parties |-> << >>]]]

InCall(p) == status[p] = "run" /\ round[p] \in Rounds

Writing(p) == InCall(p) /\ turn[p] = p /\ dest[p] \in Dests(p, round[p])

Reading(p) == InCall(p) /\ turn[p] \in Sources(p, round[p])

(* write_all to dest[p] hands one more segment to the kernel, once there   *)
(* is room for it.  The peer may be gone: the kernel learns that later.    *)
Write(p) ==
    /\ Writing(p)
    /\ LET r == round[p]
           q == dest[p]
           k == sofar[p] + 1
       IN  /\ Len(chan[p][q]) < Window
           /\ chan' = [chan EXCEPT ![p][q] = Append(@, Segment(p, r, k))]
           /\ sofar' = [sofar EXCEPT ![p] = IF k = Size(r) THEN 0 ELSE k]
           /\ dest' = [dest EXCEPT
                         ![p] = IF k = Size(r) THEN NextDest(p, r, q) ELSE q]
    /\ UNCHANGED <<status, round, turn, buf>>

(* The party's own turn, once everybody has been written to.               *)
OwnChunk(p) ==
    /\ InCall(p) /\ turn[p] = p /\ dest[p] = G
    /\ LET r == round[p]
       IN  /\ buf' = IF HasBuffer(p, r)
                     THEN [buf EXCEPT ![p][r][p] = Message(p, r)]
                     ELSE buf
           /\ turn' = [turn EXCEPT ![p] = NextTurn(p, r, p)]
    /\ UNCHANGED <<status, round, dest, sofar, chan>>

(* read_exact from party turn[p] takes one more segment.                   *)
Read(p) ==
    /\ Reading(p)
    /\ LET r == round[p]
           i == turn[p]
           k == sofar[p] + 1
       IN  /\ chan[i][p] # << >>
           /\ chan' = [chan EXCEPT ![i][p] = Tail(@)]
           /\ buf' = [buf EXCEPT ![p][r][i] = Append(@, Head(chan[i][p]))]
           /\ sofar' = [sofar EXCEPT ![p] = IF k = Size(r) THEN 0 ELSE k]
           /\ turn' = [turn EXCEPT
                         ![p] = IF k = Size(r) THEN NextTurn(p, r, i) ELSE i]
    /\ UNCHANGED <<status, round, dest>>

(* The call returns; the party computes and makes the next one.  After the *)
(* last one it returns its degree and drops its Party, which closes its    *)
(* connections.                                                            *)
EndCall(p) ==
    /\ InCall(p) /\ turn[p] = G
    /\ LET r == round[p] + 1
       IN  /\ round' = [round EXCEPT ![p] = r]
           /\ turn' = [turn EXCEPT ![p] = FirstTurn(p, r)]
           /\ dest' = [dest EXCEPT ![p] = FirstDest(p, r)]
           /\ status' = [status EXCEPT
                           ![p] = IF r \in Rounds THEN "run" ELSE "done"]
    /\ UNCHANGED <<sofar, chan, buf>>

(* Mutants of Unwrap: the end of the stream is not noticed; it is taken    *)
(* for the end of the message.                                             *)
UnwrapWritesOnly(p) ==
    /\ Writing(p) /\ status[dest[p]] # "run"
    /\ status' = [status EXCEPT ![p] = "failed"]
    /\ UNCHANGED <<round, turn, dest, sofar, chan, buf>>
UnwrapIgnored(p) ==
    /\ Reading(p) /\ status[turn[p]] # "run" /\ chan[turn[p]][p] = << >>
    /\ turn' = [turn EXCEPT ![p] = NextTurn(p, round[p], turn[p])]
    /\ sofar' = [sofar EXCEPT ![p] = 0]
    /\ UNCHANGED <<status, round, dest, chan, buf>>

(* Every network error is unwrapped: the thread panics and its connections *)
(* close.  The peer of the write_all or of the read_exact has closed.      *)
Unwrap(p) ==
    /\ \/ Writing(p) /\ status[dest[p]] # "run"
       \/ Reading(p) /\ status[turn[p]] # "run" /\ chan[turn[p]][p] = << >>
    /\ status' = [status EXCEPT ![p] = "failed"]
    /\ UNCHANGED <<round, turn, dest, sofar, chan, buf>>

(* A panic of the party's own (an assert, the unwrap of a connection that  *)
(* was never set up).                                                      *)
Panic(p) ==
    /\ p \in MayPanic
    /\ InCall(p)
    /\ status' = [status EXCEPT ![p] = "failed"]
    /\ UNCHANGED <<round, turn, dest, sofar, chan, buf>>

AllStopped == \A p \in Parties : status[p] # "run"

Finished == AllStopped /\ UNCHANGED vars

PartyStep(p) == Write(p) \/ OwnChunk(p) \/ Read(p) \/ EndCall(p) \/ Unwrap(p)

Next ==
    \/ \E p \in Parties : PartyStep(p)
    \/ \E p \in Parties : Panic(p)
    \/ Finished

Spec == Init /\ [][Next]_vars

(* The scheduler runs every thread that can go on, and the kernel reports  *)
(* a closed peer to whoever waits for it.                                  *)
Fairness == \A p \in Parties : WF_vars(PartyStep(p))

FairSpec == Spec /\ Fairness

-----------------------------------------------------------------------------
(* Safety.                                                                 *)

(* What a party has of a chunk is always a prefix of what the chunk's      *)
(* owner sent in the same call, never bytes of another call or of another  *)
(* party, however far apart the parties are; and it is all of it once the  *)
(* call has returned.                                                      *)
RightChunks ==
    \A p, j \in Parties : \A r \in Rounds :
        /\ Len(buf[p][r][j]) <= Size(r)
        /\ \A k \in 1 .. Len(buf[p][r][j]) : buf[p][r][j][k] = Segment(j, r, k)
        /\ HasBuffer(p, r) /\ round[p] > r => Len(buf[p][r][j]) = Size(r)

(* A share call is a barrier: nobody returns from it before everybody has  *)
(* entered it, and nobody returns from share_to_p0 with the buffer before  *)
(* everybody has entered that.                                             *)
Barrier ==
    \A p, q \in Parties : \A r \in Rounds :
        HasBuffer(p, r) /\ round[p] > r => round[q] >= r

(* A party that returns leaves nothing unread behind and is sent nothing   *)
(* more: closing its connections resets none of them, so that a slower     *)
(* party still gets all it is owed.                                        *)
CleanClose ==
    \A p, q \in Parties : status[p] = "done" => chan[q][p] = << >>

(* No connection ever carries data both ways: what one end has sent is     *)
(* read before the other end sends.  So nobody who closes, or panics in    *)
(* the middle of a call, and nobody who still writes to such a party, can  *)
(* make TCP reset a connection that holds data a third step would read:    *)
(* this is why no step of the model takes data out of a channel but Read.  *)
HalfDuplex ==
    \A p, q \in Parties : chan[p][q] = << >> \/ chan[q][p] = << >>

(* The calls implement the network-free rounds of AllGather.               *)
Abstract == INSTANCE AllGather WITH
    LastRound <- Len(Calls),
    Needs <- [r \in Rounds |-> [p \in Parties |->
                 IF HasBuffer(p, r) THEN Parties ELSE {}]],
    at <- round,
    holds <- [p \in Parties |-> [r \in Rounds |->
                 IF r < round[p]
                 THEN {j \in Parties : buf[p][r][j] = Message(j, r)}
                 ELSE {}]],
    stopped <- [p \in Parties |-> status[p] = "failed"]

ImplementsAllGather == Abstract!Spec

(* Liveness: without panics every party returns, however small the         *)
(* kernel's buffers are.                                                   *)
Termination == <>(\A p \in Parties : status[p] = "done")

(* With panics nobody waits forever: every party returns or panics too.    *)
NobodyHangs == <>AllStopped
=============================================================================
