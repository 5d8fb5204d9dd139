------------------------- MODULE ShareRounds_proofs -------------------------
(***************************************************************************)
(* Proofs about ShareRounds: for every number of parties, every list of    *)
(* calls, every size of message and of kernel buffer, and whoever panics.  *)
(*                                                                         *)
(* The safety properties are not inductive, because what a party will read *)
(* is in a channel or not even written yet.  The inductive invariant says  *)
(* of every ordered pair of parties which segments have been written and   *)
(* which have been taken, both as functions of the loop counters of the    *)
(* two ends, and that the channel holds the difference in order.           *)
(***************************************************************************)
EXTENDS ShareRounds, SequenceTheorems, TLAPS

(* Segment (r, k) is one that p owes q.                                    *)
Owed(p, q, r, k) == r \in Rounds /\ q \in Dests(p, r) /\ k \in 1 .. Size(r)

(* p has written segment (r, k) to q.                                      *)
Written(p, q, r, k) ==
    \/ r < round[p]
    \/ r = round[p] /\ turn[p] > p
    \/ r = round[p] /\ turn[p] = p /\ dest[p] > q
    \/ r = round[p] /\ turn[p] = p /\ dest[p] = q /\ k <= sofar[p]

(* q has taken segment (r, k) of p from the channel.                       *)
Taken(p, q, r, k) ==
    \/ r < round[q]
    \/ r = round[q] /\ turn[q] > p
    \/ r = round[q] /\ turn[q] = p /\ k <= sofar[q]

(* The number of segments p has of chunk j of call r.                      *)
Progress(p, r, j) ==
    IF ~HasBuffer(p, r) THEN 0
    ELSE IF r < round[p] \/ (r = round[p] /\ turn[p] > j) THEN Size(r)
    ELSE IF r = round[p] /\ turn[p] = j /\ j # p THEN sofar[p]
    ELSE 0

Prefix(j, r, n) == [k \in 1 .. n |-> Segment(j, r, k)]

Before(s, t) == s.rnd < t.rnd \/ (s.rnd = t.rnd /\ s.seg < t.seg)

-----------------------------------------------------------------------------

(* The loop counters of one party fit together.                            *)
LoopOK(p) ==
    /\ status[p] = "done" <=> round[p] = Len(Calls) + 1
    /\ round[p] \in Rounds =>
         /\ turn[p] \in Sources(p, round[p]) \cup {p, G}
         /\ turn[p] < p => dest[p] = FirstDest(p, round[p])
         /\ turn[p] = p => dest[p] \in Dests(p, round[p]) \cup {G}
         /\ sofar[p] < Size(round[p])
         /\ turn[p] = G \/ (turn[p] = p /\ dest[p] = G) => sofar[p] = 0

(* What is in a channel was owed, is written and is not taken.             *)
ChanSound(p, q) ==
    \A i \in 1 .. Len(chan[p][q]) :
        LET s == chan[p][q][i]
        IN  /\ s.from = p
            /\ Owed(p, q, s.rnd, s.seg)
            /\ Written(p, q, s.rnd, s.seg)
            /\ ~Taken(p, q, s.rnd, s.seg)

ChanOrdered(p, q) ==
    \A i, j \in 1 .. Len(chan[p][q]) :
        i < j => Before(chan[p][q][i], chan[p][q][j])

(* What is owed, written and not taken is in the channel.                  *)
ChanComplete(p, q) ==
    \A r \in Rounds : \A k \in 1 .. Size(r) :
        Owed(p, q, r, k) /\ Written(p, q, r, k) /\ ~Taken(p, q, r, k) =>
            \E i \in 1 .. Len(chan[p][q]) : chan[p][q][i] = Segment(p, r, k)

(* Nothing is taken before it is written.                                  *)
TakenWritten(p, q) ==
    \A r \in Rounds : \A k \in 1 .. Size(r) :
        Owed(p, q, r, k) /\ Taken(p, q, r, k) => Written(p, q, r, k)

ChanOK(p, q) ==
    /\ ChanSound(p, q)
    /\ ChanOrdered(p, q)
    /\ ChanComplete(p, q)
    /\ TakenWritten(p, q)

BufOK(p) ==
    \A r \in Rounds, j \in Parties :
        buf[p][r][j] = Prefix(j, r, Progress(p, r, j))

IInv ==
    /\ TypeOK
    /\ \A p \in Parties : LoopOK(p)
    /\ \A p, q \in Parties : ChanOK(p, q)
    /\ \A p \in Parties : BufOK(p)

-----------------------------------------------------------------------------

(* Calls and their sizes are numbers.                                      *)
LEMMA CallsFacts ==
    /\ Len(Calls) \in Nat \ {0}
    /\ Rounds \subseteq Int
    /\ \A r \in Rounds : Size(r) \in Nat \ {0}
    /\ 1 \in Rounds /\ Len(Calls) \in Rounds
    /\ G \in Nat /\ G >= 2
    /\ Window \in Nat \ {0}
<1>1. Len(Calls) \in Nat \ {0}
  BY CallsAssumption, EmptySeq
<1>2. Rounds \subseteq Int /\ 1 \in Rounds /\ Len(Calls) \in Rounds
  BY <1>1 DEF Rounds
<1>3. ASSUME NEW r \in Rounds PROVE Size(r) \in Nat \ {0}
  <2>1. Calls[r] \in [call : {"share", "to_p0"}, size : Nat \ {0}]
    BY CallsAssumption, ElementOfSeq DEF Rounds
  <2> QED
    BY <2>1 DEF Size
<1> QED
  BY <1>1, <1>2, <1>3, PartiesAssumption, WindowAssumption

(* Taking one more segment of a chunk makes its prefix one longer.         *)
LEMMA AppendPrefix ==
    ASSUME NEW j \in Parties, NEW r \in Rounds, NEW n \in Nat
    PROVE  /\ Prefix(j, r, n) \in Seq(Segments)
           /\ Append(Prefix(j, r, n), Segment(j, r, n + 1)) = Prefix(j, r, n + 1)
<1>1. Prefix(j, r, n) \in Seq(Segments)
  BY DEF Prefix, Segment, Segments
<1>2. Len(Prefix(j, r, n)) = n
  BY DEF Prefix
<1>3. Len(Append(Prefix(j, r, n), Segment(j, r, n + 1))) = n + 1
  BY <1>1, <1>2, AppendProperties, Segment(j, r, n + 1) \in Segments
     DEF Segment, Segments
<1> QED
  BY <1>1, <1>2, <1>3 DEF Prefix, Segment, Segments

(* The whole message is the longest of its prefixes.                       *)
LEMMA MessageIsPrefix ==
    ASSUME NEW j, NEW r
    PROVE  Message(j, r) = Prefix(j, r, Size(r))
BY DEF Message, Prefix

(* The types are right at first.                                           *)
LEMMA InitType == Init => TypeOK
BY CallsFacts DEF Init, TypeOK, FirstTurn, FirstDest, Parties, Rounds

(* The invariant holds at first.                                           *)
LEMMA InitIInv == Init => IInv
<1> SUFFICES ASSUME Init PROVE IInv
  OBVIOUS
<1>1. TypeOK
  BY InitType
<1>2. ASSUME NEW p \in Parties PROVE LoopOK(p)
  BY CallsFacts DEF Init, LoopOK, FirstTurn, FirstDest, Sources, Dests,
                    HasBuffer, Parties, Rounds
<1>3. ASSUME NEW p \in Parties, NEW q \in Parties PROVE ChanOK(p, q)
  <2>1. chan[p][q] = << >> /\ Len(chan[p][q]) = 0
    BY DEF Init
  <2>2. ASSUME NEW r \in Rounds, NEW k \in 1 .. Size(r), Owed(p, q, r, k)
        PROVE  ~Written(p, q, r, k) /\ ~Taken(p, q, r, k)
    BY <2>2, CallsFacts DEF Init, Owed, Written, Taken, FirstTurn, FirstDest,
                            Dests, HasBuffer, Parties, Rounds
  <2> QED
    BY <2>1, <2>2 DEF ChanOK, ChanSound, ChanOrdered, ChanComplete, TakenWritten
<1>4. ASSUME NEW p \in Parties PROVE BufOK(p)
  <2> SUFFICES ASSUME NEW r \in Rounds, NEW j \in Parties
               PROVE  buf[p][r][j] = Prefix(j, r, Progress(p, r, j))
    BY DEF BufOK
  <2>1. Progress(p, r, j) = 0
    BY CallsFacts DEF Init, Progress, FirstTurn, HasBuffer, Parties, Rounds
  <2> QED
    BY <2>1 DEF Init, Prefix
<1> QED
  BY <1>1, <1>2, <1>3, <1>4 DEF IInv

-----------------------------------------------------------------------------
(* Between an unchanged channel and unchanged marks nothing has to be      *)
(* shown of a pair.                                                        *)

(* What of a pair of parties does not change with others.                  *)
LEMMA PairFrame ==
    ASSUME NEW p \in Parties, NEW q \in Parties, ChanOK(p, q),
           chan \in [Parties -> [Parties -> Seq(Segments)]],
           chan'[p][q] = chan[p][q],
           ASSUME NEW r \in Rounds, NEW k \in 1 .. Size(r), Owed(p, q, r, k)
           PROVE  /\ Written(p, q, r, k)' <=> Written(p, q, r, k)
                  /\ Taken(p, q, r, k)' <=> Taken(p, q, r, k)
    PROVE  ChanOK(p, q)'
<1>1. ChanSound(p, q)'
  <2> SUFFICES ASSUME NEW i \in 1 .. Len(chan[p][q]), NEW s,
                      s = chan[p][q][i]
               PROVE  /\ s.from = p
                      /\ Owed(p, q, s.rnd, s.seg)
                      /\ Written(p, q, s.rnd, s.seg)'
                      /\ ~Taken(p, q, s.rnd, s.seg)'
    BY DEF ChanSound, Owed
  <2>1. /\ s.from = p
        /\ Owed(p, q, s.rnd, s.seg)
        /\ Written(p, q, s.rnd, s.seg)
        /\ ~Taken(p, q, s.rnd, s.seg)
    BY DEF ChanOK, ChanSound
  <2>2. s.rnd \in Rounds /\ s.seg \in 1 .. Size(s.rnd)
    BY <2>1 DEF Owed
  <2> QED
    BY <2>1, <2>2
<1>2. ChanOrdered(p, q)'
  BY DEF ChanOK, ChanOrdered
<1>3. ChanComplete(p, q)'
  BY DEF ChanOK, ChanComplete, Owed
<1>4. TakenWritten(p, q)'
  BY DEF ChanOK, TakenWritten, Owed
<1> QED
  BY <1>1, <1>2, <1>3, <1>4 DEF ChanOK

(* The counters of a party are integers.                                   *)
LEMMA Counters ==
    ASSUME IInv, NEW p \in Parties
    PROVE  /\ p \in Int /\ 0 <= p /\ p < G /\ G \in Int
           /\ round[p] \in Int /\ turn[p] \in Int /\ dest[p] \in Int
           /\ sofar[p] \in Int /\ 0 <= sofar[p]
           /\ 1 <= round[p] /\ round[p] <= Len(Calls) + 1
           /\ 0 <= turn[p] /\ turn[p] <= G /\ 0 <= dest[p] /\ dest[p] <= G
<1>1. p \in 0 .. G - 1 /\ G \in Nat /\ Len(Calls) \in Nat
  BY CallsFacts DEF Parties
<1>2. /\ round[p] \in 1 .. Len(Calls) + 1 /\ turn[p] \in 0 .. G
      /\ dest[p] \in 0 .. G /\ sofar[p] \in Nat
  BY DEF IInv, TypeOK
<1> QED
  BY <1>1, <1>2

(* A segment that is owed is of some call, and has a number.               *)
LEMMA OwedIsInt ==
    ASSUME NEW p, NEW q, NEW r, NEW k, Owed(p, q, r, k)
    PROVE  r \in Int /\ k \in Int /\ 1 <= k /\ k <= Size(r)
<1>1. r \in Rounds /\ k \in 1 .. Size(r)
  BY DEF Owed
<1>2. r \in Int /\ Size(r) \in Int
  BY <1>1, CallsFacts
<1> QED
  BY <1>1, <1>2

(* What Write(p) changes of the marks: the segment it writes.              *)
LEMMA WriteMarks ==
    ASSUME IInv, NEW p \in Parties, Write(p),
           NEW a \in Parties, NEW b \in Parties,
           NEW r \in Rounds, NEW k \in 1 .. Size(r), Owed(a, b, r, k)
    PROVE  /\ Taken(a, b, r, k)' <=> Taken(a, b, r, k)
           /\ Written(a, b, r, k)' <=>
                \/ Written(a, b, r, k)
                \/ a = p /\ b = dest[p] /\ r = round[p] /\ k = sofar[p] + 1
<1> DEFINE rp == round[p]
           last == sofar[p] + 1 = Size(rp)
<1>1. /\ rp \in Rounds /\ turn[p] = p
      /\ dest[p] \in Dests(p, rp) /\ sofar[p] < Size(rp)
      /\ a # b /\ b \in Dests(a, r) /\ k \in Int /\ 1 <= k /\ k <= Size(r)
  BY CallsFacts DEF IInv, LoopOK, Write, Writing, InCall, Owed, Dests
<1>2. /\ round'[a] = round[a] /\ round'[b] = round[b]
      /\ turn'[a] = turn[a] /\ turn'[b] = turn[b]
      /\ sofar'[a] = IF a = p THEN (IF last THEN 0 ELSE sofar[p] + 1)
                              ELSE sofar[a]
      /\ sofar'[b] = IF b = p THEN (IF last THEN 0 ELSE sofar[p] + 1)
                              ELSE sofar[b]
      /\ dest'[a] = IF a = p /\ last THEN NextDest(p, rp, dest[p]) ELSE dest[a]
  BY DEF Write, IInv, TypeOK
<1>3. Taken(a, b, r, k)' <=> Taken(a, b, r, k)
  BY <1>1, <1>2, Counters DEF Taken
<1>4. CASE a # p
  BY <1>2, <1>3, <1>4 DEF Written
<1>5. CASE a = p
  <2>1. CASE r # rp
    BY <1>2, <1>3, <1>5, <2>1 DEF Written
  <2>2. CASE r = rp /\ ~last
    BY <1>1, <1>2, <1>3, <1>5, <2>2, Counters DEF Written
  <2>3. CASE r = rp /\ last
    <3>1. dest[p] < NextDest(p, rp, dest[p])
          /\ (b <= dest[p] <=> b < NextDest(p, rp, dest[p]))
      <4>1. b \in Int /\ b < G /\ dest[p] \in Int /\ p \in Int /\ b # p
            /\ G \in Int /\ dest[p] < G
        BY <1>1, <1>5, Counters, CallsFacts DEF Dests, Parties
      <4>2. ToAll(rp) \/ (b = 0 /\ dest[p] = 0)
        BY <1>1, <1>5, <2>3 DEF Dests
      <4> QED
        BY <4>1, <4>2 DEF NextDest
    <3>2. dest'[p] = NextDest(p, rp, dest[p]) /\ dest'[p] \in Int
      BY <1>2, <1>5, <2>3, <1>1, Counters, CallsFacts, SMTT(30) DEF NextDest
    <3> QED
      BY <1>1, <1>2, <1>3, <1>5, <2>3, <3>1, <3>2, Counters, SMTT(30)
         DEF Written
  <2> QED
    BY <2>1, <2>2, <2>3
<1> QED
  BY <1>4, <1>5

(* What Read(p) changes of the marks: the segment it takes.                *)
LEMMA ReadMarks ==
    ASSUME IInv, NEW p \in Parties, Read(p),
           NEW a \in Parties, NEW b \in Parties,
           NEW r \in Rounds, NEW k \in 1 .. Size(r), Owed(a, b, r, k)
    PROVE  /\ Written(a, b, r, k)' <=> Written(a, b, r, k)
           /\ Taken(a, b, r, k)' <=>
                \/ Taken(a, b, r, k)
                \/ b = p /\ a = turn[p] /\ r = round[p] /\ k = sofar[p] + 1
<1> DEFINE rp == round[p]
           last == sofar[p] + 1 = Size(rp)
<1>1. /\ rp \in Rounds /\ turn[p] \in Sources(p, rp)
      /\ turn[p] < p => dest[p] = FirstDest(p, rp)
      /\ sofar[p] < Size(rp)
      /\ a # b /\ b \in Dests(a, r) /\ k \in Int /\ 1 <= k /\ k <= Size(r)
  BY CallsFacts DEF IInv, LoopOK, Read, Reading, InCall, Owed, Dests
<1>2. NextTurn(p, rp, turn[p]) = turn[p] + 1 /\ turn[p] # p
  BY <1>1 DEF NextTurn, HasBuffer, Sources
<1>3. /\ round'[a] = round[a] /\ round'[b] = round[b] /\ dest'[a] = dest[a]
      /\ sofar'[a] = IF a = p THEN (IF last THEN 0 ELSE sofar[p] + 1)
                              ELSE sofar[a]
      /\ sofar'[b] = IF b = p THEN (IF last THEN 0 ELSE sofar[p] + 1)
                              ELSE sofar[b]
      /\ turn'[a] = IF a = p /\ last THEN turn[p] + 1 ELSE turn[a]
      /\ turn'[b] = IF b = p /\ last THEN turn[p] + 1 ELSE turn[b]
  BY <1>2 DEF Read, IInv, TypeOK
<1>4. Written(a, b, r, k)' <=> Written(a, b, r, k)
  <2>1. CASE a # p
    BY <1>3, <2>1 DEF Written
  <2>2. CASE a = p /\ r = rp /\ turn[p] < p
    <3>1. dest[p] <= b
      BY <1>1, <2>2, Counters DEF FirstDest, Dests
    <3> QED
      BY <1>1, <1>2, <1>3, <2>2, <3>1, Counters, SMTT(30) DEF Written
  <2>3. CASE a = p /\ ~(r = rp /\ turn[p] < p)
    BY <1>1, <1>2, <1>3, <2>3, Counters DEF Written
  <2> QED
    BY <2>1, <2>2, <2>3, Counters
<1>5. CASE b # p
  BY <1>3, <1>4, <1>5 DEF Taken
<1>6. CASE b = p
  <2>1. CASE r # rp
    BY <1>3, <1>4, <1>6, <2>1 DEF Taken
  <2>2. /\ a \in Int /\ k \in Int /\ 1 <= k /\ k <= Size(r)
        /\ turn[p] \in Int /\ round[p] \in Int /\ sofar[p] \in Int
    BY <1>1, Counters
  <2>3. CASE r = rp
    <3>1. Taken(a, b, r, k) <=> turn[p] > a \/ (turn[p] = a /\ k <= sofar[p])
      BY <1>6, <2>2, <2>3 DEF Taken
    <3>2. CASE last
      <4>1. Taken(a, b, r, k)' <=> turn[p] + 1 > a \/ (turn[p] + 1 = a /\ k <= 0)
        BY <1>3, <1>6, <2>2, <2>3, <3>2 DEF Taken
      <4>2. k <= sofar[p] + 1
        BY <2>2, <2>3, <3>2
      <4> HIDE DEF rp, last
      <4> QED
        BY <1>4, <1>6, <2>2, <2>3, <3>1, <4>1, <4>2 DEF rp
    <3>3. CASE ~last
      <4>1. Taken(a, b, r, k)' <=>
              turn[p] > a \/ (turn[p] = a /\ k <= sofar[p] + 1)
        BY <1>3, <1>6, <2>2, <2>3, <3>3 DEF Taken
      <4> HIDE DEF last
      <4> QED
        BY <1>4, <1>6, <2>2, <2>3, <3>1, <4>1
    <3> QED
      BY <3>2, <3>3
  <2> QED
    BY <2>1, <2>3
<1> QED
  BY <1>5, <1>6

(* The party's own turn and the end of a call change none of the marks.    *)
LEMMA LocalMarks ==
    ASSUME IInv, NEW p \in Parties, OwnChunk(p) \/ EndCall(p),
           NEW a \in Parties, NEW b \in Parties,
           NEW r \in Rounds, NEW k \in 1 .. Size(r), Owed(a, b, r, k)
    PROVE  /\ Written(a, b, r, k)' <=> Written(a, b, r, k)
           /\ Taken(a, b, r, k)' <=> Taken(a, b, r, k)
<1> DEFINE rp == round[p]
<1>1. /\ rp \in Rounds /\ sofar[p] = 0 /\ sofar' = sofar
      /\ a # b /\ b \in Dests(a, r) /\ HasBuffer(b, r)
      /\ k \in Int /\ 1 <= k /\ k <= Size(r) /\ r \in Int
  BY CallsFacts DEF IInv, LoopOK, OwnChunk, EndCall, InCall, Owed, Dests, HasBuffer
<1>2. CASE OwnChunk(p)
  <2> DEFINE t == NextTurn(p, rp, p)
  <2>1. /\ turn[p] = p /\ dest[p] = G /\ round' = round /\ dest' = dest
        /\ turn'[a] = IF a = p THEN t ELSE turn[a]
        /\ turn'[b] = IF b = p THEN t ELSE turn[b]
    BY <1>2 DEF OwnChunk, IInv, TypeOK
  <2>2. t \in Int /\ t > p /\ (HasBuffer(p, rp) => t = p + 1)
    BY Counters DEF NextTurn
  <2> HIDE DEF t
  <2>3. Written(a, b, r, k)' <=> Written(a, b, r, k)
    BY <1>1, <2>1, <2>2, Counters DEF Written
  <2>4. Taken(a, b, r, k)' <=> Taken(a, b, r, k)
    BY <1>1, <2>1, <2>2, Counters, SMTT(30) DEF Taken
  <2> QED
    BY <2>3, <2>4
<1>3. CASE EndCall(p)
  <2> DEFINE t == FirstTurn(p, rp + 1)
             d == FirstDest(p, rp + 1)
  <2>1. /\ turn[p] = G
        /\ round'[a] = IF a = p THEN rp + 1 ELSE round[a]
        /\ round'[b] = IF b = p THEN rp + 1 ELSE round[b]
        /\ turn'[a] = IF a = p THEN t ELSE turn[a]
        /\ turn'[b] = IF b = p THEN t ELSE turn[b]
        /\ dest'[a] = IF a = p THEN d ELSE dest[a]
    BY <1>3 DEF EndCall, IInv, TypeOK
  <2>2. /\ t \in Int /\ d \in Int /\ t \in {0, p}
        /\ (rp + 1 \in Rounds /\ HasBuffer(p, rp + 1) => t = 0)
        /\ (a = p /\ r = rp + 1 => d <= b)
    BY <1>1, Counters DEF FirstTurn, FirstDest, Dests
  <2> HIDE DEF t, d
  <2>3. Written(a, b, r, k)' <=> Written(a, b, r, k)
    BY <1>1, <2>1, <2>2, Counters DEF Written
  <2>4. Taken(a, b, r, k)' <=> Taken(a, b, r, k)
    BY <1>1, <2>1, <2>2, Counters, SMTT(30) DEF Taken
  <2> QED
    BY <2>3, <2>4
<1> QED
  BY <1>2, <1>3

-----------------------------------------------------------------------------
(* The channels.                                                           *)

(* The channels after a write,                                             *)
LEMMA WriteChan ==
    ASSUME IInv, NEW p \in Parties, Write(p),
           NEW a \in Parties, NEW b \in Parties
    PROVE  ChanOK(a, b)'
<1> DEFINE q == dest[p]
           r == round[p]
           k == sofar[p] + 1
           c == chan[p][q]
           e == Segment(p, r, k)
<1>1. /\ q \in Parties /\ r \in Rounds /\ k \in 1 .. Size(r)
      /\ Owed(p, q, r, k) /\ turn[p] = p /\ status[p] = "run" /\ p # q
      /\ status' = status
  <2>1. /\ r \in Rounds /\ q \in Dests(p, r) /\ sofar[p] < Size(r)
        /\ turn[p] = p /\ status[p] = "run" /\ status' = status
    BY DEF IInv, LoopOK, Write, Writing, InCall
  <2>2. q \in Parties /\ q # p
    BY <2>1, CallsFacts DEF Dests, Parties
  <2>3. k \in 1 .. Size(r)
    BY <2>1, Counters, CallsFacts, SMTT(30)
  <2> QED
    BY <2>1, <2>2, <2>3 DEF Owed
<1>2. /\ chan \in [Parties -> [Parties -> Seq(Segments)]]
      /\ c \in Seq(Segments) /\ Len(c) \in Nat
  <2>1. chan \in [Parties -> [Parties -> Seq(Segments)]]
    BY DEF IInv, TypeOK
  <2>2. c \in Seq(Segments)
    BY <1>1, <2>1
  <2> QED
    BY <2>1, <2>2, LenProperties
<1>3. chan'[a][b] = IF a = p /\ b = q THEN Append(c, e) ELSE chan[a][b]
  BY <1>2 DEF Write
<1>4. ChanOK(a, b)
  BY DEF IInv
<1>5. CASE ~(a = p /\ b = q)
  <2>1. ASSUME NEW rr \in Rounds, NEW kk \in 1 .. Size(rr), Owed(a, b, rr, kk)
        PROVE  /\ Written(a, b, rr, kk)' <=> Written(a, b, rr, kk)
               /\ Taken(a, b, rr, kk)' <=> Taken(a, b, rr, kk)
    BY <1>5, <2>1, WriteMarks
  <2>2. chan'[a][b] = chan[a][b]
    BY <1>3, <1>5
  <2> QED
    BY <1>1, <1>2, <1>4, <2>1, <2>2, PairFrame
<1>6. CASE a = p /\ b = q
  <2> DEFINE d == Append(c, e)
  <2>1. e \in Segments /\ e.from = p /\ e.rnd = r /\ e.seg = k
    BY <1>1, CallsFacts DEF Segment, Segments
  <2>2. /\ Len(d) = Len(c) + 1
        /\ \A i \in 1 .. Len(c) : d[i] = c[i]
        /\ d[Len(c) + 1] = e
        /\ \A i \in 1 .. Len(d) : i \in 1 .. Len(c) \/ i = Len(c) + 1
    <3> HIDE DEF c, e
    <3>1. /\ Len(d) = Len(c) + 1
          /\ \A i \in 1 .. Len(c) : d[i] = c[i]
          /\ d[Len(c) + 1] = e
      BY <1>2, <2>1, AppendProperties
    <3> QED
      BY <3>1, <1>2
  <2>3. chan'[a][b] = d
    BY <1>3, <1>6
  <2>4. ASSUME NEW rr \in Rounds, NEW kk \in 1 .. Size(rr), Owed(a, b, rr, kk)
        PROVE  /\ Taken(a, b, rr, kk)' <=> Taken(a, b, rr, kk)
               /\ Written(a, b, rr, kk)' <=>
                    Written(a, b, rr, kk) \/ (rr = r /\ kk = k)
    BY <1>1, <1>6, <2>4, WriteMarks
  <2>5. ~Written(a, b, r, k)
    BY <1>1, <1>6, Counters DEF Written
  <2>6. ~Taken(a, b, r, k)
    BY <1>1, <1>4, <1>6, <2>5 DEF ChanOK, TakenWritten
  <2> HIDE DEF d, e, q, r, k, c
  <2>7. ChanSound(a, b)'
    <3> SUFFICES ASSUME NEW i \in 1 .. Len(d), NEW s, s = d[i]
                 PROVE  /\ s.from = p
                        /\ Owed(a, b, s.rnd, s.seg)
                        /\ Written(a, b, s.rnd, s.seg)'
                        /\ ~Taken(a, b, s.rnd, s.seg)'
      BY <1>6, <2>3 DEF ChanSound, Owed
    <3>1. CASE i = Len(c) + 1
      <4>1. s = e
        BY <2>2, <3>1
      <4> QED
        BY <1>1, <1>6, <2>1, <2>4, <2>6, <4>1
    <3>2. CASE i \in 1 .. Len(c)
      <4>1. s = chan[a][b][i] /\ i \in 1 .. Len(chan[a][b])
        BY <1>6, <2>2, <3>2 DEF c, q
      <4>2. /\ s.from = p /\ Owed(a, b, s.rnd, s.seg)
            /\ Written(a, b, s.rnd, s.seg) /\ ~Taken(a, b, s.rnd, s.seg)
        BY <1>4, <1>6, <4>1 DEF ChanOK, ChanSound
      <4> QED
        BY <2>4, <4>2 DEF Owed
    <3> QED
      BY <2>2, <3>1, <3>2
  <2>8. ChanOrdered(a, b)'
    <3>1. ASSUME NEW i \in 1 .. Len(c) PROVE Before(c[i], e)
      <4> DEFINE s == c[i]
      <4>1. Owed(a, b, s.rnd, s.seg) /\ Written(a, b, s.rnd, s.seg)
        BY <1>4, <1>6 DEF ChanOK, ChanSound, c, q
      <4>2. s.rnd \in Int /\ s.seg \in Int
        BY <4>1, OwedIsInt
      <4> HIDE DEF s
      <4>3. s.rnd < r \/ (s.rnd = r /\ s.seg < k)
        BY <1>1, <1>6, <4>1, <4>2, Counters DEF Written, r, k, q
      <4> QED
        BY <4>3, <2>1 DEF Before, s
    <3>2. \A i, j \in 1 .. Len(c) : i < j => Before(c[i], c[j])
      BY <1>4, <1>6 DEF ChanOK, ChanOrdered, c, q
    <3>3. ASSUME NEW i \in 1 .. Len(d), NEW j \in 1 .. Len(d), i < j
          PROVE  Before(d[i], d[j])
      <4>1. i \in 1 .. Len(c) /\ d[i] = c[i]
        BY <1>2, <2>2, <3>3
      <4>2. (j \in 1 .. Len(c) /\ d[j] = c[j]) \/ d[j] = e
        BY <2>2
      <4> QED
        BY <3>1, <3>2, <3>3, <4>1, <4>2
    <3> QED
      BY <2>3, <3>3 DEF ChanOrdered
  <2>9. ChanComplete(a, b)'
    <3> SUFFICES ASSUME NEW rr \in Rounds, NEW kk \in 1 .. Size(rr),
                        Owed(a, b, rr, kk),
                        Written(a, b, rr, kk)', ~Taken(a, b, rr, kk)'
                 PROVE  \E i \in 1 .. Len(d) : d[i] = Segment(p, rr, kk)
      BY <1>6, <2>3 DEF ChanComplete, Owed
    <3>1. CASE rr = r /\ kk = k
      <4>1. Len(c) + 1 \in 1 .. Len(d) /\ d[Len(c) + 1] = e
        BY <1>2, <2>2
      <4> QED
        BY <3>1, <4>1 DEF e
    <3>2. CASE ~(rr = r /\ kk = k)
      <4>1. Written(a, b, rr, kk) /\ ~Taken(a, b, rr, kk)
        BY <2>4, <3>2
      <4>2. PICK i \in 1 .. Len(c) : c[i] = Segment(p, rr, kk)
        BY <1>1, <1>4, <1>6, <4>1 DEF ChanOK, ChanComplete, c, q
      <4> QED
        BY <1>2, <2>2, <4>2
    <3> QED
      BY <3>1, <3>2
  <2>10. TakenWritten(a, b)'
    BY <1>4, <1>6, <2>4 DEF ChanOK, TakenWritten, Owed
  <2> QED
    BY <1>6, <2>7, <2>8, <2>9, <2>10 DEF ChanOK
<1> QED
  BY <1>5, <1>6

(* The first segment of a channel is the one its reader waits for.         *)
LEMMA HeadIsNext ==
    ASSUME IInv, NEW p \in Parties, Reading(p), chan[turn[p]][p] # << >>
    PROVE  /\ turn[p] \in Parties /\ turn[p] # p
           /\ Owed(turn[p], p, round[p], sofar[p] + 1)
           /\ round[p] \in Rounds /\ sofar[p] + 1 \in 1 .. Size(round[p])
           /\ chan[turn[p]][p][1] = Segment(turn[p], round[p], sofar[p] + 1)
           /\ 1 \in 1 .. Len(chan[turn[p]][p])
<1> DEFINE i == turn[p]
           r == round[p]
           k == sofar[p] + 1
           c == chan[i][p]
           h == c[1]
<1>1. /\ i \in Parties /\ i # p /\ r \in Rounds /\ k \in 1 .. Size(r)
      /\ Owed(i, p, r, k)
  <2>1. r \in Rounds /\ i \in Sources(p, r) /\ sofar[p] < Size(r)
    BY DEF IInv, LoopOK, Reading, InCall
  <2>2. i \in Parties /\ i # p /\ p \in Dests(i, r)
    BY <2>1, CallsFacts DEF Sources, Dests, Parties
  <2>3. k \in 1 .. Size(r)
    BY <2>1, Counters, CallsFacts, SMTT(30)
  <2> QED
    BY <2>1, <2>2, <2>3 DEF Owed
<1>2. c \in Seq(Segments) /\ 1 \in 1 .. Len(c)
  <2>1. c \in Seq(Segments)
    BY <1>1 DEF IInv, TypeOK
  <2> QED
    BY <2>1, EmptySeq, LenProperties
<1>3. ChanOK(i, p)
  BY <1>1 DEF IInv
<1>4. /\ h.from = i /\ Owed(i, p, h.rnd, h.seg)
      /\ Written(i, p, h.rnd, h.seg) /\ ~Taken(i, p, h.rnd, h.seg)
  BY <1>2, <1>3 DEF ChanOK, ChanSound
<1>5. h.rnd \in Int /\ h.seg \in Int /\ r \in Int /\ k \in Int
      /\ h.rnd \in Rounds /\ h.seg \in 1 .. Size(h.rnd)
  BY <1>1, <1>4, OwedIsInt DEF Owed
<1>6. r < h.rnd \/ (r = h.rnd /\ k <= h.seg)
  <2>1. sofar[p] \in Int
    BY Counters
  <2>2. /\ ~(h.rnd < r)
        /\ ~(h.rnd = r /\ h.seg <= sofar[p])
    BY <1>4 DEF Taken
  <2> HIDE DEF h, r
  <2> QED
    BY <1>5, <2>1, <2>2
<1>7. Written(i, p, r, k) /\ ~Taken(i, p, r, k)
  <2>1. /\ i \in Int /\ p \in Int /\ sofar[p] \in Int /\ round[i] \in Int
        /\ turn[i] \in Int /\ dest[i] \in Int /\ sofar[i] \in Int
    BY <1>1, Counters
  <2>2. ~Taken(i, p, r, k)
    BY <1>5, <2>1 DEF Taken
  <2> HIDE DEF h, r, k, i
  <2>3. CASE r < h.rnd
    <3>1. h.rnd <= round[i]
      BY <1>4, <1>5, <2>1 DEF Written
    <3> QED
      BY <1>5, <2>1, <2>2, <2>3, <3>1 DEF Written
  <2>4. CASE r = h.rnd /\ k <= h.seg
    BY <1>4, <1>5, <2>1, <2>2, <2>4 DEF Written
  <2> QED
    BY <1>6, <2>2, <2>3, <2>4
<1>8. PICK n \in 1 .. Len(c) : c[n] = Segment(i, r, k)
  BY <1>1, <1>3, <1>7 DEF ChanOK, ChanComplete
<1>9. n = 1
  <2>1. SUFFICES ASSUME 1 < n PROVE FALSE
    BY <1>8, <1>2
  <2>2. Before(h, c[n])
    BY <1>2, <1>3, <1>8, <2>1 DEF ChanOK, ChanOrdered
  <2> QED
    BY <1>5, <1>6, <1>8, <2>2 DEF Before, Segment
<1> QED
  BY <1>1, <1>2, <1>8, <1>9

(* after a read,                                                           *)
LEMMA ReadChan ==
    ASSUME IInv, NEW p \in Parties, Read(p),
           NEW a \in Parties, NEW b \in Parties
    PROVE  ChanOK(a, b)'
<1> DEFINE q == turn[p]
           r == round[p]
           k == sofar[p] + 1
           c == chan[q][p]
<1>1. /\ Reading(p) /\ c # << >> /\ status' = status
      /\ chan' = [chan EXCEPT ![q][p] = Tail(c)]
  BY DEF Read
<1>2. /\ q \in Parties /\ q # p /\ r \in Rounds /\ k \in 1 .. Size(r)
      /\ Owed(q, p, r, k) /\ c[1] = Segment(q, r, k) /\ 1 \in 1 .. Len(c)
  BY <1>1, HeadIsNext
<1>3. /\ chan \in [Parties -> [Parties -> Seq(Segments)]]
      /\ c \in Seq(Segments) /\ Len(c) \in Nat
  <2>1. chan \in [Parties -> [Parties -> Seq(Segments)]]
    BY DEF IInv, TypeOK
  <2>2. c \in Seq(Segments)
    BY <1>2, <2>1
  <2> QED
    BY <2>1, <2>2, LenProperties
<1>4. ChanOK(a, b)
  BY DEF IInv
<1>5. CASE ~(a = q /\ b = p)
  <2>1. ASSUME NEW rr \in Rounds, NEW kk \in 1 .. Size(rr), Owed(a, b, rr, kk)
        PROVE  /\ Written(a, b, rr, kk)' <=> Written(a, b, rr, kk)
               /\ Taken(a, b, rr, kk)' <=> Taken(a, b, rr, kk)
    BY <1>5, <2>1, ReadMarks
  <2>2. chan'[a][b] = chan[a][b]
    BY <1>1, <1>3, <1>5
  <2> QED
    BY <1>1, <1>3, <1>4, <2>1, <2>2, PairFrame
<1>6. CASE a = q /\ b = p
  <2> DEFINE d == Tail(c)
  <2>1. chan'[a][b] = d /\ chan[a][b] = c
    BY <1>1, <1>2, <1>3, <1>6
  <2>2. /\ Len(d) = Len(c) - 1 /\ Len(d) \in Nat
        /\ \A i \in 1 .. Len(d) : d[i] = c[i + 1] /\ i + 1 \in 1 .. Len(c)
    <3> HIDE DEF c
    <3>1. Len(d) = Len(c) - 1 /\ \A i \in 1 .. Len(d) : d[i] = c[i + 1]
      BY <1>1, <1>3, HeadTailProperties
    <3> QED
      BY <3>1, <1>2, <1>3
  <2>3. ASSUME NEW rr \in Rounds, NEW kk \in 1 .. Size(rr), Owed(a, b, rr, kk)
        PROVE  /\ Written(a, b, rr, kk)' <=> Written(a, b, rr, kk)
               /\ Taken(a, b, rr, kk)' <=>
                    Taken(a, b, rr, kk) \/ (rr = r /\ kk = k)
    BY <1>6, <2>3, ReadMarks
  <2>4. Segment(q, r, k).rnd = r /\ Segment(q, r, k).seg = k
    BY DEF Segment
  <2>5. Written(a, b, r, k)
    BY <1>2, <1>4, <1>6, <2>1, <2>4 DEF ChanOK, ChanSound
  <2> HIDE DEF d, q, r, k, c
  <2>6. \A i, j \in 1 .. Len(c) : i < j => Before(c[i], c[j])
    BY <1>4, <2>1 DEF ChanOK, ChanOrdered
  <2>7. ASSUME NEW i \in 1 .. Len(c)
        PROVE  /\ c[i].from = a
               /\ Owed(a, b, c[i].rnd, c[i].seg)
               /\ Written(a, b, c[i].rnd, c[i].seg)
               /\ ~Taken(a, b, c[i].rnd, c[i].seg)
    BY <1>4, <2>1 DEF ChanOK, ChanSound
  <2>8. ChanSound(a, b)'
    <3> SUFFICES ASSUME NEW i \in 1 .. Len(d), NEW s, s = d[i]
                 PROVE  /\ s.from = a
                        /\ Owed(a, b, s.rnd, s.seg)
                        /\ Written(a, b, s.rnd, s.seg)'
                        /\ ~Taken(a, b, s.rnd, s.seg)'
      BY <2>1 DEF ChanSound, Owed
    <3>1. s = c[i + 1] /\ i + 1 \in 1 .. Len(c) /\ 1 < i + 1
      BY <2>2
    <3>2. /\ s.from = a /\ Owed(a, b, s.rnd, s.seg)
          /\ Written(a, b, s.rnd, s.seg) /\ ~Taken(a, b, s.rnd, s.seg)
      BY <2>7, <3>1
    <3>3. ~(s.rnd = r /\ s.seg = k)
      <4>1. Before(Segment(q, r, k), s)
        BY <1>2, <2>6, <3>1
      <4>2. r \in Int /\ k \in Int
        BY <1>2, OwedIsInt
      <4> QED
        BY <2>4, <4>1, <4>2 DEF Before
    <3> QED
      BY <2>3, <3>2, <3>3 DEF Owed
  <2>9. ChanOrdered(a, b)'
    <3>1. ASSUME NEW i \in 1 .. Len(d), NEW j \in 1 .. Len(d), i < j
          PROVE  Before(d[i], d[j])
      BY <2>2, <2>6, <3>1
    <3> QED
      BY <2>1, <3>1 DEF ChanOrdered
  <2>10. ChanComplete(a, b)'
    <3> SUFFICES ASSUME NEW rr \in Rounds, NEW kk \in 1 .. Size(rr),
                        Owed(a, b, rr, kk),
                        Written(a, b, rr, kk)', ~Taken(a, b, rr, kk)'
                 PROVE  \E i \in 1 .. Len(d) : d[i] = Segment(a, rr, kk)
      BY <2>1 DEF ChanComplete, Owed
    <3>1. Written(a, b, rr, kk) /\ ~Taken(a, b, rr, kk) /\ ~(rr = r /\ kk = k)
      BY <2>3
    <3>2. PICK n \in 1 .. Len(c) : c[n] = Segment(a, rr, kk)
      BY <1>1, <1>4, <2>1, <3>1 DEF ChanOK, ChanComplete
    <3>3. n # 1
      BY <1>2, <2>4, <3>1, <3>2 DEF Segment
    <3>4. n - 1 \in 1 .. Len(d) /\ (n - 1) + 1 = n
      BY <1>3, <2>2, <3>3
    <3>5. d[n - 1] = c[n]
      BY <2>2, <3>4
    <3> QED
      BY <3>2, <3>4, <3>5
  <2>11. TakenWritten(a, b)'
    BY <1>4, <2>3, <2>5 DEF ChanOK, TakenWritten, Owed
  <2> QED
    BY <2>8, <2>9, <2>10, <2>11 DEF ChanOK
<1> QED
  BY <1>5, <1>6

(* after a step that touches none,                                         *)
LEMMA LocalChan ==
    ASSUME IInv, NEW p \in Parties, OwnChunk(p) \/ EndCall(p),
           NEW a \in Parties, NEW b \in Parties
    PROVE  ChanOK(a, b)'
<1>1. ASSUME NEW rr \in Rounds, NEW kk \in 1 .. Size(rr), Owed(a, b, rr, kk)
      PROVE  /\ Written(a, b, rr, kk)' <=> Written(a, b, rr, kk)
             /\ Taken(a, b, rr, kk)' <=> Taken(a, b, rr, kk)
  BY <1>1, LocalMarks
<1>2. /\ ChanOK(a, b) /\ chan' = chan
      /\ chan \in [Parties -> [Parties -> Seq(Segments)]]
  BY DEF IInv, TypeOK, OwnChunk, EndCall
<1> QED
  BY <1>1, <1>2, PairFrame

(* and when a party stops.                                                 *)
LEMMA StopChan ==
    ASSUME IInv, NEW p \in Parties, Unwrap(p) \/ Panic(p),
           NEW a \in Parties, NEW b \in Parties
    PROVE  ChanOK(a, b)'
<1>1. /\ ChanOK(a, b) /\ chan' = chan /\ round' = round /\ turn' = turn
      /\ dest' = dest /\ sofar' = sofar
      /\ chan \in [Parties -> [Parties -> Seq(Segments)]]
  BY DEF IInv, TypeOK, Unwrap, Panic
<1>2. ASSUME NEW rr, NEW kk
      PROVE  /\ Written(a, b, rr, kk)' <=> Written(a, b, rr, kk)
             /\ Taken(a, b, rr, kk)' <=> Taken(a, b, rr, kk)
  BY <1>1 DEF Written, Taken
<1> QED
  BY <1>1, <1>2, PairFrame

(* A party that has returned has read everything: what is in a channel is  *)
(* not taken, and it has taken all.                                        *)
LEMMA DoneIsClean == IInv => CleanClose
<1> SUFFICES ASSUME IInv, NEW p \in Parties, NEW q \in Parties,
                    status[p] = "done", chan[q][p] # << >>
             PROVE  FALSE
  BY DEF CleanClose
<1>1. round[p] = Len(Calls) + 1
  BY DEF IInv, LoopOK
<1>2. 1 \in 1 .. Len(chan[q][p])
  <2>1. chan[q][p] \in Seq(Segments)
    BY DEF IInv, TypeOK
  <2> QED
    BY <2>1, EmptySeq
<1>3. Owed(q, p, chan[q][p][1].rnd, chan[q][p][1].seg)
      /\ ~Taken(q, p, chan[q][p][1].rnd, chan[q][p][1].seg)
  BY <1>2 DEF IInv, ChanOK, ChanSound
<1>4. chan[q][p][1].rnd \in Rounds
  BY <1>3 DEF Owed
<1> QED
  BY <1>1, <1>3, <1>4, CallsFacts DEF Taken, Rounds

-----------------------------------------------------------------------------
(* The counters, the buffers and the types, action by action.              *)

(* Parties are numbers, and nobody is their own peer.                      *)
LEMMA PeerFacts ==
    ASSUME NEW p \in Parties, NEW r
    PROVE  /\ Dests(p, r) \subseteq Parties \ {p}
           /\ Sources(p, r) \subseteq Parties \ {p}
           /\ \A x \in Parties : x \in Int /\ 0 <= x /\ x < G /\ x # G
           /\ G \in Int /\ 2 <= G
BY CallsFacts DEF Dests, Sources, Parties

(* Where the loops go next, and where they start, is where LoopOK wants it.*)
LEMMA LoopTargets ==
    ASSUME NEW p \in Parties, NEW r
    PROVE  /\ \A d \in Dests(p, r) : /\ NextDest(p, r, d) \in Dests(p, r) \cup {G}
                                     /\ NextDest(p, r, d) \in 0 .. G
           /\ FirstDest(p, r) \in 0 .. G
           /\ r \in Rounds => FirstDest(p, r) \in Dests(p, r) \cup {G}
           /\ FirstTurn(p, r) \in 0 .. G
           /\ r \in Rounds => FirstTurn(p, r) \in Sources(p, r) \cup {p, G}
           /\ NextTurn(p, r, p) \in Sources(p, r) \cup {p, G}
           /\ NextTurn(p, r, p) \in 0 .. G /\ NextTurn(p, r, p) > p
           /\ \A i \in Sources(p, r) :
                 /\ NextTurn(p, r, i) = i + 1
                 /\ i + 1 \in Sources(p, r) \cup {p, G}
                 /\ i + 1 \in 0 .. G
<1>1. p \in 0 .. G - 1 /\ G \in Nat /\ G >= 2 /\ 0 \in Parties
  BY CallsFacts DEF Parties
<1>2. ASSUME NEW d \in Dests(p, r)
      PROVE  /\ NextDest(p, r, d) \in Dests(p, r) \cup {G}
             /\ NextDest(p, r, d) \in 0 .. G
  <2>1. CASE ToAll(r)
    <3>1. d \in 0 .. G - 1 /\ d # p
      BY <1>2, <2>1 DEF Dests, Parties
    <3>2. NextDest(p, r, d) = IF d + 1 = p THEN d + 2 ELSE d + 1
      BY <2>1 DEF NextDest
    <3>3. NextDest(p, r, d) \in 0 .. G /\ NextDest(p, r, d) # p
      BY <1>1, <3>1, <3>2
    <3> QED
      BY <1>1, <2>1, <3>3 DEF Dests, Parties
  <2>2. CASE ~ToAll(r)
    BY <1>1, <2>2 DEF NextDest
  <2> QED
    BY <2>1, <2>2
<1>3. /\ FirstDest(p, r) \in 0 .. G
      /\ r \in Rounds => FirstDest(p, r) \in Dests(p, r) \cup {G}
  BY <1>1 DEF FirstDest, Dests, Parties
<1>4. /\ FirstTurn(p, r) \in 0 .. G
      /\ r \in Rounds => FirstTurn(p, r) \in Sources(p, r) \cup {p, G}
  BY <1>1 DEF FirstTurn, Sources, HasBuffer
<1>5. /\ NextTurn(p, r, p) \in Sources(p, r) \cup {p, G}
      /\ NextTurn(p, r, p) \in 0 .. G /\ NextTurn(p, r, p) > p
  BY <1>1 DEF NextTurn, HasBuffer, Sources, Parties
<1>6. ASSUME NEW i \in Sources(p, r)
      PROVE  /\ NextTurn(p, r, i) = i + 1
             /\ i + 1 \in Sources(p, r) \cup {p, G}
             /\ i + 1 \in 0 .. G
  <2>1. HasBuffer(p, r) /\ Sources(p, r) = Parties \ {p}
    BY <1>6 DEF HasBuffer, Sources
  <2>2. i \in 0 .. G - 1
    BY <2>1 DEF Parties
  <2> QED
    BY <1>1, <2>1, <2>2 DEF NextTurn, Parties
<1> QED
  BY <1>2, <1>3, <1>4, <1>5, <1>6

(* Each step keeps the types                                               *)
LEMMA TypeStep == IInv /\ [Next]_vars => TypeOK'
<1> SUFFICES ASSUME IInv, [Next]_vars PROVE TypeOK'
  OBVIOUS
<1>1. TypeOK
  BY DEF IInv
<1>2. ASSUME NEW p \in Parties, Write(p) PROVE TypeOK'
  <2>1. dest[p] \in Parties /\ round[p] \in Rounds /\ sofar[p] + 1 \in Nat \ {0}
    <3>1. round[p] \in Rounds /\ dest[p] \in Dests(p, round[p])
      BY <1>2 DEF Write, Writing, InCall
    <3>2. sofar[p] \in Nat
      BY <1>1 DEF TypeOK
    <3> QED
      BY <3>1, <3>2, PeerFacts
  <2>2. Segment(p, round[p], sofar[p] + 1) \in Segments
    BY <2>1 DEF Segment, Segments
  <2>3. chan[p][dest[p]] \in Seq(Segments)
    BY <1>1, <2>1 DEF TypeOK
  <2>4. Append(chan[p][dest[p]], Segment(p, round[p], sofar[p] + 1))
          \in Seq(Segments)
    BY <2>2, <2>3, AppendProperties
  <2>5. chan' \in [Parties -> [Parties -> Seq(Segments)]]
    BY <1>1, <1>2, <2>1, <2>4 DEF TypeOK, Write
  <2>6. NextDest(p, round[p], dest[p]) \in 0 .. G
    BY <1>2, LoopTargets DEF Write, Writing
  <2> QED
    BY <1>1, <1>2, <2>1, <2>5, <2>6 DEF TypeOK, Write
<1>3. ASSUME NEW p \in Parties, OwnChunk(p) PROVE TypeOK'
  <2>1. round[p] \in Rounds
    BY <1>3 DEF OwnChunk, InCall
  <2>2. Message(p, round[p]) \in Seq(Segments)
    BY <2>1, CallsFacts, AppendPrefix, MessageIsPrefix
  <2>3. buf' \in [Parties -> [Rounds -> [Parties -> Seq(Segments)]]]
    BY <1>1, <1>3, <2>1, <2>2 DEF TypeOK, OwnChunk
  <2>4. NextTurn(p, round[p], p) \in 0 .. G
    BY LoopTargets
  <2> QED
    BY <1>1, <1>3, <2>3, <2>4 DEF TypeOK, OwnChunk
<1>4. ASSUME NEW p \in Parties, Read(p) PROVE TypeOK'
  <2> DEFINE i == turn[p]
             r == round[p]
  <2>1. i \in Parties /\ r \in Rounds /\ chan[i][p] # << >> /\ sofar[p] \in Nat
    BY <1>1, <1>4, HeadIsNext DEF TypeOK, Read
  <2>2. chan[i][p] \in Seq(Segments) /\ buf[p][r][i] \in Seq(Segments)
    BY <1>1, <2>1 DEF TypeOK
  <2>3. Head(chan[i][p]) \in Segments /\ Tail(chan[i][p]) \in Seq(Segments)
    BY <2>1, <2>2, HeadTailProperties
  <2>4. Append(buf[p][r][i], Head(chan[i][p])) \in Seq(Segments)
    BY <2>2, <2>3, AppendProperties
  <2>5. chan' \in [Parties -> [Parties -> Seq(Segments)]]
    BY <1>1, <1>4, <2>1, <2>3 DEF TypeOK, Read
  <2>6. buf' \in [Parties -> [Rounds -> [Parties -> Seq(Segments)]]]
    BY <1>1, <1>4, <2>1, <2>4 DEF TypeOK, Read
  <2>7. NextTurn(p, r, i) \in 0 .. G
    BY <1>4, LoopTargets DEF Read, Reading
  <2>8. turn' \in [Parties -> 0 .. G]
    BY <1>1, <1>4, <2>7 DEF TypeOK, Read
  <2>9. sofar' \in [Parties -> Nat]
    <3> DEFINE v == IF sofar[p] + 1 = Size(r) THEN 0 ELSE sofar[p] + 1
    <3>1. v \in Nat
      BY <2>1
    <3>2. sofar' = [sofar EXCEPT ![p] = v]
      BY <1>4 DEF Read
    <3> QED
      BY <1>1, <3>1, <3>2 DEF TypeOK
  <2> QED
    BY <1>1, <1>4, <2>5, <2>6, <2>8, <2>9 DEF TypeOK, Read
<1>5. ASSUME NEW p \in Parties, EndCall(p) PROVE TypeOK'
  <2>1. round[p] + 1 \in 1 .. Len(Calls) + 1
    BY <1>5, CallsFacts DEF EndCall, InCall, Rounds
  <2>2. /\ FirstTurn(p, round[p] + 1) \in 0 .. G
        /\ FirstDest(p, round[p] + 1) \in 0 .. G
    BY LoopTargets
  <2> QED
    BY <1>1, <1>5, <2>1, <2>2 DEF TypeOK, EndCall
<1>6. ASSUME NEW p \in Parties, Unwrap(p) \/ Panic(p) PROVE TypeOK'
  BY <1>1, <1>6 DEF TypeOK, Unwrap, Panic
<1>8. CASE UNCHANGED vars
  BY <1>1, <1>8 DEF TypeOK, vars
<1> QED
  BY <1>2, <1>3, <1>4, <1>5, <1>6, <1>8 DEF Next, PartyStep, Finished

(* and the counters of the loops where they can be.                        *)
LEMMA LoopStep ==
    ASSUME IInv, [Next]_vars, NEW x \in Parties
    PROVE  LoopOK(x)'
<1>1. LoopOK(x) /\ TypeOK
  BY DEF IInv
<1>2. ASSUME NEW p \in Parties, Write(p) PROVE LoopOK(x)'
  <2>1. CASE x # p
    BY <1>1, <1>2, <2>1 DEF TypeOK, LoopOK, Write
  <2>2. CASE x = p
    <3> DEFINE r == round[p]
               last == sofar[p] + 1 = Size(r)
               n == NextDest(p, r, dest[p])
    <3>1. /\ r \in Rounds /\ turn[p] = p /\ status[p] = "run"
          /\ dest[p] \in Dests(p, r) /\ sofar[p] < Size(r)
          /\ r # Len(Calls) + 1
      BY <1>1, <1>2, <2>2, CallsFacts DEF LoopOK, Write, Writing, InCall, Rounds
    <3>2. /\ round'[p] = r /\ turn'[p] = p /\ status'[p] = "run"
          /\ dest'[p] = IF last THEN n ELSE dest[p]
          /\ sofar'[p] = IF last THEN 0 ELSE sofar[p] + 1
      BY <1>1, <1>2, <3>1 DEF TypeOK, Write
    <3>3. n \in Dests(p, r) \cup {G}
      BY <3>1, LoopTargets
    <3>4. /\ dest[p] # G /\ p # G /\ p \in Int
          /\ Size(r) \in Nat \ {0} /\ sofar[p] \in Nat
      BY <1>1, <3>1, CallsFacts, PeerFacts DEF TypeOK
    <3> HIDE DEF r, n
    <3>5. CASE last
      BY <2>2, <3>1, <3>2, <3>3, <3>4, <3>5 DEF LoopOK
    <3>6. CASE ~last
      <4>1. sofar[p] + 1 < Size(r)
        BY <3>1, <3>4, <3>6
      <4> QED
        BY <2>2, <3>1, <3>2, <3>4, <3>6, <4>1 DEF LoopOK
    <3> QED
      BY <3>5, <3>6
  <2> QED
    BY <2>1, <2>2
<1>3. ASSUME NEW p \in Parties, OwnChunk(p) PROVE LoopOK(x)'
  <2>1. CASE x # p
    BY <1>1, <1>3, <2>1 DEF TypeOK, LoopOK, OwnChunk
  <2>2. CASE x = p
    <3> DEFINE r == round[p]
               t == NextTurn(p, r, p)
    <3>1. /\ r \in Rounds /\ turn[p] = p /\ status[p] = "run" /\ dest[p] = G
          /\ sofar[p] = 0 /\ sofar[p] < Size(r)
      BY <1>1, <1>3, <2>2 DEF LoopOK, OwnChunk, InCall
    <3>2. /\ round'[p] = r /\ turn'[p] = t /\ status'[p] = "run"
          /\ dest'[p] = G /\ sofar'[p] = 0
      BY <1>1, <1>3, <3>1 DEF TypeOK, OwnChunk
    <3>3. t > p /\ t \in Sources(p, r) \cup {p, G}
      BY LoopTargets
    <3>4. p \in Int /\ t \in Int
      BY PeerFacts, LoopTargets
    <3>5. status[p] = "done" <=> r = Len(Calls) + 1
      BY <1>1, <2>2 DEF LoopOK
    <3> HIDE DEF r, t
    <3> QED
      BY <2>2, <3>1, <3>2, <3>3, <3>4, <3>5 DEF LoopOK
  <2> QED
    BY <2>1, <2>2
<1>4. ASSUME NEW p \in Parties, Read(p) PROVE LoopOK(x)'
  <2>1. CASE x # p
    BY <1>1, <1>4, <2>1 DEF TypeOK, LoopOK, Read
  <2>2. CASE x = p
    <3> DEFINE r == round[p]
               i == turn[p]
               last == sofar[p] + 1 = Size(r)
    <3>1. /\ r \in Rounds /\ status[p] = "run" /\ i \in Sources(p, r)
          /\ sofar[p] < Size(r) /\ (i < p => dest[p] = FirstDest(p, r))
      BY <1>1, <1>4, <2>2 DEF LoopOK, Read, Reading, InCall
    <3>2. NextTurn(p, r, i) = i + 1 /\ i # p
      BY <3>1, LoopTargets, PeerFacts
    <3>3. /\ round'[p] = r /\ status'[p] = "run" /\ dest'[p] = dest[p]
          /\ turn'[p] = IF last THEN i + 1 ELSE i
          /\ sofar'[p] = IF last THEN 0 ELSE sofar[p] + 1
      BY <1>1, <1>4, <3>1, <3>2 DEF TypeOK, Read
    <3>4. i + 1 \in Sources(p, r) \cup {p, G}
      BY <3>1, LoopTargets
    <3>5. FirstDest(p, r) \in Dests(p, r) \cup {G}
      BY <3>1, LoopTargets
    <3>6. /\ i \in Int /\ p \in Int /\ i # G /\ i < G /\ p < G /\ G \in Int
          /\ Size(r) \in Int /\ 0 < Size(r) /\ sofar[p] \in Int
      <4>1. sofar[p] \in Nat
        BY <1>1 DEF TypeOK
      <4>2. Size(r) \in Nat \ {0}
        BY <3>1, CallsFacts
      <4>3. i \in Parties
        BY <3>1, PeerFacts
      <4> QED
        BY <4>1, <4>2, <4>3, PeerFacts
    <3>7. status[p] = "done" <=> r = Len(Calls) + 1
      BY <1>1, <2>2 DEF LoopOK
    <3> HIDE DEF r, i
    <3> QED
      BY <2>2, <3>1, <3>2, <3>3, <3>4, <3>5, <3>6, <3>7 DEF LoopOK
  <2> QED
    BY <2>1, <2>2
<1>5. ASSUME NEW p \in Parties, EndCall(p) PROVE LoopOK(x)'
  <2>1. CASE x # p
    BY <1>1, <1>5, <2>1 DEF TypeOK, LoopOK, EndCall
  <2>2. CASE x = p
    <3> DEFINE r == round[p] + 1
               t == FirstTurn(p, r)
    <3>1. /\ round[p] \in Rounds /\ turn[p] = G /\ sofar[p] = 0
      BY <1>1, <1>5, <2>2 DEF LoopOK, EndCall, InCall
    <3>2. /\ round'[p] = r /\ turn'[p] = t
          /\ status'[p] = IF r \in Rounds THEN "run" ELSE "done"
          /\ dest'[p] = FirstDest(p, r) /\ sofar'[p] = 0
      BY <1>1, <1>5, <3>1 DEF TypeOK, EndCall
    <3>3. r \in Rounds <=> r # Len(Calls) + 1
      BY <3>1, CallsFacts DEF Rounds
    <3>4. r \in Rounds =>
            /\ t \in Sources(p, r) \cup {p, G}
            /\ FirstDest(p, r) \in Dests(p, r) \cup {G}
            /\ 0 < Size(r)
      <4>1. r \in Rounds => Size(r) \in Nat \ {0}
        BY CallsFacts
      <4> HIDE DEF r
      <4>2. r \in Rounds => t \in Sources(p, r) \cup {p, G}
        BY LoopTargets
      <4>3. r \in Rounds => FirstDest(p, r) \in Dests(p, r) \cup {G}
        BY LoopTargets
      <4> QED
        BY <4>1, <4>2, <4>3
    <3> HIDE DEF r, t
    <3> QED
      BY <2>2, <3>2, <3>3, <3>4 DEF LoopOK
  <2> QED
    BY <2>1, <2>2
<1>6. ASSUME NEW p \in Parties, Unwrap(p) \/ Panic(p) PROVE LoopOK(x)'
  <2>1. round[p] \in Rounds /\ round[p] # Len(Calls) + 1
    BY <1>6, CallsFacts DEF Unwrap, Panic, Writing, Reading, InCall, Rounds
  <2> QED
    BY <1>1, <1>6, <2>1 DEF TypeOK, LoopOK, Unwrap, Panic
<1>8. CASE UNCHANGED vars
  BY <1>1, <1>8 DEF LoopOK, vars
<1> QED
  BY <1>2, <1>3, <1>4, <1>5, <1>6, <1>8 DEF Next, PartyStep, Finished

(* An update of one buffer changes that one only.                          *)
LEMMA BufUpdate ==
    ASSUME TypeOK, NEW p \in Parties, NEW r \in Rounds, NEW i \in Parties, NEW v,
           NEW x \in Parties, NEW s \in Rounds, NEW j \in Parties
    PROVE  [buf EXCEPT ![p][r][i] = v][x][s][j] =
              IF x = p /\ s = r /\ j = i THEN v ELSE buf[x][s][j]
<1>1. /\ DOMAIN buf = Parties /\ DOMAIN buf[p] = Rounds
      /\ DOMAIN buf[p][r] = Parties
  BY DEF TypeOK
<1> QED
  BY <1>1

(* The buffers.  Of the steps that change what BufOK speaks of, Read takes *)
(* the segment HeadIsNext says, and OwnChunk copies the whole message.     *)
LEMMA BufStep ==
    ASSUME IInv, [Next]_vars, NEW x \in Parties
    PROVE  BufOK(x)'
<1> SUFFICES ASSUME NEW s \in Rounds, NEW j \in Parties
             PROVE  buf'[x][s][j] = Prefix(j, s, Progress(x, s, j)')
  BY DEF BufOK, Prefix, Segment
<1>1. TypeOK /\ LoopOK(x) /\ buf[x][s][j] = Prefix(j, s, Progress(x, s, j))
  BY DEF IInv, BufOK
<1>2. ASSUME NEW p \in Parties, Write(p)
      PROVE  buf'[x][s][j] = Prefix(j, s, Progress(x, s, j)')
  <2>1. /\ buf' = buf /\ round' = round /\ turn' = turn /\ turn[p] = p
        /\ x # p => sofar'[x] = sofar[x]
    BY <1>1, <1>2 DEF TypeOK, Write, Writing
  <2>2. Progress(x, s, j)' = Progress(x, s, j)
    BY <2>1 DEF Progress
  <2> QED
    BY <1>1, <2>1, <2>2
<1>3. ASSUME NEW p \in Parties, OwnChunk(p)
      PROVE  buf'[x][s][j] = Prefix(j, s, Progress(x, s, j)')
  <2> DEFINE r == round[p]
             t == NextTurn(p, r, p)
  <2>1. /\ round' = round /\ turn[p] = p /\ sofar' = sofar /\ r \in Rounds
        /\ turn'[x] = IF x = p THEN t ELSE turn[x]
        /\ buf'[x][s][j] = IF x = p /\ s = r /\ j = p /\ HasBuffer(p, r)
                           THEN Message(p, r) ELSE buf[x][s][j]
    <3>1. /\ round' = round /\ turn[p] = p /\ sofar' = sofar /\ r \in Rounds
          /\ turn'[x] = IF x = p THEN t ELSE turn[x]
      BY <1>1, <1>3 DEF TypeOK, OwnChunk, InCall
    <3>2. buf' = IF HasBuffer(p, r) THEN [buf EXCEPT ![p][r][p] = Message(p, r)]
                 ELSE buf
      BY <1>3 DEF OwnChunk
    <3> HIDE DEF r
    <3> QED
      BY <1>1, <3>1, <3>2, BufUpdate, SMTT(30)
  <2>2. HasBuffer(p, r) => t = p + 1
    BY DEF NextTurn
  <2>3. CASE x # p \/ s # r \/ ~HasBuffer(p, r)
    <3>1. Progress(x, s, j)' = Progress(x, s, j)
      BY <2>1, <2>3 DEF Progress
    <3> QED
      BY <1>1, <2>1, <2>3, <3>1
  <2>4. CASE x = p /\ s = r /\ HasBuffer(p, r) /\ j = p
    <3>1. Progress(x, s, j)' = Size(r)
      BY <2>1, <2>2, <2>4, PeerFacts DEF Progress
    <3> QED
      BY <2>1, <2>4, <3>1, MessageIsPrefix
  <2>5. CASE x = p /\ s = r /\ HasBuffer(p, r) /\ j # p
    <3>1. sofar[p] = 0
      BY <1>1, <1>3, <2>1, <2>5 DEF LoopOK, OwnChunk
    <3>2. s \in Int /\ p \in Int /\ j \in Int
      BY CallsFacts, PeerFacts
    <3> HIDE DEF r, t
    <3>3. Progress(x, s, j)' = Progress(x, s, j)
      BY <2>1, <2>2, <2>5, <3>1, <3>2 DEF Progress
    <3> QED
      BY <1>1, <2>1, <2>5, <3>3
  <2> QED
    BY <2>3, <2>4, <2>5
<1>4. ASSUME NEW p \in Parties, Read(p)
      PROVE  buf'[x][s][j] = Prefix(j, s, Progress(x, s, j)')
  <2> DEFINE r == round[p]
             i == turn[p]
             n == sofar[p]
             last == n + 1 = Size(r)
  <2>1. /\ i \in Parties /\ i # p /\ r \in Rounds /\ n \in Nat
        /\ chan[i][p] # << >> /\ n < Size(r) /\ Size(r) \in Nat
        /\ chan[i][p][1] = Segment(i, r, n + 1)
        /\ i \in Sources(p, r)
    BY <1>1, <1>4, HeadIsNext, CallsFacts
       DEF TypeOK, Read, Reading, IInv, LoopOK, InCall
  <2>2. HasBuffer(p, r) /\ NextTurn(p, r, i) = i + 1
    BY <2>1, LoopTargets, SMTT(30) DEF Sources, HasBuffer
  <2>3. Head(chan[i][p]) = Segment(i, r, n + 1)
    BY <2>1
  <2>4. /\ round' = round
        /\ turn'[x] = IF x = p /\ last THEN i + 1 ELSE turn[x]
        /\ sofar'[x] = IF x = p THEN (IF last THEN 0 ELSE n + 1) ELSE sofar[x]
        /\ buf'[x][s][j] = IF x = p /\ s = r /\ j = i
                           THEN Append(buf[p][r][i], Segment(i, r, n + 1))
                           ELSE buf[x][s][j]
    <3>1. /\ round' = round
          /\ turn' = [turn EXCEPT ![p] = IF last THEN i + 1 ELSE i]
          /\ sofar' = [sofar EXCEPT ![p] = IF last THEN 0 ELSE n + 1]
          /\ buf' = [buf EXCEPT ![p][r][i] =
                       Append(buf[p][r][i], Segment(i, r, n + 1))]
      <4>1. /\ round' = round
            /\ turn' = [turn EXCEPT ![p] = IF last THEN NextTurn(p, r, i) ELSE i]
            /\ sofar' = [sofar EXCEPT ![p] = IF last THEN 0 ELSE n + 1]
            /\ buf' = [buf EXCEPT ![p][r][i] = Append(@, Head(chan[i][p]))]
        BY <1>4 DEF Read
      <4> QED
        BY <2>2, <2>3, <4>1
    <3>2. /\ turn'[x] = IF x = p THEN (IF last THEN i + 1 ELSE i) ELSE turn[x]
          /\ sofar'[x] = IF x = p THEN (IF last THEN 0 ELSE n + 1) ELSE sofar[x]
      BY <1>1, <3>1 DEF TypeOK
    <3>3. turn'[x] = IF x = p /\ last THEN i + 1 ELSE turn[x]
      BY <3>2
    <3> HIDE DEF r, i, n
    <3>4. buf'[x][s][j] = IF x = p /\ s = r /\ j = i
                          THEN Append(buf[p][r][i], Segment(i, r, n + 1))
                          ELSE buf[x][s][j]
      <4> DEFINE v == Append(buf[p][r][i], Segment(i, r, n + 1))
      <4>1. buf' = [buf EXCEPT ![p][r][i] = v]
        BY <3>1
      <4> HIDE DEF v
      <4>2. buf'[x][s][j] = IF x = p /\ s = r /\ j = i THEN v ELSE buf[x][s][j]
        BY <1>1, <2>1, <4>1, BufUpdate
      <4> QED
        BY <4>2 DEF v
    <3> QED
      BY <3>1, <3>2, <3>3, <3>4
  <2>5. CASE x # p \/ s # r
    <3>1. Progress(x, s, j)' = Progress(x, s, j)
      BY <2>4, <2>5 DEF Progress
    <3> QED
      BY <1>1, <2>4, <2>5, <3>1
  <2>6. CASE x = p /\ s = r /\ j = i
    <3>1. i \in Int /\ r \in Int /\ ~(r < r) /\ ~(i > i) /\ i + 1 > i
      <4>1. r \in Int
        BY <2>1, CallsFacts
      <4>2. i \in Int
        BY <2>1, PeerFacts
      <4> QED
        BY <4>1, <4>2
    <3>2. Progress(x, s, j) = n
      BY <2>1, <2>2, <2>4, <2>6, <3>1 DEF Progress
    <3>3. Progress(x, s, j)' = n + 1
      <4>1. HasBuffer(x, s) /\ round'[x] = s
        BY <2>2, <2>4, <2>6
      <4>2. CASE last
        <5>1. turn'[x] > j
          BY <2>4, <2>6, <3>1, <4>2
        <5> QED
          BY <2>6, <4>1, <4>2, <5>1 DEF Progress
      <4>3. CASE ~last
        <5>1. turn'[x] = j /\ j # x /\ sofar'[x] = n + 1
          BY <2>1, <2>4, <2>6, <4>3
        <5>2. ~(s < s) /\ ~(j > j)
          BY <2>6, <3>1
        <5> QED
          BY <4>1, <5>1, <5>2 DEF Progress
      <4> QED
        BY <4>2, <4>3
    <3>4. buf'[x][s][j] = Append(Prefix(j, s, n), Segment(j, s, n + 1))
      BY <1>1, <2>4, <2>6, <3>2
    <3>5. n \in Nat
      BY <2>1
    <3> HIDE DEF n
    <3>6. Append(Prefix(j, s, n), Segment(j, s, n + 1)) = Prefix(j, s, n + 1)
      BY <3>5, AppendPrefix
    <3> QED
      BY <3>3, <3>4, <3>6
  <2>7. CASE x = p /\ s = r /\ j # i
    <3>1. i \in Int /\ j \in Int /\ p \in Int
      BY <2>1, PeerFacts
    <3>2. j > i /\ j # i + 1 => ~(turn[x] > j) /\ ~(turn'[x] > j)
      BY <2>4, <2>7, <3>1
    <3> HIDE DEF r, i, n
    <3>3. Progress(x, s, j)' = Progress(x, s, j)
      BY <2>1, <2>2, <2>4, <2>7, <3>1 DEF Progress, r, i, n
    <3> QED
      BY <1>1, <2>4, <2>7, <3>3
  <2> QED
    BY <2>5, <2>6, <2>7
<1>5. ASSUME NEW p \in Parties, EndCall(p)
      PROVE  buf'[x][s][j] = Prefix(j, s, Progress(x, s, j)')
  <2> DEFINE r == round[p] + 1
             t == FirstTurn(p, r)
  <2>1. /\ buf' = buf /\ sofar' = sofar /\ turn[p] = G
        /\ round'[x] = IF x = p THEN r ELSE round[x]
        /\ turn'[x] = IF x = p THEN t ELSE turn[x]
        /\ round[p] \in Rounds
        /\ x = p => sofar[x] = 0
    BY <1>1, <1>5 DEF TypeOK, LoopOK, EndCall, InCall
  <2>2. CASE x # p
    BY <1>1, <2>1, <2>2 DEF Progress
  <2>3. CASE x = p
    <3>1. /\ s \in Int /\ round[p] \in Int /\ j \in Int /\ j < G
          /\ 0 <= j
      <4>1. round[p] \in 1 .. Len(Calls) + 1
        BY <1>1 DEF TypeOK
      <4>2. Len(Calls) \in Int /\ s \in Int
        BY CallsFacts
      <4> QED
        BY <4>1, <4>2, PeerFacts
    <3>2. HasBuffer(p, s) /\ s = r => t = 0
      BY DEF FirstTurn
    <3> HIDE DEF t
    <3>3. Progress(x, s, j)' = Progress(x, s, j)
      BY <2>1, <2>3, <3>1, <3>2 DEF Progress
    <3> QED
      BY <1>1, <2>1, <3>3
  <2> QED
    BY <2>2, <2>3
<1>6. ASSUME UNCHANGED <<round, turn, sofar, buf>>
      PROVE  buf'[x][s][j] = Prefix(j, s, Progress(x, s, j)')
  BY <1>1, <1>6 DEF Progress
<1> QED
  BY <1>2, <1>3, <1>4, <1>5, <1>6
     DEF Next, PartyStep, Finished, Unwrap, Panic, vars

-----------------------------------------------------------------------------
(* The inductive invariant and what follows from it.                       *)

(* Each step keeps the invariant.                                          *)
LEMMA IInvStep == IInv /\ [Next]_vars => IInv'
<1> SUFFICES ASSUME IInv, [Next]_vars PROVE IInv'
  OBVIOUS
<1>1. TypeOK'
  BY TypeStep
<1>2. ASSUME NEW p \in Parties PROVE LoopOK(p)' /\ BufOK(p)'
  BY LoopStep, BufStep
<1>3. ASSUME NEW a \in Parties, NEW b \in Parties PROVE ChanOK(a, b)'
  <2>1. ASSUME NEW p \in Parties, PartyStep(p) \/ Panic(p) PROVE ChanOK(a, b)'
    BY <2>1, WriteChan, ReadChan, LocalChan, StopChan DEF PartyStep
  <2>2. CASE UNCHANGED vars
    <3>1. /\ ChanOK(a, b) /\ chan' = chan /\ round' = round /\ turn' = turn
          /\ dest' = dest /\ sofar' = sofar /\ status' = status
          /\ chan \in [Parties -> [Parties -> Seq(Segments)]]
      BY <2>2 DEF IInv, TypeOK, vars
    <3>2. ASSUME NEW r, NEW k
          PROVE  /\ Written(a, b, r, k)' <=> Written(a, b, r, k)
                 /\ Taken(a, b, r, k)' <=> Taken(a, b, r, k)
      BY <3>1 DEF Written, Taken
    <3> QED
      BY <3>1, <3>2, PairFrame
  <2> QED
    BY <2>1, <2>2 DEF Next, Finished
<1> QED
  BY <1>1, <1>2, <1>3 DEF IInv

(* The invariant holds of every reachable state.                           *)
THEOREM Invariance == Spec => []IInv
BY InitIInv, IInvStep, PTL DEF Spec

(* Every variable keeps its type.                                          *)
THEOREM TypeCorrect == Spec => []TypeOK
<1>1. IInv => TypeOK
  BY DEF IInv
<1> QED
  BY <1>1, Invariance, PTL

(* No byte is ever read in the wrong call or from the wrong party, and a   *)
(* call that has returned has filled its buffer (share_v2, share_v3 and    *)
(* share_to_p0 of party.rs).                                               *)
LEMMA IInvRightChunks == IInv => RightChunks
<1> SUFFICES ASSUME IInv, NEW p \in Parties, NEW j \in Parties, NEW r \in Rounds
             PROVE  /\ Len(buf[p][r][j]) <= Size(r)
                    /\ \A k \in 1 .. Len(buf[p][r][j]) :
                          buf[p][r][j][k] = Segment(j, r, k)
                    /\ HasBuffer(p, r) /\ round[p] > r =>
                          Len(buf[p][r][j]) = Size(r)
  BY DEF RightChunks
<1> DEFINE n == Progress(p, r, j)
<1>1. buf[p][r][j] = Prefix(j, r, n)
  BY DEF IInv, BufOK
<1>2. n \in Nat /\ n <= Size(r)
  <2>1. sofar[p] \in Nat /\ (r = round[p] => sofar[p] < Size(r))
    BY DEF IInv, TypeOK, LoopOK
  <2> QED
    BY <2>1, CallsFacts DEF Progress
<1>3. HasBuffer(p, r) /\ round[p] > r => n = Size(r)
  BY CallsFacts, Counters DEF Progress
<1> HIDE DEF n
<1>4. Len(Prefix(j, r, n)) = n
  BY <1>2 DEF Prefix
<1> QED
  BY <1>1, <1>2, <1>3, <1>4, CallsFacts DEF Prefix

(* Whatever a party has read of a chunk is a prefix of the right message.  *)
THEOREM ChunksAreRight == Spec => []RightChunks
BY Invariance, IInvRightChunks, PTL

(* Whoever is through its loop over the chunks of a call has heard from    *)
(* everybody in that call.                                                 *)
LEMMA HeardFromAll ==
    ASSUME IInv, NEW p \in Parties, NEW q \in Parties, NEW r \in Rounds,
           HasBuffer(p, r), round[p] > r \/ (round[p] = r /\ turn[p] = G)
    PROVE  round[q] >= r
<1>1. CASE p = q
  BY <1>1, CallsFacts, Counters
<1>2. CASE p # q
  <2>1. 1 \in 1 .. Size(r) /\ r \in Int
    BY CallsFacts
  <2>2. Owed(q, p, r, 1)
    BY <1>2, <2>1, CallsFacts DEF Owed, HasBuffer, Dests, Parties
  <2>3. Taken(q, p, r, 1)
    BY <2>1, Counters, PeerFacts DEF Taken
  <2>4. Written(q, p, r, 1)
    BY <2>1, <2>2, <2>3 DEF IInv, ChanOK, TakenWritten
  <2> QED
    BY <2>1, <2>4, Counters DEF Written
<1> QED
  BY <1>1, <1>2

(* A share call is a barrier.                                              *)
THEOREM CallsAreBarriers == Spec => []Barrier
<1>1. IInv => Barrier
  BY HeardFromAll DEF Barrier
<1> QED
  BY <1>1, Invariance, PTL

(* A party that returns resets no connection.                              *)
THEOREM ClosesCleanly == Spec => []CleanClose
BY Invariance, DoneIsClean, PTL

(* What is on its way from p to q is ahead of q's loop, which is then not  *)
(* yet at q's own turn.                                                    *)
LEMMA OneWay ==
    ASSUME IInv, NEW p \in Parties, NEW q \in Parties, p < q,
           chan[p][q] # << >>, chan[q][p] # << >>
    PROVE  FALSE
<1>1. 1 \in 1 .. Len(chan[p][q]) /\ 1 \in 1 .. Len(chan[q][p])
  <2>1. chan[p][q] \in Seq(Segments) /\ chan[q][p] \in Seq(Segments)
    BY DEF IInv, TypeOK
  <2> QED
    BY <2>1, EmptySeq
<1> DEFINE s == chan[p][q][1]
           t == chan[q][p][1]
<1>2. /\ Owed(p, q, s.rnd, s.seg)
      /\ Written(p, q, s.rnd, s.seg) /\ ~Taken(p, q, s.rnd, s.seg)
      /\ Owed(q, p, t.rnd, t.seg)
      /\ Written(q, p, t.rnd, t.seg) /\ ~Taken(q, p, t.rnd, t.seg)
  BY <1>1 DEF IInv, ChanOK, ChanSound
<1> HIDE DEF s, t
<1>3. s.rnd \in Int /\ t.rnd \in Int
  BY <1>2, OwedIsInt
<1>4. s.rnd <= round[p] /\ round[p] <= t.rnd
  BY <1>2, <1>3, Counters DEF Written, Taken
<1>5. t.rnd <= round[q] /\ round[q] <= s.rnd
  BY <1>2, <1>3, Counters DEF Written, Taken
<1>6. /\ q \in Int /\ p \in Int
      /\ turn[q] \in Int /\ round[q] \in Int /\ round[p] \in Int
  BY Counters
<1>7. t.rnd = round[q] /\ s.rnd = round[q]
  BY <1>3, <1>4, <1>5, <1>6
<1>8. turn[q] >= q
  BY <1>2, <1>6, <1>7 DEF Written
<1>9. turn[q] <= p
  BY <1>2, <1>6, <1>7 DEF Taken
<1> QED
  BY <1>6, <1>8, <1>9

(* No close and no late write can reset a connection and lose what is on   *)
(* its way.                                                                *)
THEOREM NeverBothWays == Spec => []HalfDuplex
<1>1. IInv => HalfDuplex
  <2> SUFFICES ASSUME IInv, NEW p \in Parties, NEW q \in Parties,
                      chan[p][q] # << >>, chan[q][p] # << >>
               PROVE  FALSE
    BY DEF HalfDuplex
  <2>1. CASE p < q
    BY <2>1, OneWay
  <2>2. CASE q < p
    BY <2>2, OneWay
  <2>3. CASE p = q
    <3>1. chan[p][p] \in Seq(Segments)
      BY DEF IInv, TypeOK
    <3>2. Owed(p, p, chan[p][p][1].rnd, chan[p][p][1].seg)
      BY <2>3, <3>1, EmptySeq DEF IInv, ChanOK, ChanSound
    <3> QED
      BY <3>2 DEF Owed, Dests
  <2> QED
    BY <2>1, <2>2, <2>3, Counters
<1> QED
  BY <1>1, Invariance, PTL

-----------------------------------------------------------------------------
(* The calls implement the network-free rounds: EndCall is Leave, a panic  *)
(* is Stop, and every other step is a stutter.                             *)

(* AllGather starts where ShareRounds does,                                *)
LEMMA AbsInit == Init => Abstract!Init
<1> SUFFICES ASSUME Init PROVE Abstract!Init
  OBVIOUS
<1>1. ASSUME NEW p \in Parties, NEW r \in Rounds PROVE ~(r < round[p])
  BY CallsFacts DEF Init, Rounds
<1> QED
  BY <1>1 DEF Init, Abstract!Init, Rounds

(* and each step of ShareRounds is a step of AllGather, or none.           *)
LEMMA AbsStep == IInv /\ IInv' /\ [Next]_vars => [Abstract!Next]_Abstract!vars
<1> SUFFICES ASSUME IInv, IInv', [Next]_vars
             PROVE  [Abstract!Next]_Abstract!vars
  OBVIOUS
<1> DEFINE H(p, r) == IF r < round[p]
                      THEN {j \in Parties : buf[p][r][j] = Message(j, r)}
                      ELSE {}
           holds == [p \in Parties |-> [r \in Rounds |-> H(p, r)]]
           stopped == [p \in Parties |-> status[p] = "failed"]
           Needs == [r \in Rounds |-> [p \in Parties |->
                        IF HasBuffer(p, r) THEN Parties ELSE {}]]
<1>1. TypeOK /\ TypeOK'
  BY DEF IInv
<1>2. ASSUME NEW p \in Parties, Write(p) PROVE UNCHANGED <<round, holds, stopped>>
  BY <1>2 DEF Write
<1>3. ASSUME NEW p \in Parties, NEW r \in Rounds, NEW i \in Parties, NEW v,
             round' = round, r = round[p], buf' = [buf EXCEPT ![p][r][i] = v]
      PROVE  holds' = holds
  <2>1. ASSUME NEW x \in Parties, NEW s \in Rounds PROVE H(x, s)' = H(x, s)
    <3>1. CASE ~(s < round[x])
      BY <1>3, <3>1
    <3>2. CASE s < round[x]
      <4>1. ~(x = p /\ s = r)
        BY <1>3, <3>2, CallsFacts
      <4>2. \A j \in Parties : buf'[x][s][j] = buf[x][s][j]
        BY <1>1, <1>3, <4>1, BufUpdate
      <4> QED
        BY <1>3, <4>2 DEF Message, Segment
    <3> QED
      BY <3>1, <3>2
  <2> HIDE DEF H
  <2> QED
    BY <2>1
<1>4. ASSUME NEW p \in Parties, OwnChunk(p)
      PROVE  UNCHANGED <<round, holds, stopped>>
  <2>1. round' = round /\ status' = status /\ round[p] \in Rounds
    BY <1>4 DEF OwnChunk, InCall
  <2>2. CASE HasBuffer(p, round[p])
    <3>1. buf' = [buf EXCEPT ![p][round[p]][p] = Message(p, round[p])]
      BY <1>4, <2>2 DEF OwnChunk
    <3> QED
      BY <1>3, <2>1, <3>1
  <2>3. CASE ~HasBuffer(p, round[p])
    BY <1>4, <2>1, <2>3 DEF OwnChunk
  <2> QED
    BY <2>2, <2>3
<1>5. ASSUME NEW p \in Parties, Read(p) PROVE UNCHANGED <<round, holds, stopped>>
  <2> DEFINE v == Append(buf[p][round[p]][turn[p]], Head(chan[turn[p]][p]))
  <2>1. /\ round' = round /\ status' = status /\ round[p] \in Rounds
        /\ turn[p] \in Parties
        /\ buf' = [buf EXCEPT ![p][round[p]][turn[p]] = v]
    BY <1>5, PeerFacts DEF Read, Reading, InCall
  <2> HIDE DEF v
  <2> QED
    BY <1>3, <2>1
<1>6. ASSUME NEW p \in Parties, EndCall(p) PROVE Abstract!Leave(p)
  <2> PICK r \in Rounds : r = round[p]
    BY <1>6 DEF EndCall, InCall
  <2>1. /\ r = round[p] /\ turn[p] = G /\ status[p] = "run" /\ buf' = buf
        /\ round' = [round EXCEPT ![p] = r + 1]
        /\ status'[p] # "failed"
        /\ \A x \in Parties \ {p} : status'[x] = status[x]
    BY <1>1, <1>6 DEF TypeOK, EndCall, InCall
  <2>2. \A j \in Needs[r][p] : round[j] >= round[p]
    BY <2>1, HeardFromAll
  <2>3. H(p, r)' = Needs[r][p]
    <3>1. r < round'[p]
      <4>1. r \in Int
        BY CallsFacts
      <4> QED
        BY <1>1, <2>1, <4>1 DEF TypeOK
    <3>2. H(p, r)' = {j \in Parties : buf[p][r][j] = Message(j, r)}
      BY <2>1, <3>1 DEF Message, Segment
    <3>3. ASSUME NEW j \in Parties
          PROVE  /\ Message(j, r) = Prefix(j, r, Size(r))
                 /\ buf[p][r][j] = Prefix(j, r, Progress(p, r, j))
                 /\ j < G
      BY <2>1, MessageIsPrefix, PeerFacts DEF IInv, BufOK
    <3>4. CASE HasBuffer(p, r)
      <4>1. ASSUME NEW j \in Parties PROVE buf[p][r][j] = Message(j, r)
        BY <2>1, <3>3, <3>4 DEF Progress
      <4> QED
        BY <2>1, <3>2, <3>4, <4>1
    <3>5. CASE ~HasBuffer(p, r)
      <4>1. ASSUME NEW j \in Parties PROVE buf[p][r][j] # Message(j, r)
        <5>1. Progress(p, r, j) = 0
          BY <3>5 DEF Progress
        <5>2. Prefix(j, r, 0) # Prefix(j, r, Size(r))
          <6>1. 1 \in 1 .. Size(r) /\ 1 \notin 1 .. 0
            BY CallsFacts
          <6>2. 1 \in DOMAIN Prefix(j, r, Size(r)) /\ 1 \notin DOMAIN Prefix(j, r, 0)
            BY <6>1 DEF Prefix
          <6> QED
            BY <6>2
        <5> QED
          BY <3>3, <5>1, <5>2
      <4> QED
        BY <2>1, <3>2, <3>5, <4>1
    <3> QED
      BY <3>4, <3>5
  <2>4. ASSUME NEW x \in Parties, NEW s \in Rounds, ~(x = p /\ s = r)
        PROVE  H(x, s)' = H(x, s)
    <3>1. s < round'[x] <=> s < round[x]
      <4>1. s \in Int /\ r \in Int
        BY CallsFacts
      <4>2. round'[x] = IF x = p THEN r + 1 ELSE round[x]
        BY <1>1, <2>1 DEF TypeOK
      <4> QED
        BY <2>1, <2>4, <4>1, <4>2
    <3> QED
      BY <2>1, <3>1 DEF Message, Segment
  <2> HIDE DEF H
  <2>5. holds' = [holds EXCEPT ![p][r] = Needs[r][p]]
    <3> DEFINE N == Needs[r][p]
    <3>1. H(p, r)' = N
      BY <2>3
    <3> HIDE DEF N
    <3>2. [[x \in Parties |-> [s \in Rounds |-> H(x, s)]] EXCEPT ![p][r] = N] =
             [x \in Parties |-> [s \in Rounds |->
                 IF x = p /\ s = r THEN N ELSE H(x, s)]]
      OBVIOUS
    <3>3. \A x \in Parties, s \in Rounds :
             H(x, s)' = IF x = p /\ s = r THEN N ELSE H(x, s)
      BY <2>4, <3>1
    <3>4. holds' = [x \in Parties |-> [s \in Rounds |->
                       IF x = p /\ s = r THEN N ELSE H(x, s)]]
      BY <3>3
    <3> QED
      BY <3>2, <3>4 DEF N
  <2>6. stopped' = stopped /\ ~stopped[p]
    BY <2>1
  <2> QED
    BY <2>1, <2>2, <2>5, <2>6 DEF Abstract!Leave, Rounds, H
<1>7. ASSUME NEW p \in Parties, Unwrap(p) \/ Panic(p) PROVE Abstract!Stop(p)
  <2>1. /\ status[p] = "run" /\ round[p] \in Rounds
        /\ status' = [status EXCEPT ![p] = "failed"]
        /\ round' = round /\ buf' = buf
    BY <1>7 DEF Unwrap, Panic, Writing, Reading, InCall
  <2>2. stopped' = [stopped EXCEPT ![p] = TRUE] /\ ~stopped[p]
    BY <1>1, <2>1 DEF TypeOK
  <2>3. holds' = holds
    BY <2>1 DEF Message, Segment
  <2> QED
    BY <2>1, <2>2, <2>3 DEF Abstract!Stop, Rounds
<1>8. ASSUME UNCHANGED <<round, buf, status>>
      PROVE  UNCHANGED <<round, holds, stopped>>
  BY <1>8 DEF Message, Segment
<1>9. ASSUME UNCHANGED <<round, holds, stopped>> PROVE UNCHANGED Abstract!vars
  BY <1>9 DEF Abstract!vars
<1> HIDE DEF holds, stopped
<1> QED
  BY <1>2, <1>4, <1>5, <1>6, <1>7, <1>8, <1>9
     DEF Next, PartyStep, Finished, vars, Abstract!Next

(* The share calls over TCP implement AllGather.                           *)
THEOREM Implementation == Spec => ImplementsAllGather
<1>1. Spec => Abstract!Spec
  BY Invariance, AbsInit, AbsStep, PTL DEF Spec, Abstract!Spec
<1> QED
  BY <1>1 DEF ImplementsAllGather
=============================================================================
