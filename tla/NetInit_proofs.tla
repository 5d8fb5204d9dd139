--------------------------- MODULE NetInit_proofs ---------------------------
(***************************************************************************)
(* Proofs about NetInit: for every number of parties and of attempts.      *)
(*                                                                         *)
(* The accept loop counts connections and looks at no id, so that what a   *)
(* party has is not a matter of its own state alone.  The inductive        *)
(* invariant follows every connection from the client's task over the      *)
(* server's backlog and channel to both ends' maps, or to the error that   *)
(* ends it, shows that it is at one place at a time, and that accepted is  *)
(* the number of higher ids a party has met.                               *)
(***************************************************************************)
EXTENDS NetInit, FiniteSets, SequenceTheorems, FiniteSetTheorems, TLAPS

(* The one stream between two parties.                                     *)
Stream(p, q) == IF p > q THEN <<p, q>> ELSE <<q, p>>

(* The ids in a channel, and the clients in a backlog.                     *)
Ids(s) == {s[i][1] : i \in 1 .. Len(s)}
Clients(s) == {s[i] : i \in 1 .. Len(s)}

OnceEach(s) == \A i, j \in 1 .. Len(s) : s[i] = s[j] => i = j
IdsOnce(s) == \A i, j \in 1 .. Len(s) : s[i][1] = s[j][1] => i = j

(* p's main task has been handed the stream to q, or has filed it already. *)
Has(p, q) == q \in Ids(queue[p]) \/ conns[p][q] # None

(* The higher ids p has accepted a connection of.                          *)
Met(p) == {q \in Parties : q > p /\ Has(p, q)}

(* The states of a connect task that has, or has had, a connection.        *)
Linked == {"linked", "greeted", "handed", "failed"}

-----------------------------------------------------------------------------

Shapes ==
    /\ backlog \in [Parties -> Seq(Parties)]
    /\ accepted \in [Parties -> Nat]
    /\ greeting \in [Parties -> Parties \cup {G}]
    /\ queue \in [Parties -> Seq(Parties \X Streams)]
    /\ deaf \in [Parties -> BOOLEAN]
    /\ phase \in [Parties -> {"boot", "init", "up", "failed"}]
    /\ task \in [Parties -> [Parties -> {"idle", "try", "linked", "greeted",
                                          "handed", "failed", "timeout"}]]
    /\ tries \in [Parties -> [Parties -> 0 .. MaxRetries]]
    /\ conns \in [Parties -> [Parties -> Streams \cup {None}]]

(* A channel has every id once, with the right stream, and none that is    *)
(* filed.                                                                  *)
QueueOK(p) ==
    /\ \A i \in 1 .. Len(queue[p]) :
         /\ queue[p][i][1] # p
         /\ queue[p][i][2] = Stream(p, queue[p][i][1])
         /\ conns[p][queue[p][i][1]] = None
    /\ IdsOnce(queue[p])

BacklogOK(p) == OnceEach(backlog[p])

ConnsOK(p) ==
    /\ \A q \in Parties : conns[p][q] \in {None, Stream(p, q)}
    /\ conns[p][p] = None

(* Which connect tasks there are.                                          *)
TasksOK(p) ==
    \A q \in Parties :
        /\ task[p][q] = "idle" <=> phase[p] \in {"boot", "failed"} \/ q >= p
        /\ task[p][q] \in {"idle", "try"} => tries[p][q] < MaxRetries

(* The connection of client c to server s < c, seen from both ends.        *)
EndsOK(c, s) ==
    /\ Has(c, s) <=> task[c][s] = "handed"
    /\ Has(s, c) => task[c][s] \in {"greeted", "handed"}
    /\ Has(s, c) \/ greeting[s] = c \/ c \in Clients(backlog[s]) =>
           task[c][s] \in Linked
    /\ task[c][s] \in Linked =>
           Has(s, c) \/ greeting[s] = c \/ c \in Clients(backlog[s]) \/ deaf[s]
    /\ task[c][s] = "failed" => c \in MayFail \/ deaf[s]
    /\ ~ (Has(s, c) /\ greeting[s] = c)
    /\ ~ (Has(s, c) /\ c \in Clients(backlog[s]))
    /\ ~ (greeting[s] = c /\ c \in Clients(backlog[s]))

(* Only higher ids connect, and only to a listener that is bound, and      *)
(* accepted counts them.                                                   *)
AcceptOK(p) ==
    /\ phase[p] \in {"boot", "failed"} => greeting[p] = G /\ backlog[p] = << >>
    /\ \A c \in Clients(backlog[p]) : c > p
    /\ greeting[p] > p
    /\ accepted[p] = Cardinality(Met(p))

(* An accept task that has ended in an error has left nothing behind, and  *)
(* somebody's system call has failed.                                      *)
DeafOK(p) ==
    deaf[p] =>
        /\ backlog[p] = << >> /\ greeting[p] = G
        /\ phase[p] \notin {"boot", "failed"} /\ accepted[p] < Expected(p)
        /\ \/ p \in MayFail
           \/ \E q \in MayFail : q > p /\ task[q][p] = "failed"

UpOK(p) == phase[p] = "up" => SendersGone(p) /\ queue[p] = << >>

IInv ==
    /\ Shapes
    /\ \A p \in Parties : QueueOK(p)
    /\ \A p \in Parties : BacklogOK(p)
    /\ \A p \in Parties : ConnsOK(p)
    /\ \A p \in Parties : TasksOK(p)
    /\ \A c, s \in Parties : s < c => EndsOK(c, s)
    /\ \A p \in Parties : AcceptOK(p)
    /\ \A p \in Parties : DeafOK(p)
    /\ \A p \in Parties : UpOK(p)
-----------------------------------------------------------------------------

(* Parties and streams, and what stands for none.                          *)
LEMMA PartiesFacts ==
    /\ G \in Nat /\ G \notin Parties /\ Parties \subseteq Nat
    /\ MaxRetries \in Nat \ {0}
    /\ None \notin Streams
    /\ \A p, q \in Parties : Stream(p, q) \in Streams /\ Stream(p, q) # None
BY NetInitAssumption DEF Parties, None, Streams, Stream

(* The lower parties are those with a lower id.                            *)
LEMMA PartyOrder ==
    \A p \in Parties :
        /\ p \in Nat /\ p < G
        /\ \A q : q \in Lower(p) <=> q \in Parties /\ q < p
BY NetInitAssumption DEF Parties, Lower

(* The parties in a queue of ids that grows at its end,                    *)
LEMMA IdsAppend ==
    ASSUME NEW s \in Seq(Parties \X Streams), NEW e \in Parties \X Streams
    PROVE  /\ Ids(Append(s, e)) = Ids(s) \cup {e[1]}
           /\ IdsOnce(s) /\ e[1] \notin Ids(s) => IdsOnce(Append(s, e))
<1>1. /\ Len(Append(s, e)) = Len(s) + 1
      /\ \A i \in 1 .. Len(s) : Append(s, e)[i] = s[i]
      /\ Append(s, e)[Len(s) + 1] = e
      /\ Len(s) \in Nat
  BY AppendProperties, LenProperties
<1>2. Ids(Append(s, e)) = Ids(s) \cup {e[1]}
  BY <1>1 DEF Ids
<1>3. IdsOnce(s) /\ e[1] \notin Ids(s) => IdsOnce(Append(s, e))
  BY <1>1 DEF Ids, IdsOnce
<1> QED
  BY <1>2, <1>3

(* and of one whose head is taken.                                         *)
LEMMA IdsTail ==
    ASSUME NEW s \in Seq(Parties \X Streams), s # << >>, IdsOnce(s)
    PROVE  /\ Ids(Tail(s)) = Ids(s) \ {Head(s)[1]}
           /\ Head(s)[1] \in Ids(s)
           /\ IdsOnce(Tail(s))
<1>1. /\ Len(Tail(s)) = Len(s) - 1
      /\ \A i \in 1 .. Len(s) - 1 : Tail(s)[i] = s[i + 1]
      /\ Head(s) = s[1]
      /\ Len(s) \in Nat \ {0}
  BY HeadTailProperties, LenProperties, EmptySeq
<1>2. Head(s)[1] \in Ids(s) /\ IdsOnce(Tail(s))
  BY <1>1 DEF Ids, IdsOnce
<1>3. ASSUME NEW x \in Ids(Tail(s)) PROVE x \in Ids(s) \ {Head(s)[1]}
  <2>1. PICK i \in 1 .. Len(s) - 1 : x = s[i + 1][1]
    BY <1>1 DEF Ids
  <2>2. i + 1 \in 1 .. Len(s) /\ i + 1 # 1 /\ 1 \in 1 .. Len(s)
    BY <1>1
  <2> QED
    BY <1>1, <2>1, <2>2 DEF Ids, IdsOnce
<1>4. ASSUME NEW x \in Ids(s) \ {Head(s)[1]} PROVE x \in Ids(Tail(s))
  <2>1. PICK i \in 1 .. Len(s) : x = s[i][1]
    BY DEF Ids
  <2>2. i # 1 /\ i - 1 \in 1 .. Len(s) - 1 /\ (i - 1) + 1 = i
    BY <1>1, <2>1
  <2> QED
    BY <1>1, <2>1, <2>2 DEF Ids
<1> QED
  BY <1>2, <1>3, <1>4

(* The same of a queue of clients that grows,                              *)
LEMMA ClientsAppend ==
    ASSUME NEW s \in Seq(Parties), NEW c \in Parties
    PROVE  /\ Clients(Append(s, c)) = Clients(s) \cup {c}
           /\ OnceEach(s) /\ c \notin Clients(s) => OnceEach(Append(s, c))
<1>1. /\ Len(Append(s, c)) = Len(s) + 1
      /\ \A i \in 1 .. Len(s) : Append(s, c)[i] = s[i]
      /\ Append(s, c)[Len(s) + 1] = c
      /\ Len(s) \in Nat
  BY AppendProperties, LenProperties
<1> QED
  BY <1>1 DEF Clients, OnceEach

(* and of one whose head is taken.                                         *)
LEMMA ClientsTail ==
    ASSUME NEW s \in Seq(Parties), s # << >>, OnceEach(s)
    PROVE  /\ Clients(Tail(s)) = Clients(s) \ {Head(s)}
           /\ Head(s) \in Clients(s)
           /\ OnceEach(Tail(s))
<1>1. /\ Len(Tail(s)) = Len(s) - 1
      /\ \A i \in 1 .. Len(s) - 1 : Tail(s)[i] = s[i + 1]
      /\ Head(s) = s[1]
      /\ Len(s) \in Nat \ {0}
  BY HeadTailProperties, LenProperties, EmptySeq
<1>2. Head(s) \in Clients(s) /\ OnceEach(Tail(s))
  BY <1>1 DEF Clients, OnceEach
<1>3. ASSUME NEW x \in Clients(Tail(s)) PROVE x \in Clients(s) \ {Head(s)}
  <2>1. PICK i \in 1 .. Len(s) - 1 : x = s[i + 1]
    BY <1>1 DEF Clients
  <2>2. i + 1 \in 1 .. Len(s) /\ i + 1 # 1 /\ 1 \in 1 .. Len(s)
    BY <1>1
  <2> QED
    BY <1>1, <2>1, <2>2 DEF Clients, OnceEach
<1>4. ASSUME NEW x \in Clients(s) \ {Head(s)} PROVE x \in Clients(Tail(s))
  <2>1. PICK i \in 1 .. Len(s) : x = s[i]
    BY DEF Clients
  <2>2. i # 1 /\ i - 1 \in 1 .. Len(s) - 1 /\ (i - 1) + 1 = i
    BY <1>1, <2>1
  <2> QED
    BY <1>1, <2>1, <2>2 DEF Clients
<1> QED
  BY <1>2, <1>3, <1>4

(* A party cannot meet more parties than there are higher ids, and when it *)
(* has met as many, it has met them all.                                   *)
LEMMA MetBound ==
    ASSUME NEW p \in Parties
    PROVE  /\ IsFiniteSet(Met(p))
           /\ Cardinality(Met(p)) \in 0 .. Expected(p)
           /\ Cardinality(Met(p)) = Expected(p) <=> \A q \in Parties : q > p => Has(p, q)
<1>1. Met(p) \in SUBSET (p + 1 .. G - 1)
  BY PartiesFacts DEF Met, Parties
<1>2. /\ IsFiniteSet(p + 1 .. G - 1)
      /\ Cardinality(p + 1 .. G - 1) = Expected(p)
  BY PartiesFacts, FS_Interval DEF Expected, Parties
<1>3. /\ IsFiniteSet(Met(p))
      /\ Cardinality(Met(p)) <= Expected(p)
      /\ Cardinality(Met(p)) = Expected(p) <=> Met(p) = p + 1 .. G - 1
  BY <1>1, <1>2, FS_Subset
<1>4. Cardinality(Met(p)) \in Nat /\ Expected(p) \in Nat
  BY <1>3, FS_CardinalityType, PartiesFacts DEF Expected, Parties
<1> QED
  BY <1>3, <1>4, PartiesFacts DEF Met, Parties

(* An accept loop that is over has met all higher ids, and nothing more    *)
(* comes to it.                                                            *)
LEMMA AcceptedAll ==
    ASSUME IInv, NEW p \in Parties, phase[p] \notin {"boot", "failed"}, ~deaf[p],
           ~Accepting(p)
    PROVE  /\ \A q \in Parties : q > p => Has(p, q)
           /\ greeting[p] = G
           /\ \A q \in Parties : q \notin Clients(backlog[p])
           /\ accepted[p] = Expected(p)
<1>1. accepted[p] = Cardinality(Met(p)) /\ accepted[p] \in Nat
  BY DEF IInv, AcceptOK, Shapes
<1>2. accepted[p] = Expected(p)
  <2>1. Expected(p) \in Nat
    BY PartiesFacts DEF Expected, Parties
  <2> QED
    BY <1>1, <2>1, MetBound DEF Accepting
<1>3. \A q \in Parties : q > p => Has(p, q)
  BY <1>1, <1>2, MetBound
<1>4. greeting[p] = G
  <2>1. greeting[p] \in Parties \cup {G} /\ greeting[p] > p
    BY DEF IInv, Shapes, AcceptOK
  <2>2. \A q \in Parties : q > p => greeting[p] # q
    BY <1>3 DEF IInv, EndsOK
  <2> QED
    BY <2>1, <2>2
<1>5. \A q \in Parties : q \notin Clients(backlog[p])
  BY <1>3, PartiesFacts DEF IInv, AcceptOK, EndsOK
<1> QED
  BY <1>2, <1>3, <1>4, <1>5

-----------------------------------------------------------------------------

(* The invariant holds at first.                                           *)
LEMMA InitEstablishes == Init => IInv
<1> SUFFICES ASSUME Init PROVE IInv
  OBVIOUS
<1>1. Shapes
  BY PartiesFacts DEF Init, Shapes
<1>2. \A p \in Parties : Ids(queue[p]) = {} /\ Clients(backlog[p]) = {}
  BY DEF Init, Ids, Clients
<1>3. \A p, q \in Parties : ~ Has(p, q)
  BY <1>2 DEF Init, Has
<1>4. \A p \in Parties : QueueOK(p) /\ BacklogOK(p)
  BY DEF Init, QueueOK, IdsOnce, BacklogOK, OnceEach
<1>5. \A p \in Parties : ConnsOK(p) /\ TasksOK(p) /\ UpOK(p)
  BY NetInitAssumption DEF Init, ConnsOK, TasksOK, UpOK
<1>6. \A c, s \in Parties : EndsOK(c, s)
  BY <1>2, <1>3, PartiesFacts DEF Init, EndsOK, Linked
<1>7. ASSUME NEW p \in Parties PROVE AcceptOK(p) /\ DeafOK(p)
  <2>1. Cardinality(Met(p)) = 0
    BY <1>3, FS_EmptySet DEF Met
  <2> QED
    BY <1>2, <2>1, PartyOrder, NetInitAssumption DEF Init, AcceptOK, DeafOK
<1> QED
  BY <1>1, <1>4, <1>5, <1>6, <1>7 DEF IInv, TasksOK

(* An action that leaves channels and maps alone changes nothing of who    *)
(* has what.                                                               *)
LEMMA HasUnchanged ==
    ASSUME UNCHANGED <<queue, conns>>
    PROVE  /\ \A p, q : Has(p, q)' <=> Has(p, q)
           /\ \A p : Met(p)' = Met(p)
BY DEF Has, Met, Ids

(* What DeafOK needs of a step that ends no accept task.                   *)
LEMMA DeafKept ==
    ASSUME IInv, UNCHANGED deaf,
           \A a \in Parties : deaf[a] =>
               /\ backlog'[a] = backlog[a] /\ greeting'[a] = greeting[a]
               /\ accepted'[a] = accepted[a] /\ phase'[a] \notin {"boot", "failed"},
           \A a, b \in Parties : task[a][b] = "failed" => task'[a][b] = "failed"
    PROVE  \A a \in Parties : DeafOK(a)'
<1> SUFFICES ASSUME NEW a \in Parties, deaf[a]
             PROVE  /\ backlog'[a] = << >> /\ greeting'[a] = G
                    /\ phase'[a] \notin {"boot", "failed"} /\ accepted'[a] < Expected(a)
                    /\ \/ a \in MayFail
                       \/ \E q \in MayFail : q > a /\ task'[q][a] = "failed"
  BY DEF DeafOK, Expected
<1>1. /\ backlog[a] = << >> /\ greeting[a] = G /\ accepted[a] < Expected(a)
      /\ \/ a \in MayFail
         \/ \E q \in MayFail : q > a /\ task[q][a] = "failed"
  BY DEF IInv, DeafOK
<1> QED
  BY <1>1, NetInitAssumption DEF Parties

(* Each step keeps the invariant: binding the listener,                    *)
LEMMA BindStep ==
    ASSUME IInv, NEW p \in Parties, Bind(p)
    PROVE  IInv'
<1> USE DEF Bind
<1>1. Shapes'
  BY DEF IInv, Shapes
<1>2. /\ \A a, b : Has(a, b)' <=> Has(a, b)
      /\ \A a : Met(a)' = Met(a)
  BY HasUnchanged
<1>3. \A a \in Parties : QueueOK(a)' /\ BacklogOK(a)' /\ ConnsOK(a)'
  BY DEF IInv, QueueOK, BacklogOK, ConnsOK
<1>4. ASSUME NEW a \in Parties, NEW b \in Parties
      PROVE  /\ (task[a][b] = "idle" <=> phase[a] \in {"boot", "failed"} \/ b >= a)'
             /\ (task[a][b] \in {"idle", "try"} => tries[a][b] < MaxRetries)'
  <2>1. CASE a = p
    <3>1. /\ phase'[a] = "init"
          /\ task'[a][b] = IF b \in Lower(p) THEN "try" ELSE "idle"
          /\ tries'[a][b] = tries[a][b]
      BY <2>1 DEF IInv, Shapes
    <3> QED
      BY <2>1, <3>1, PartyOrder DEF IInv, TasksOK
  <2>2. CASE a # p
    <3>1. phase'[a] = phase[a] /\ task'[a] = task[a] /\ tries' = tries
      BY <2>2 DEF IInv, Shapes
    <3> QED
      BY <3>1 DEF IInv, TasksOK
  <2> QED
    BY <2>1, <2>2
<1>5. ASSUME NEW c \in Parties, NEW s \in Parties, s < c PROVE EndsOK(c, s)'
  <2>1. EndsOK(c, s) /\ TasksOK(c)
    BY <1>5 DEF IInv
  <2>2. \/ task[c][s]' = task[c][s]
        \/ task[c][s] = "idle" /\ task[c][s]' \in {"idle", "try"}
    BY <2>1 DEF IInv, Shapes, TasksOK
  <2> QED
    BY <1>2, <2>1, <2>2 DEF EndsOK, Linked
<1>6. \A a \in Parties : AcceptOK(a)'
  BY <1>2 DEF IInv, Shapes, AcceptOK
<1>7. ASSUME NEW a \in Parties PROVE UpOK(a)'
  BY DEF IInv, Shapes, UpOK, SendersGone, Accepting, Expected
<1>70. \A a \in Parties : DeafOK(a)'
  <2>1. \A a \in Parties : deaf[a] =>
            /\ backlog'[a] = backlog[a] /\ greeting'[a] = greeting[a]
            /\ accepted'[a] = accepted[a] /\ phase'[a] \notin {"boot", "failed"}
    BY DEF IInv, DeafOK, Shapes
  <2>2. \A a, b \in Parties : task[a][b] = "failed" => task'[a][b] = "failed"
    BY DEF IInv, Shapes, TasksOK
  <2>3. UNCHANGED deaf
    OBVIOUS
  <2> HIDE DEF Bind
  <2> QED
    BY <2>1, <2>2, <2>3, DeafKept
<1> QED
  BY <1>1, <1>3, <1>4, <1>5, <1>6, <1>7, <1>70 DEF IInv, TasksOK

(* an attempt that fails,                                                  *)
LEMMA RefusedStep ==
    ASSUME IInv, NEW p \in Parties, NEW q \in Lower(p), Refused(p, q)
    PROVE  IInv'
<1> USE DEF Refused
<1>0. q \in Parties /\ q < p
  BY PartiesFacts DEF Lower, Parties
<1>1. Shapes'
  <2>1. tries[p][q] \in 0 .. MaxRetries - 1
    BY <1>0, PartiesFacts DEF IInv, TasksOK, Shapes
  <2>2. tries[p][q] + 1 \in 0 .. MaxRetries
    BY <2>1, PartiesFacts
  <2>3. tries' \in [Parties -> [Parties -> 0 .. MaxRetries]]
    BY <1>0, <2>2 DEF IInv, Shapes
  <2> QED
    BY <1>0, <2>3 DEF IInv, Shapes
<1>2. /\ \A a, b : Has(a, b)' <=> Has(a, b)
      /\ \A a : Met(a)' = Met(a)
  BY HasUnchanged
<1>3. \A a \in Parties : QueueOK(a)' /\ BacklogOK(a)' /\ ConnsOK(a)'
  BY DEF IInv, QueueOK, BacklogOK, ConnsOK
<1>4. ASSUME NEW a \in Parties, NEW b \in Parties
      PROVE  /\ (task[a][b] = "idle" <=> phase[a] \in {"boot", "failed"} \/ b >= a)'
             /\ (task[a][b] \in {"idle", "try"} => tries[a][b] < MaxRetries)'
  <2>1. CASE a = p /\ b = q
    <3>0. phase[p] \notin {"boot", "failed"} /\ ~ (q >= p) /\ tries[p][q] < MaxRetries
      BY <1>0, PartyOrder DEF IInv, TasksOK
    <3>1. tries[p][q] \in 0 .. MaxRetries
      BY <1>0 DEF IInv, Shapes
    <3>2. /\ tries'[a][b] = tries[p][q] + 1
          /\ task'[a][b] = IF tries[p][q] + 1 = MaxRetries THEN "timeout" ELSE "try"
      BY <1>0, <2>1 DEF IInv, Shapes
    <3> QED
      BY <2>1, <3>0, <3>1, <3>2, NetInitAssumption
  <2>2. CASE ~(a = p /\ b = q)
    <3>1. task'[a][b] = task[a][b] /\ tries'[a][b] = tries[a][b]
      BY <1>0, <2>2 DEF IInv, Shapes
    <3> QED
      BY <3>1 DEF IInv, TasksOK
  <2> QED
    BY <2>1, <2>2
<1>5. ASSUME NEW c \in Parties, NEW s \in Parties, s < c PROVE EndsOK(c, s)'
  <2>1. EndsOK(c, s)
    BY <1>5 DEF IInv
  <2>2. \/ task[c][s]' = task[c][s]
        \/ task[c][s] = "try" /\ task[c][s]' \in {"timeout", "try"}
    BY DEF IInv, Shapes
  <2> QED
    BY <1>2, <2>1, <2>2 DEF EndsOK, Linked
<1>6. \A a \in Parties : AcceptOK(a)'
  BY <1>2 DEF IInv, AcceptOK
<1>7. ASSUME NEW a \in Parties PROVE UpOK(a)'
  BY <1>0 DEF IInv, Shapes, UpOK, SendersGone, Accepting, Expected, Lower, Parties
<1>70. \A a \in Parties : DeafOK(a)'
  <2>1. \A a \in Parties : deaf[a] =>
            /\ backlog'[a] = backlog[a] /\ greeting'[a] = greeting[a]
            /\ accepted'[a] = accepted[a] /\ phase'[a] \notin {"boot", "failed"}
    BY <1>0 DEF IInv, DeafOK, Shapes
  <2>2. \A a, b \in Parties : task[a][b] = "failed" => task'[a][b] = "failed"
    BY <1>0 DEF IInv, Shapes
  <2>3. UNCHANGED deaf
    OBVIOUS
  <2> HIDE DEF Refused
  <2> QED
    BY <2>1, <2>2, <2>3, DeafKept
<1> QED
  BY <1>1, <1>3, <1>4, <1>5, <1>6, <1>7, <1>70 DEF IInv, TasksOK

(* the id that goes out,                                                   *)
LEMMA GreetStep ==
    ASSUME IInv, NEW p \in Parties, NEW q \in Lower(p), Greet(p, q)
    PROVE  IInv'
<1> USE DEF Greet
<1>0. q \in Parties /\ q < p
  BY PartiesFacts DEF Lower, Parties
<1>1. Shapes'
  BY <1>0 DEF IInv, Shapes
<1>2. /\ \A a, b : Has(a, b)' <=> Has(a, b)
      /\ \A a : Met(a)' = Met(a)
  BY HasUnchanged
<1>3. \A a \in Parties : QueueOK(a)' /\ BacklogOK(a)' /\ ConnsOK(a)'
  BY DEF IInv, QueueOK, BacklogOK, ConnsOK
<1>4. ASSUME NEW a \in Parties, NEW b \in Parties
      PROVE  /\ (task[a][b] = "idle" <=> phase[a] \in {"boot", "failed"} \/ b >= a)'
             /\ (task[a][b] \in {"idle", "try"} => tries[a][b] < MaxRetries)'
  <2>1. \/ task'[a][b] = task[a][b]
        \/ task[a][b] = "linked" /\ task'[a][b] = "greeted"
    BY DEF IInv, Shapes
  <2> QED
    BY <2>1 DEF IInv, TasksOK
<1>5. ASSUME NEW c \in Parties, NEW s \in Parties, s < c PROVE EndsOK(c, s)'
  <2>1. EndsOK(c, s)
    BY <1>5 DEF IInv
  <2>2. \/ task[c][s]' = task[c][s]
        \/ task[c][s] = "linked" /\ task[c][s]' = "greeted"
    BY DEF IInv, Shapes
  <2> QED
    BY <1>2, <2>1, <2>2 DEF EndsOK, Linked
<1>6. \A a \in Parties : AcceptOK(a)'
  BY <1>2 DEF IInv, AcceptOK
<1>7. ASSUME NEW a \in Parties PROVE UpOK(a)'
  BY <1>0 DEF IInv, Shapes, UpOK, SendersGone, Accepting, Expected, Lower, Parties
<1>70. \A a \in Parties : DeafOK(a)'
  <2>1. \A a \in Parties : deaf[a] =>
            /\ backlog'[a] = backlog[a] /\ greeting'[a] = greeting[a]
            /\ accepted'[a] = accepted[a] /\ phase'[a] \notin {"boot", "failed"}
    BY <1>0 DEF IInv, DeafOK, Shapes
  <2>2. \A a, b \in Parties : task[a][b] = "failed" => task'[a][b] = "failed"
    BY <1>0 DEF IInv, Shapes
  <2>3. UNCHANGED deaf
    OBVIOUS
  <2> HIDE DEF Greet
  <2> QED
    BY <2>1, <2>2, <2>3, DeafKept
<1> QED
  BY <1>1, <1>3, <1>4, <1>5, <1>6, <1>7, <1>70 DEF IInv, TasksOK

(* the end of initialize,                                                  *)
LEMMA ReturnStep ==
    ASSUME IInv, NEW p \in Parties, Return(p)
    PROVE  IInv'
<1> USE DEF Return
<1>1. Shapes'
  BY DEF IInv, Shapes
<1>2. /\ \A a, b : Has(a, b)' <=> Has(a, b)
      /\ \A a : Met(a)' = Met(a)
  BY HasUnchanged
<1>3. \A a \in Parties : QueueOK(a)' /\ BacklogOK(a)' /\ ConnsOK(a)'
  BY DEF IInv, QueueOK, BacklogOK, ConnsOK
<1>4. \A a \in Parties :
          (phase[a] \in {"boot", "failed"})' <=> phase[a] \in {"boot", "failed"}
  BY DEF IInv, Shapes
<1>5. \A a \in Parties : TasksOK(a)'
  BY <1>4 DEF IInv, TasksOK
<1>6. \A c, s \in Parties : s < c => EndsOK(c, s)'
  BY <1>2 DEF IInv, EndsOK
<1>7. \A a \in Parties : AcceptOK(a)'
  BY <1>2 DEF IInv, Shapes, AcceptOK
<1>8. ASSUME NEW a \in Parties PROVE UpOK(a)'
  BY <1>4 DEF IInv, Shapes, UpOK, SendersGone, Accepting
<1>70. \A a \in Parties : DeafOK(a)'
  <2>1. \A a \in Parties : deaf[a] =>
            /\ backlog'[a] = backlog[a] /\ greeting'[a] = greeting[a]
            /\ accepted'[a] = accepted[a] /\ phase'[a] \notin {"boot", "failed"}
    BY DEF IInv, DeafOK, Shapes
  <2>2. \A a, b \in Parties : task[a][b] = "failed" => task'[a][b] = "failed"
    BY DEF IInv, Shapes
  <2>3. UNCHANGED deaf
    OBVIOUS
  <2> HIDE DEF Return
  <2> QED
    BY <2>1, <2>2, <2>3, DeafKept
<1> QED
  BY <1>1, <1>3, <1>5, <1>6, <1>7, <1>8, <1>70 DEF IInv

(* a connection the kernel makes,                                          *)
LEMMA ConnectStep ==
    ASSUME IInv, NEW p \in Parties, NEW q \in Lower(p), Connect(p, q)
    PROVE  IInv'
<1> USE DEF Connect
<1>0. q \in Parties /\ q < p
  BY PartyOrder
<1>1. Shapes'
  <2>1. backlog' \in [Parties -> Seq(Parties)]
    BY <1>0, AppendProperties DEF IInv, Shapes
  <2> QED
    BY <1>0, <2>1 DEF IInv, Shapes
<1>2. /\ \A a, b : Has(a, b)' <=> Has(a, b)
      /\ \A a : Met(a)' = Met(a)
  BY HasUnchanged
<1>3. \A a \in Parties : QueueOK(a)' /\ ConnsOK(a)'
  BY DEF IInv, QueueOK, ConnsOK
<1>4. ASSUME NEW a \in Parties, NEW b \in Parties
      PROVE  IF a = p /\ b = q
             THEN task[a][b] = "try" /\ task'[a][b] = "linked"
             ELSE task'[a][b] = task[a][b]
  BY <1>0 DEF IInv, Shapes
<1>5. \A a \in Parties : TasksOK(a)'
  BY <1>4 DEF IInv, TasksOK
<1>6. ~ Has(q, p) /\ greeting[q] # p /\ p \notin Clients(backlog[q])
  BY <1>0 DEF IInv, EndsOK, Linked
<1>7. /\ backlog[q] \in Seq(Parties)
      /\ backlog'[q] = Append(backlog[q], p)
      /\ \A a \in Parties : a # q => backlog'[a] = backlog[a]
  BY <1>0 DEF IInv, Shapes
<1>8. Clients(backlog[q])' = Clients(backlog[q]) \cup {p} /\ BacklogOK(q)'
  BY <1>0, <1>6, <1>7, ClientsAppend DEF IInv, BacklogOK
<1>9. \A a \in Parties : BacklogOK(a)'
  BY <1>7, <1>8 DEF IInv, BacklogOK
<1>10. ASSUME NEW c \in Parties, NEW s \in Parties, s < c PROVE EndsOK(c, s)'
  <2>1. EndsOK(c, s)
    BY <1>10 DEF IInv
  <2>2. CASE c = p /\ s = q
    BY <1>2, <1>4, <1>6, <1>8, <2>1, <2>2 DEF EndsOK, Linked
  <2>3. CASE ~ (c = p /\ s = q)
    <3>1. task'[c][s] = task[c][s]
      BY <1>4, <2>3
    <3>2. c \in Clients(backlog[s])' <=> c \in Clients(backlog[s])
      BY <1>7, <1>8, <2>3
    <3> QED
      BY <1>2, <2>1, <3>1, <3>2 DEF EndsOK
  <2> QED
    BY <2>2, <2>3
<1>11. ASSUME NEW a \in Parties PROVE AcceptOK(a)'
  <2>1. \A c \in Clients(backlog[a])' : c > a
    BY <1>0, <1>7, <1>8, PartyOrder DEF IInv, AcceptOK
  <2>2. phase[q] \notin {"boot", "failed"}
    BY DEF Accepting
  <2> QED
    BY <1>2, <1>7, <2>1, <2>2 DEF IInv, AcceptOK
<1>12. ASSUME NEW a \in Parties PROVE UpOK(a)'
  BY <1>4, PartyOrder DEF IInv, UpOK, SendersGone, Accepting
<1>70. \A a \in Parties : DeafOK(a)'
  <2>1. \A a \in Parties : deaf[a] =>
            /\ backlog'[a] = backlog[a] /\ greeting'[a] = greeting[a]
            /\ accepted'[a] = accepted[a] /\ phase'[a] \notin {"boot", "failed"}
    BY DEF IInv, DeafOK, Shapes, Accepting
  <2>2. \A a, b \in Parties : task[a][b] = "failed" => task'[a][b] = "failed"
    BY <1>4 DEF IInv, Shapes
  <2>3. UNCHANGED deaf
    OBVIOUS
  <2> HIDE DEF Connect
  <2> QED
    BY <2>1, <2>2, <2>3, DeafKept
<1> QED
  BY <1>1, <1>3, <1>5, <1>9, <1>10, <1>11, <1>12, <1>70 DEF IInv

(* one the accept loop takes,                                              *)
LEMMA AcceptStep ==
    ASSUME IInv, NEW p \in Parties, Accept(p)
    PROVE  IInv'
<1> USE DEF Accept
<1> DEFINE c0 == Head(backlog[p])
<1>0. /\ backlog[p] \in Seq(Parties) /\ OnceEach(backlog[p])
      /\ backlog'[p] = Tail(backlog[p])
      /\ greeting'[p] = c0
      /\ \A a \in Parties : a # p => backlog'[a] = backlog[a] /\ greeting'[a] = greeting[a]
  BY DEF IInv, Shapes, BacklogOK
<1>1. /\ Clients(backlog[p])' = Clients(backlog[p]) \ {c0}
      /\ c0 \in Clients(backlog[p]) /\ c0 \in Parties
      /\ OnceEach(backlog'[p])
      /\ backlog'[p] \in Seq(Parties)
  BY <1>0, ClientsTail, HeadTailProperties
<1> HIDE DEF c0
<1>2. Shapes'
  BY <1>0, <1>1 DEF IInv, Shapes
<1>3. /\ \A a, b : Has(a, b)' <=> Has(a, b)
      /\ \A a : Met(a)' = Met(a)
  BY HasUnchanged
<1>4. \A a \in Parties : QueueOK(a)' /\ ConnsOK(a)' /\ TasksOK(a)'
  BY DEF IInv, QueueOK, ConnsOK, TasksOK
<1>5. \A a \in Parties : BacklogOK(a)'
  BY <1>0, <1>1 DEF IInv, BacklogOK
<1>6. ASSUME NEW c \in Parties, NEW s \in Parties, s < c PROVE EndsOK(c, s)'
  <2>1. EndsOK(c, s)
    BY <1>6 DEF IInv
  <2>2. CASE s = p
    BY <1>0, <1>1, <1>3, <2>1, <2>2, PartiesFacts DEF EndsOK
  <2>3. CASE s # p
    BY <1>0, <1>3, <2>1, <2>3 DEF EndsOK
  <2> QED
    BY <2>2, <2>3
<1>7. ASSUME NEW a \in Parties PROVE AcceptOK(a)'
  <2>1. AcceptOK(a)
    BY DEF IInv
  <2> QED
    BY <1>0, <1>1, <1>3, <2>1 DEF AcceptOK, Accepting
<1>8. \A a \in Parties : UpOK(a)'
  BY DEF IInv, UpOK, SendersGone, Accepting
<1>70. \A a \in Parties : DeafOK(a)'
  <2>1. \A a \in Parties : deaf[a] =>
            /\ backlog'[a] = backlog[a] /\ greeting'[a] = greeting[a]
            /\ accepted'[a] = accepted[a] /\ phase'[a] \notin {"boot", "failed"}
    BY <1>0 DEF IInv, DeafOK, Shapes, Accepting
  <2>2. \A a, b \in Parties : task[a][b] = "failed" => task'[a][b] = "failed"
    BY <1>0 DEF IInv, Shapes
  <2>3. UNCHANGED deaf
    OBVIOUS
  <2> HIDE DEF Accept
  <2> QED
    BY <2>1, <2>2, <2>3, DeafKept
<1> QED
  BY <1>2, <1>4, <1>5, <1>6, <1>7, <1>8, <1>70 DEF IInv

(* a bind that fails,                                                      *)
LEMMA BindFailsStep ==
    ASSUME IInv, NEW p \in Parties, BindFails(p)
    PROVE  IInv'
<1> USE DEF BindFails
<1>1. Shapes'
  BY DEF IInv, Shapes
<1>2. /\ \A a, b : Has(a, b)' <=> Has(a, b)
      /\ \A a : Met(a)' = Met(a)
  BY HasUnchanged
<1>3. \A a \in Parties : QueueOK(a)' /\ BacklogOK(a)' /\ ConnsOK(a)'
  BY DEF IInv, QueueOK, BacklogOK, ConnsOK
<1>4. \A a \in Parties :
          (phase[a] \in {"boot", "failed"})' <=> phase[a] \in {"boot", "failed"}
  BY DEF IInv, Shapes
<1>5. \A a \in Parties : TasksOK(a)' /\ DeafOK(a)'
  BY <1>4 DEF IInv, TasksOK, DeafOK, Expected
<1>6. \A c, s \in Parties : s < c => EndsOK(c, s)'
  BY <1>2 DEF IInv, EndsOK
<1>7. \A a \in Parties : AcceptOK(a)'
  BY <1>2 DEF IInv, Shapes, AcceptOK
<1>8. ASSUME NEW a \in Parties PROVE UpOK(a)'
  BY <1>4 DEF IInv, Shapes, UpOK, SendersGone, Accepting
<1> QED
  BY <1>1, <1>3, <1>5, <1>6, <1>7, <1>8 DEF IInv

(* an id that cannot be written,                                           *)
LEMMA GreetFailsStep ==
    ASSUME IInv, NEW p \in Parties, NEW q \in Lower(p), GreetFails(p, q)
    PROVE  IInv'
<1> USE DEF GreetFails
<1>0. q \in Parties /\ q < p
  BY PartyOrder
<1>1. Shapes'
  BY <1>0 DEF IInv, Shapes
<1>2. /\ \A a, b : Has(a, b)' <=> Has(a, b)
      /\ \A a : Met(a)' = Met(a)
  BY HasUnchanged
<1>3. \A a \in Parties : QueueOK(a)' /\ BacklogOK(a)' /\ ConnsOK(a)'
  BY DEF IInv, QueueOK, BacklogOK, ConnsOK
<1>4. ASSUME NEW a \in Parties, NEW b \in Parties
      PROVE  IF a = p /\ b = q
             THEN task[a][b] = "linked" /\ task'[a][b] = "failed"
             ELSE task'[a][b] = task[a][b]
  BY <1>0 DEF IInv, Shapes
<1>5. \A a \in Parties : TasksOK(a)'
  BY <1>4 DEF IInv, TasksOK
<1>6. ASSUME NEW c \in Parties, NEW s \in Parties, s < c PROVE EndsOK(c, s)'
  <2>1. EndsOK(c, s)
    BY <1>6 DEF IInv
  <2>2. CASE c = p /\ s = q
    BY <1>2, <1>4, <2>1, <2>2 DEF EndsOK, Linked
  <2>3. CASE ~ (c = p /\ s = q)
    BY <1>2, <1>4, <2>1, <2>3 DEF EndsOK
  <2> QED
    BY <2>2, <2>3
<1>7. \A a \in Parties : AcceptOK(a)'
  BY <1>2 DEF IInv, AcceptOK
<1>8. ASSUME NEW a \in Parties PROVE UpOK(a)'
  BY <1>4, PartyOrder DEF IInv, UpOK, SendersGone, Accepting
<1>9. \A a \in Parties : DeafOK(a)'
  <2>1. \A a \in Parties : deaf[a] =>
            /\ backlog'[a] = backlog[a] /\ greeting'[a] = greeting[a]
            /\ accepted'[a] = accepted[a] /\ phase'[a] \notin {"boot", "failed"}
    BY DEF IInv, DeafOK
  <2>2. \A a, b \in Parties : task[a][b] = "failed" => task'[a][b] = "failed"
    BY <1>4
  <2>3. UNCHANGED deaf
    OBVIOUS
  <2> HIDE DEF GreetFails
  <2> QED
    BY <2>1, <2>2, <2>3, DeafKept
<1> QED
  BY <1>1, <1>3, <1>5, <1>6, <1>7, <1>8, <1>9 DEF IInv

(* an accept task that ends in an error,                                   *)
LEMMA AcceptEndsStep ==
    ASSUME IInv, NEW p \in Parties, AcceptEnds(p), Accepting(p),
           p \in MayFail \/ \E q \in MayFail : q > p /\ task[q][p] = "failed"
    PROVE  IInv'
<1> USE DEF AcceptEnds
<1>0. /\ deaf'[p] /\ greeting'[p] = G /\ backlog'[p] = << >>
      /\ \A a \in Parties : a # p => /\ deaf'[a] = deaf[a] /\ greeting'[a] = greeting[a]
                                    /\ backlog'[a] = backlog[a]
      /\ Clients(backlog[p])' = {} /\ OnceEach(backlog'[p])
  BY DEF IInv, Shapes, Clients, OnceEach
<1>1. Shapes'
  BY DEF IInv, Shapes
<1>2. /\ \A a, b : Has(a, b)' <=> Has(a, b)
      /\ \A a : Met(a)' = Met(a)
  BY HasUnchanged
<1>3. \A a \in Parties : QueueOK(a)' /\ ConnsOK(a)' /\ TasksOK(a)'
  BY DEF IInv, QueueOK, ConnsOK, TasksOK
<1>4. \A a \in Parties : BacklogOK(a)'
  BY <1>0 DEF IInv, BacklogOK
<1>5. ASSUME NEW c \in Parties, NEW s \in Parties, s < c PROVE EndsOK(c, s)'
  <2>1. EndsOK(c, s) /\ task'[c][s] = task[c][s]
    BY <1>5 DEF IInv
  <2>2. CASE s = p
    BY <1>0, <1>2, <2>1, <2>2, PartiesFacts DEF EndsOK
  <2>3. CASE s # p
    BY <1>0, <1>2, <2>1, <2>3 DEF EndsOK
  <2> QED
    BY <2>2, <2>3
<1>6. ASSUME NEW a \in Parties PROVE AcceptOK(a)'
  <2>1. CASE a = p
    <3>1. p < G
      BY PartyOrder
    <3> QED
      BY <1>0, <1>2, <2>1, <3>1 DEF IInv, AcceptOK
  <2>2. CASE a # p
    BY <1>0, <1>2, <2>2 DEF IInv, AcceptOK
  <2> QED
    BY <2>1, <2>2
<1>7. ASSUME NEW a \in Parties PROVE DeafOK(a)'
  <2>1. CASE a = p
    BY <1>0, <2>1 DEF DeafOK, Accepting, Expected
  <2>2. CASE a # p
    BY <1>0, <2>2 DEF IInv, DeafOK, Expected
  <2> QED
    BY <2>1, <2>2
<1>8. ASSUME NEW a \in Parties PROVE UpOK(a)'
  <2>1. phase[p] # "up"
    BY DEF IInv, UpOK, SendersGone
  <2> QED
    BY <1>0, <2>1 DEF IInv, UpOK, SendersGone, Accepting, Expected
<1> QED
  BY <1>1, <1>3, <1>4, <1>5, <1>6, <1>7, <1>8 DEF IInv

(* for an error of its own,                                                *)
LEMMA AcceptFailsStep ==
    ASSUME IInv, NEW p \in Parties, AcceptFails(p)
    PROVE  IInv'
BY AcceptEndsStep DEF AcceptFails

(* or of the client it waits for,                                          *)
LEMMA ReadEndsStep ==
    ASSUME IInv, NEW p \in Parties, ReadEnds(p)
    PROVE  IInv'
<1> DEFINE g == greeting[p]
<1>0. g \in Parties /\ p < g /\ task[g][p] = "failed" /\ AcceptEnds(p)
  BY PartyOrder DEF IInv, Shapes, AcceptOK, ReadEnds
<1>1. ~ deaf[p]
  BY <1>0, PartiesFacts DEF IInv, DeafOK
<1>2. EndsOK(g, p)
  BY <1>0 DEF IInv
<1>3. g \in MayFail /\ g > p
  BY <1>0, <1>1, <1>2, PartyOrder DEF EndsOK
<1>4. phase[p] \notin {"boot", "failed"}
  BY <1>0, PartiesFacts DEF IInv, AcceptOK
<1>5. Accepting(p)
  BY <1>0, <1>1, <1>2, <1>4, AcceptedAll, PartiesFacts DEF Accepting
<1> QED
  BY <1>0, <1>3, <1>5, AcceptEndsStep

(* Handing over a stream that the party does not have yet.                 *)
LEMMA QueueAppend ==
    ASSUME IInv, NEW p \in Parties, NEW q \in Parties, q # p, ~ Has(p, q),
           queue' = [queue EXCEPT ![p] = Append(@, <<q, Stream(p, q)>>)],
           UNCHANGED conns
    PROVE  /\ queue' \in [Parties -> Seq(Parties \X Streams)]
           /\ \A a, b \in Parties : Has(a, b)' <=> Has(a, b) \/ (a = p /\ b = q)
           /\ \A a \in Parties : QueueOK(a)' /\ ConnsOK(a)'
           /\ \A a \in Parties : a # p => queue'[a] = queue[a]
<1> DEFINE e == <<q, Stream(p, q)>>
<1>0. e \in Parties \X Streams /\ e[1] = q /\ e[2] = Stream(p, q)
  BY PartiesFacts
<1>1. /\ queue[p] \in Seq(Parties \X Streams) /\ IdsOnce(queue[p])
      /\ queue'[p] = Append(queue[p], e)
      /\ \A a \in Parties : a # p => queue'[a] = queue[a]
  BY DEF IInv, Shapes, QueueOK
<1> HIDE DEF e
<1>2. /\ Ids(queue[p])' = Ids(queue[p]) \cup {q}
      /\ IdsOnce(queue'[p])
      /\ queue'[p] \in Seq(Parties \X Streams)
  BY <1>0, <1>1, IdsAppend, AppendProperties DEF Has
<1>3. queue' \in [Parties -> Seq(Parties \X Streams)]
  BY <1>1, <1>2 DEF e, IInv, Shapes
<1>4. \A a, b \in Parties : Has(a, b)' <=> Has(a, b) \/ (a = p /\ b = q)
  BY <1>1, <1>2 DEF Has
<1>5. QueueOK(p)'
  <2>1. /\ Len(queue'[p]) = Len(queue[p]) + 1 /\ Len(queue[p]) \in Nat
        /\ \A i \in 1 .. Len(queue[p]) : queue'[p][i] = queue[p][i]
        /\ queue'[p][Len(queue[p]) + 1] = e
    BY <1>0, <1>1, AppendProperties, LenProperties
  <2>2. ASSUME NEW i \in 1 .. Len(queue'[p])
        PROVE  /\ queue'[p][i][1] # p
               /\ queue'[p][i][2] = Stream(p, queue'[p][i][1])
               /\ conns'[p][queue'[p][i][1]] = None
    <3>1. CASE i \in 1 .. Len(queue[p])
      BY <2>1, <3>1 DEF IInv, QueueOK
    <3>2. CASE i = Len(queue[p]) + 1
      BY <1>0, <2>1, <3>2 DEF Has
    <3> QED
      BY <2>1, <3>1, <3>2
  <2> QED
    BY <1>2, <2>2 DEF QueueOK
<1>6. \A a \in Parties : QueueOK(a)' /\ ConnsOK(a)'
  <2>1. \A a \in Parties : ConnsOK(a)'
    BY DEF IInv, ConnsOK
  <2>2. \A a \in Parties : a # p => QueueOK(a)'
    BY <1>1 DEF IInv, QueueOK
  <2> QED
    BY <1>5, <2>1, <2>2
<1> QED
  BY <1>1, <1>3, <1>4, <1>6

(* one that a connect task hands over,                                     *)
LEMMA HandOverStep ==
    ASSUME IInv, NEW p \in Parties, NEW q \in Lower(p), HandOver(p, q)
    PROVE  IInv'
<1> USE DEF HandOver
<1>0. q \in Parties /\ q < p /\ q # p /\ p \in Nat /\ q \in Nat
  BY PartyOrder
<1>1. ~ Has(p, q)
  BY <1>0 DEF IInv, EndsOK
<1>2. /\ queue' \in [Parties -> Seq(Parties \X Streams)]
      /\ \A a, b \in Parties : Has(a, b)' <=> Has(a, b) \/ (a = p /\ b = q)
      /\ \A a \in Parties : QueueOK(a)' /\ ConnsOK(a)'
      /\ \A a \in Parties : a # p => queue'[a] = queue[a]
  <2>1. Stream(p, q) = <<p, q>>
    BY <1>0 DEF Stream
  <2>2. queue' = [queue EXCEPT ![p] = Append(@, <<q, Stream(p, q)>>)]
    BY <2>1
  <2>3. UNCHANGED conns
    OBVIOUS
  <2> HIDE DEF HandOver
  <2> QED
    BY <1>0, <1>1, <2>2, <2>3, QueueAppend
<1>3. Shapes'
  BY <1>0, <1>2 DEF IInv, Shapes
<1>4. ASSUME NEW a \in Parties, NEW b \in Parties
      PROVE  IF a = p /\ b = q
             THEN task[a][b] = "greeted" /\ task'[a][b] = "handed"
             ELSE task'[a][b] = task[a][b]
  BY <1>0 DEF IInv, Shapes
<1>5. \A a \in Parties : BacklogOK(a)' /\ TasksOK(a)'
  BY <1>4 DEF IInv, BacklogOK, TasksOK
<1>6. ASSUME NEW c \in Parties, NEW s \in Parties, s < c PROVE EndsOK(c, s)'
  <2>1. EndsOK(c, s) /\ ~ (s = p /\ c = q)
    BY <1>0, <1>6, PartyOrder DEF IInv
  <2>2. (Has(c, s)' <=> Has(c, s) \/ (c = p /\ s = q)) /\ (Has(s, c)' <=> Has(s, c))
    BY <1>2, <2>1
  <2>3. greeting'[s] = greeting[s] /\ Clients(backlog[s])' = Clients(backlog[s])
    OBVIOUS
  <2> QED
    BY <1>4, <2>1, <2>2, <2>3 DEF EndsOK, Linked
<1>7. ASSUME NEW a \in Parties PROVE AcceptOK(a)'
  <2>1. Met(a)' = Met(a)
    BY <1>0, <1>2 DEF Met
  <2> QED
    BY <2>1 DEF IInv, AcceptOK
<1>8. ASSUME NEW a \in Parties PROVE UpOK(a)'
  <2>1. UpOK(a) /\ UpOK(p)
    BY DEF IInv
  <2>2. phase[p] # "up"
    BY <2>1 DEF UpOK, SendersGone
  <2>3. /\ UNCHANGED <<phase, accepted, deaf>>
        /\ \A b \in Lower(a) : a # p => task'[a][b] = task[a][b]
        /\ a # p => queue'[a] = queue[a]
    BY <1>2, <1>4, PartyOrder
  <2>4. Accepting(a)' <=> Accepting(a)
    BY <2>3 DEF Accepting
  <2>5. a # p => (SendersGone(a) => SendersGone(a)')
    BY <2>3, <2>4 DEF SendersGone
  <2> QED
    BY <2>1, <2>2, <2>3, <2>5 DEF UpOK
<1>70. \A a \in Parties : DeafOK(a)'
  <2>1. \A a \in Parties : deaf[a] =>
            /\ backlog'[a] = backlog[a] /\ greeting'[a] = greeting[a]
            /\ accepted'[a] = accepted[a] /\ phase'[a] \notin {"boot", "failed"}
    BY DEF IInv, DeafOK, Shapes
  <2>2. \A a, b \in Parties : task[a][b] = "failed" => task'[a][b] = "failed"
    BY <1>4 DEF IInv, Shapes
  <2>3. UNCHANGED deaf
    OBVIOUS
  <2> HIDE DEF HandOver
  <2> QED
    BY <2>1, <2>2, <2>3, DeafKept
<1> QED
  BY <1>2, <1>3, <1>5, <1>6, <1>7, <1>8, <1>70 DEF IInv

(* the id of a new connection,                                             *)
LEMMA ReadIdStep ==
    ASSUME IInv, NEW p \in Parties, ReadId(p)
    PROVE  IInv'
<1> USE DEF ReadId
<1> DEFINE g == greeting[p]
<1>0. g \in Parties /\ p < g /\ g # p /\ p \in Nat /\ g \in Nat
  BY PartyOrder DEF IInv, Shapes, AcceptOK
<1>1. ~ Has(p, g)
  BY <1>0 DEF IInv, EndsOK
<1>2. /\ queue' \in [Parties -> Seq(Parties \X Streams)]
      /\ \A a, b \in Parties : Has(a, b)' <=> Has(a, b) \/ (a = p /\ b = g)
      /\ \A a \in Parties : QueueOK(a)' /\ ConnsOK(a)'
      /\ \A a \in Parties : a # p => queue'[a] = queue[a]
  <2>1. Stream(p, g) = <<g, p>>
    BY <1>0 DEF Stream
  <2>2. queue' = [queue EXCEPT ![p] = Append(@, <<g, Stream(p, g)>>)]
    BY <2>1
  <2>3. UNCHANGED conns
    OBVIOUS
  <2> HIDE DEF g, ReadId
  <2> QED
    BY <1>0, <1>1, <2>2, <2>3, QueueAppend
<1>3. /\ accepted' = [accepted EXCEPT ![p] = @ + 1]
      /\ greeting' = [greeting EXCEPT ![p] = G]
      /\ accepted[p] \in Nat /\ greeting[p] = g
      /\ UNCHANGED <<phase, backlog, deaf, task, tries, conns>>
  BY DEF IInv, Shapes
<1>30. task[g][p] \in {"greeted", "handed"}
  OBVIOUS
<1> HIDE DEF g, ReadId
<1>4. Shapes'
  <2>1. greeting' \in [Parties -> Parties \cup {G}] /\ accepted' \in [Parties -> Nat]
    BY <1>3 DEF IInv, Shapes
  <2> QED
    BY <1>2, <1>3, <2>1 DEF IInv, Shapes
<1>5. \A a \in Parties : BacklogOK(a)' /\ TasksOK(a)'
  BY <1>3 DEF IInv, BacklogOK, TasksOK
<1>6. \A a \in Parties : /\ a # p => greeting'[a] = greeting[a] /\ accepted'[a] = accepted[a]
                         /\ a = p => greeting'[a] = G /\ accepted'[a] = accepted[a] + 1
  BY <1>3 DEF IInv, Shapes
<1>7. ASSUME NEW c \in Parties, NEW s \in Parties, s < c PROVE EndsOK(c, s)'
  <2>0. c \in Nat /\ s \in Nat
    BY PartyOrder
  <2>1. EndsOK(c, s) /\ ~ (c = p /\ s = g)
    BY <1>0, <1>7, <2>0 DEF IInv
  <2>2. (Has(s, c)' <=> Has(s, c) \/ (s = p /\ c = g)) /\ (Has(c, s)' <=> Has(c, s))
    BY <1>2, <2>1
  <2>3. task'[c][s] = task[c][s] /\ Clients(backlog[s])' = Clients(backlog[s])
    BY <1>3
  <2>4. deaf'[s] = deaf[s] /\ (s # p => greeting'[s] = greeting[s])
    BY <1>3, <1>6
  <2>5. CASE s # p
    BY <2>1, <2>2, <2>3, <2>4, <2>5 DEF EndsOK
  <2>6. CASE s = p /\ c = g
    <3>1. task[c][s] \in {"greeted", "handed"} /\ greeting[s] = c
      BY <1>3, <1>30, <2>6
    <3>2. greeting'[s] # c
      BY <1>6, <2>6, PartiesFacts
    <3> QED
      BY <2>1, <2>2, <2>3, <2>4, <3>1, <3>2, <2>6 DEF EndsOK, Linked
  <2>7. CASE s = p /\ c # g
    <3>1. greeting[s] # c /\ greeting'[s] # c
      BY <1>3, <1>6, <2>7, PartiesFacts
    <3> QED
      BY <2>1, <2>2, <2>3, <2>4, <2>7, <3>1 DEF EndsOK
  <2> QED
    BY <2>5, <2>6, <2>7
<1>8. ASSUME NEW a \in Parties PROVE AcceptOK(a)'
  <2>1. CASE a = p
    <3>1. Met(p)' = Met(p) \cup {g} /\ g \notin Met(p)
      BY <1>0, <1>1, <1>2 DEF Met
    <3>2. Cardinality(Met(p)') = Cardinality(Met(p)) + 1
      BY <3>1, MetBound, FS_AddElement
    <3> QED
      BY <1>3, <1>6, <2>1, <3>2, PartyOrder DEF IInv, AcceptOK
  <2>2. CASE a # p
    <3>1. Met(a)' = Met(a)
      BY <1>2, <1>3, <2>2 DEF Met
    <3> QED
      BY <1>3, <1>6, <2>2, <3>1 DEF IInv, AcceptOK
  <2> QED
    BY <2>1, <2>2
<1>9. ASSUME NEW a \in Parties PROVE UpOK(a)'
  <2>1. phase[p] # "up"
    <3>1. (phase[p] = "up" => ~Accepting(p)) /\ ~deaf[p]
      BY <1>0, <1>3, PartiesFacts DEF IInv, UpOK, SendersGone, DeafOK
    <3>2. phase[p] = "up" => greeting[p] = G
      BY <3>1, AcceptedAll
    <3> QED
      BY <1>0, <1>3, <3>2, PartiesFacts
  <2> QED
    BY <1>2, <1>3, <1>6, <2>1 DEF IInv, UpOK, SendersGone, Accepting
<1>70. \A a \in Parties : DeafOK(a)'
  <2>1. \A a \in Parties : deaf[a] =>
            /\ backlog'[a] = backlog[a] /\ greeting'[a] = greeting[a]
            /\ accepted'[a] = accepted[a] /\ phase'[a] \notin {"boot", "failed"}
    BY <1>0, <1>3, PartiesFacts DEF IInv, DeafOK, Shapes
  <2>2. \A a, b \in Parties : task[a][b] = "failed" => task'[a][b] = "failed"
    BY <1>3 DEF IInv, Shapes
  <2>3. UNCHANGED deaf
    BY <1>3
  <2> QED
    BY <2>1, <2>2, <2>3, DeafKept
<1> QED
  BY <1>2, <1>4, <1>5, <1>7, <1>8, <1>9, <1>70 DEF IInv

(* and the filing of one in the map.                                       *)
LEMMA SetupConnectionStep ==
    ASSUME IInv, NEW p \in Parties, SetupConnection(p)
    PROVE  /\ IInv'
           /\ \A a, b \in Parties : conns[a][b] # None => conns'[a][b] = conns[a][b]
<1> USE DEF SetupConnection
<1> DEFINE x == Head(queue[p])[1]
<1>0. queue[p] \in Seq(Parties \X Streams) /\ queue[p] # << >> /\ IdsOnce(queue[p])
  BY DEF IInv, Shapes, QueueOK
<1>1. /\ Len(Tail(queue[p])) = Len(queue[p]) - 1
      /\ \A i \in 1 .. Len(queue[p]) - 1 : Tail(queue[p])[i] = queue[p][i + 1]
      /\ Head(queue[p]) = queue[p][1]
      /\ Len(queue[p]) \in Nat \ {0}
      /\ Tail(queue[p]) \in Seq(Parties \X Streams)
  BY <1>0, HeadTailProperties, LenProperties, EmptySeq
<1>2. /\ x \in Parties /\ x # p /\ Head(queue[p])[2] = Stream(p, x)
      /\ conns[p][x] = None /\ Stream(p, x) \in Streams /\ Stream(p, x) # None
  <2>1. 1 \in 1 .. Len(queue[p]) /\ queue[p][1] \in Parties \X Streams
    BY <1>0, <1>1, ElementOfSeq
  <2>2. x \in Parties /\ x # p /\ Head(queue[p])[2] = Stream(p, x) /\ conns[p][x] = None
    BY <1>1, <2>1 DEF IInv, QueueOK
  <2> QED
    BY <2>2, PartiesFacts
<1>3. /\ Ids(Tail(queue[p])) = Ids(queue[p]) \ {x} /\ x \in Ids(queue[p])
      /\ IdsOnce(Tail(queue[p]))
  BY <1>0, IdsTail
<1>4. /\ queue' = [queue EXCEPT ![p] = Tail(@)]
      /\ conns' = [conns EXCEPT ![p][x] = Stream(p, x)]
      /\ UNCHANGED <<phase, backlog, accepted, greeting, deaf, task, tries>>
  BY <1>2
<1> HIDE DEF x, SetupConnection
<1>5. /\ queue'[p] = Tail(queue[p])
      /\ \A a \in Parties : a # p => queue'[a] = queue[a]
      /\ \A a, b \in Parties :
           conns'[a][b] = IF a = p /\ b = x THEN Stream(p, x) ELSE conns[a][b]
  BY <1>2, <1>4 DEF IInv, Shapes
<1>6. Shapes'
  <2>1. queue' \in [Parties -> Seq(Parties \X Streams)]
    BY <1>1, <1>4 DEF IInv, Shapes
  <2>2. conns' \in [Parties -> [Parties -> Streams \cup {None}]]
    BY <1>2, <1>4 DEF IInv, Shapes
  <2> QED
    BY <1>4, <2>1, <2>2 DEF IInv, Shapes
<1>7. ASSUME NEW a \in Parties, NEW b \in Parties PROVE Has(a, b)' <=> Has(a, b)
  <2>1. CASE a = p
    BY <1>2, <1>3, <1>5, <2>1 DEF Has
  <2>2. CASE a # p
    BY <1>5, <2>2 DEF Has
  <2> QED
    BY <2>1, <2>2
<1>8. \A a \in Parties : Met(a)' = Met(a)
  BY <1>7 DEF Met
<1>9. ASSUME NEW a \in Parties PROVE QueueOK(a)' /\ ConnsOK(a)'
  <2>1. ConnsOK(a)'
    BY <1>2, <1>5 DEF IInv, ConnsOK
  <2>2. CASE a = p
    <3>1. ASSUME NEW i \in 1 .. Len(queue'[p])
          PROVE  /\ queue'[p][i][1] # p
                 /\ queue'[p][i][2] = Stream(p, queue'[p][i][1])
                 /\ conns'[p][queue'[p][i][1]] = None
      <4>0. i \in 1 .. Len(queue[p]) - 1
        BY <1>1, <1>5
      <4>1. /\ i + 1 \in 1 .. Len(queue[p]) /\ i + 1 # 1 /\ 1 \in 1 .. Len(queue[p])
            /\ queue'[p][i] = queue[p][i + 1]
        BY <1>1, <1>5, <4>0
      <4>2. queue[p][i + 1][1] \in Parties
        BY <1>0, <4>1, ElementOfSeq
      <4>3. queue[p][i + 1][1] # x
        BY <1>0, <1>1, <4>1 DEF IdsOnce, x
      <4> QED
        BY <1>5, <4>1, <4>2, <4>3 DEF IInv, QueueOK
    <3>2. IdsOnce(queue[p])'
      BY <1>3, <1>5
    <3> QED
      BY <2>1, <2>2, <3>1, <3>2 DEF QueueOK
  <2>3. CASE a # p
    <3>1. queue[a] \in Seq(Parties \X Streams) /\ queue'[a] = queue[a]
      BY <1>5, <2>3 DEF IInv, Shapes
    <3>2. \A i \in 1 .. Len(queue[a]) : queue[a][i] \in Parties \X Streams
      BY <3>1, ElementOfSeq
    <3>3. \A i \in 1 .. Len(queue[a]) : conns'[a][queue[a][i][1]] = conns[a][queue[a][i][1]]
      BY <1>5, <2>3, <3>2
    <3>4. QueueOK(a)
      BY DEF IInv
    <3> QED
      BY <2>1, <3>1, <3>3, <3>4 DEF QueueOK
  <2> QED
    BY <2>1, <2>2, <2>3
<1>10. \A a \in Parties : BacklogOK(a)' /\ TasksOK(a)'
  BY <1>4 DEF IInv, BacklogOK, TasksOK
<1>11. \A c, s \in Parties : s < c => EndsOK(c, s)'
  BY <1>4, <1>7 DEF IInv, EndsOK
<1>12. \A a \in Parties : AcceptOK(a)'
  BY <1>4, <1>8 DEF IInv, AcceptOK
<1>13. \A a \in Parties : UpOK(a)' /\ DeafOK(a)'
  BY <1>4, <1>5 DEF DeafOK, Expected, IInv, UpOK, SendersGone, Accepting
<1>14. \A a, b \in Parties : conns[a][b] # None => conns'[a][b] = conns[a][b]
  BY <1>2, <1>5
<1> QED
  BY <1>6, <1>9, <1>10, <1>11, <1>12, <1>13, <1>14 DEF IInv
-----------------------------------------------------------------------------

(* Every step keeps the invariant, and no step replaces a connection.      *)
LEMMA StepPreserves ==
    ASSUME IInv, [Next]_vars
    PROVE  /\ IInv'
           /\ \A a, b \in Parties : conns[a][b] # None => conns'[a][b] = conns[a][b]
<1>1. ASSUME NEW p \in Parties, Bind(p) PROVE IInv' /\ UNCHANGED conns
  BY <1>1, BindStep DEF Bind
<1>2. ASSUME NEW p \in Parties, Return(p) PROVE IInv' /\ UNCHANGED conns
  BY <1>2, ReturnStep DEF Return
<1>21. ASSUME NEW p \in Parties, BindFails(p) PROVE IInv' /\ UNCHANGED conns
  BY <1>21, BindFailsStep DEF BindFails
<1>22. ASSUME NEW p \in Parties, AcceptFails(p) PROVE IInv' /\ UNCHANGED conns
  BY <1>22, AcceptFailsStep DEF AcceptFails, AcceptEnds
<1>23. ASSUME NEW p \in Parties, ReadEnds(p) PROVE IInv' /\ UNCHANGED conns
  BY <1>23, ReadEndsStep DEF ReadEnds, AcceptEnds
<1>24. ASSUME NEW p \in Parties, NEW q \in Lower(p), GreetFails(p, q)
       PROVE  IInv' /\ UNCHANGED conns
  BY <1>24, GreetFailsStep DEF GreetFails
<1>3. ASSUME NEW p \in Parties, Accept(p) PROVE IInv' /\ UNCHANGED conns
  BY <1>3, AcceptStep DEF Accept
<1>4. ASSUME NEW p \in Parties, ReadId(p) PROVE IInv' /\ UNCHANGED conns
  BY <1>4, ReadIdStep DEF ReadId
<1>5. ASSUME NEW p \in Parties, NEW q \in Lower(p), ConnectTask(p, q)
      PROVE  IInv' /\ UNCHANGED conns
  <2>1. CASE Connect(p, q)
    BY <2>1, ConnectStep DEF Connect
  <2>2. CASE Refused(p, q)
    BY <2>2, RefusedStep DEF Refused
  <2>3. CASE Greet(p, q)
    BY <2>3, GreetStep DEF Greet
  <2>4. CASE HandOver(p, q)
    BY <2>4, HandOverStep DEF HandOver
  <2> QED
    BY <1>5, <2>1, <2>2, <2>3, <2>4 DEF ConnectTask
<1>6. CASE UNCHANGED vars
  <2> USE <1>6 DEF vars
  <2>1. Shapes' /\ \A a, b : Has(a, b)' <=> Has(a, b)
    BY HasUnchanged DEF IInv, Shapes
  <2>2. \A a \in Parties : QueueOK(a)' /\ BacklogOK(a)' /\ ConnsOK(a)' /\ TasksOK(a)'
    BY DEF IInv, QueueOK, BacklogOK, ConnsOK, TasksOK
  <2>3. \A c, s \in Parties : s < c => EndsOK(c, s)'
    BY <2>1 DEF IInv, EndsOK
  <2>4. \A a \in Parties : AcceptOK(a)' /\ DeafOK(a)' /\ UpOK(a)'
    BY HasUnchanged DEF IInv, AcceptOK, DeafOK, Expected, UpOK, SendersGone, Accepting
  <2> QED
    BY <2>1, <2>2, <2>3, <2>4 DEF IInv
<1> QED
  BY <1>1, <1>2, <1>21, <1>22, <1>23, <1>24, <1>3, <1>4, <1>5, <1>6,
     SetupConnectionStep
  DEF Next, MainTask, AcceptTask

(* The inductive invariant holds of every reachable state.                 *)
THEOREM Invariance == Spec => []IInv
<1>1. IInv /\ [Next]_vars => IInv'
  BY StepPreserves
<1> QED
  BY InitEstablishes, <1>1, PTL DEF Spec

(* The stream that setup_connection files goes to an id that had none, for *)
(* no id comes twice: every connection is accepted once and every connect  *)
(* task hands over once.                                                   *)
THEOREM FilesOnce == Spec => NeverReplaced
<1>1. IInv /\ [Next]_vars =>
        [\A p, q \in Parties : conns[p][q] # None => conns'[p][q] = conns[p][q]]_vars
  BY StepPreserves
<1> QED
  BY Invariance, <1>1, PTL DEF Spec, NeverReplaced

(* The two ends of a pair have filed the same stream.                      *)
THEOREM PeersAreRight == Spec => []RightPeer
<1>1. IInv => RightPeer
  BY DEF IInv, ConnsOK, RightPeer, Stream
<1> QED
  BY Invariance, <1>1, PTL

(* The accept loop, which counts and looks at no id, cannot be over before *)
(* all the higher ids are there, for they connect once each: a party that  *)
(* is up lacks one only if that loop has ended in an error.                *)
THEOREM OnlyErrors == Spec => []OnlyErrorsMissing
<1>1. ASSUME IInv, NEW p \in Parties, phase[p] = "up"
      PROVE  /\ \A q \in Lower(p) : conns[p][q] = None <=> GivenUp(p, q)
             /\ (\E q \in Parties : q > p /\ conns[p][q] = None) <=> deaf[p]
             /\ deaf[p] => \/ p \in MayFail
                           \/ \E q \in MayFail : q > p /\ task[q][p] = "failed"
  <2>1. SendersGone(p) /\ queue[p] = << >>
    BY <1>1 DEF IInv, UpOK
  <2>2. \A q : Has(p, q) <=> conns[p][q] # None
    BY <2>1 DEF Has, Ids
  <2>3. ~deaf[p] => \A q \in Parties : q > p => conns[p][q] # None
    BY <1>1, <2>1, <2>2, AcceptedAll DEF SendersGone
  <2>4. deaf[p] => \E q \in Parties : q > p /\ conns[p][q] = None
    <3>1. deaf[p] => accepted[p] < Expected(p) /\ accepted[p] = Cardinality(Met(p))
      BY <1>1 DEF IInv, DeafOK, AcceptOK
    <3>2. deaf[p] => Cardinality(Met(p)) # Expected(p)
      BY <3>1, PartyOrder, NetInitAssumption DEF Expected
    <3> QED
      BY <2>2, <3>2, MetBound
  <2>5. ASSUME NEW q \in Lower(p) PROVE conns[p][q] = None <=> GivenUp(p, q)
    <3>1. Has(p, q) <=> task[p][q] = "handed"
      BY <1>1, PartyOrder DEF IInv, EndsOK
    <3>2. task[p][q] \in {"handed", "failed", "timeout"}
      BY <2>1 DEF SendersGone
    <3> QED
      BY <2>2, <3>1, <3>2 DEF GivenUp
  <2>6. deaf[p] => \/ p \in MayFail
                   \/ \E q \in MayFail : q > p /\ task[q][p] = "failed"
    BY <1>1 DEF IInv, DeafOK
  <2> QED
    BY <2>3, <2>4, <2>5, <2>6
<1>2. IInv => OnlyErrorsMissing
  BY <1>1 DEF OnlyErrorsMissing
<1> QED
  BY Invariance, <1>2, PTL

(* A party that has been given up on lacks a higher id, so that its accept *)
(* loop is not over, unless an error ended it.                             *)
THEOREM GivenUpStalls == Spec => []GivenUpStallsPeer
<1>1. ASSUME IInv, NEW p \in Parties, NEW q \in Parties, GivenUp(p, q),
             phase[q] = "up"
      PROVE  deaf[q]
  <2>1. q < p
    BY <1>1, PartyOrder DEF IInv, TasksOK, GivenUp
  <2>2. ~ Has(q, p)
    BY <1>1, <2>1 DEF IInv, EndsOK, GivenUp
  <2>3. ~ Accepting(q)
    BY <1>1 DEF IInv, UpOK, SendersGone
  <2> QED
    BY <1>1, <2>1, <2>2, <2>3, AcceptedAll
<1>2. IInv => GivenUpStallsPeer
  BY <1>1 DEF GivenUpStallsPeer
<1> QED
  BY Invariance, <1>2, PTL

(* The channel has room for all that is sent: it is created for G - 1      *)
(* connections, and every other id is sent at most once.                   *)
LEMMA QueueFits ==
    ASSUME IInv, NEW p \in Parties
    PROVE  Len(queue[p]) <= G - 1
<1> DEFINE s == queue[p]
           others == Parties \ {p}
           id == [i \in 1 .. Len(s) |-> s[i][1]]
<1>1. s \in Seq(Parties \X Streams) /\ IdsOnce(s) /\ Len(s) \in Nat
  BY LenProperties DEF IInv, Shapes, QueueOK
<1>2. IsFiniteSet(Parties) /\ Cardinality(Parties) = G
  BY NetInitAssumption, FS_Interval DEF Parties
<1>3. IsFiniteSet(others) /\ Cardinality(others) = G - 1
  BY <1>2, FS_RemoveElement
<1>4. IsFiniteSet(1 .. Len(s)) /\ Cardinality(1 .. Len(s)) = Len(s)
  <2>1. \A n \in Nat : IsFiniteSet(1 .. n) /\ Cardinality(1 .. n) = n
    BY FS_Interval
  <2> QED
    BY <1>1, <2>1
<1>5. ASSUME NEW i \in 1 .. Len(s) PROVE s[i][1] \in others
  BY <1>1, ElementOfSeq DEF IInv, QueueOK
<1>6. id \in [1 .. Len(s) -> others]
  BY <1>5
<1>7. \A i, j \in 1 .. Len(s) : id[i] = id[j] => i = j
  BY <1>1 DEF IdsOnce
<1> HIDE DEF id, others
<1>8. ~ (Cardinality(1 .. Len(s)) > Cardinality(others))
  BY <1>3, <1>4, <1>6, <1>7, FS_PigeonHole
<1> QED
  BY <1>1, <1>3, <1>4, <1>8, NetInitAssumption

(* Every variable keeps its type, for any number of parties and attempts.  *)
THEOREM TypeCorrect == Spec => []TypeOK
<1>1. ASSUME IInv PROVE TypeOK
  <2>1. \A p \in Parties : accepted[p] \in 0 .. G - 1 - p
    BY <1>1, MetBound DEF IInv, AcceptOK, Expected
  <2>2. \A p \in Parties : Len(queue[p]) <= G - 1
    BY <1>1, QueueFits
  <2> QED
    BY <1>1, <2>1, <2>2 DEF IInv, Shapes, TypeOK
<1> QED
  BY Invariance, <1>1, PTL
=============================================================================
