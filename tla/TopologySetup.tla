--------------------------- MODULE TopologySetup ---------------------------
(***************************************************************************)
(* The constructors of network2: TcpTree::new, TcpPairWise::new and        *)
(* TcpCollect::new.  The main task binds a listener, connects to the lower *)
(* parties of its topology one after the other, and waits for the accept   *)
(* task, which takes as many connections as there are higher ones (the     *)
(* main task itself does that in TcpCollect).  A party gives up, by a      *)
(* panic, when its attempts at one peer have run out.                      *)
(*                                                                         *)
(* Time is left out: any number of attempts may fail before the peer has   *)
(* bound its listener.  An accept, or the read of an id, that fails is     *)
(* left out too: new returns its error when it awaits the accept task.     *)
(***************************************************************************)
EXTENDS Topologies, SequencesExt

CONSTANTS
    Nets,       \* Nets[t]: the number of parties of topology t
    MaxTries    \* retry_count, 100 in the code

ASSUME TopologySetupAssumption ==
    /\ DOMAIN Nets \subseteq {"tree", "pairwise", "collect"}
    /\ \A t \in DOMAIN Nets : Nets[t] \in Nat /\ Nets[t] >= 2
    /\ "tree" \in DOMAIN Nets => \E l \in 0 .. Nets["tree"] : PowerOfTwo(l) = Nets["tree"]
    /\ MaxTries \in Nat \ {0}

VARIABLES
    topo,       \* the topology that is set up
    phase,      \* phase[p]: where p's main task is
    targets,    \* targets[p]: the peers it still has to connect to
    tries,      \* tries[p]: failed attempts at the first of them
    backlog,    \* backlog[p]: connections the kernel holds for p's accept
    reading,    \* reading[p]: the connection the accept task reads the id of
    left,       \* left[p]: client_count, the connections still to accept
    files,      \* files[p]: the connections p has, in the order it got them
    conns       \* conns[p]: connections of the topology new returns

vars == <<topo, phase, targets, tries, backlog, reading, left, files, conns>>

N == Nets[topo]
Parties == 0 .. N - 1

-----------------------------------------------------------------------------

(* Mutant of Targets: in a tree, the higher ids are not left out.          *)
TargetsAll(t, n, p) ==
    CASE t = "tree"     -> [i \in 1 .. LogN(n) |-> Partner(p, i - 1)]
      [] t = "pairwise" -> [k \in 1 .. p |-> k - 1]
      [] t = "collect"  -> IF p = 0 THEN << >> ELSE <<0>>

(* The loop over the bits of p's id, after i of them: the partners below.  *)
Below(p, i) ==
    LET below[k \in 0 .. i] ==
          IF k = 0 THEN << >>
          ELSE IF Partner(p, k - 1) < p THEN Append(below[k - 1], Partner(p, k - 1))
          ELSE below[k - 1]
    IN  below[i]

(* Whom p connects to, in order.                                           *)
Targets(t, n, p) ==
    CASE t = "tree"     -> Below(p, LogN(n))
      [] t = "pairwise" -> [k \in 1 .. p |-> k - 1]
      [] t = "collect"  -> IF p = 0 THEN << >> ELSE <<0>>

(* count_ones of an id; its bits above p's own number are all zero.        *)
CountOnes(p) == Cardinality({i \in 0 .. p : (p \div PowerOfTwo(i)) % 2 = 1})

(* Mutant of Accepts: the bits of the id are not taken off.                *)
AcceptsAll(t, n, p) ==
    CASE t = "tree"     -> LogN(n)
      [] t = "pairwise" -> n - p - 1
      [] t = "collect"  -> IF p = 0 THEN n - 1 ELSE 0

(* How many connections p accepts.                                         *)
Accepts(t, n, p) ==
    CASE t = "tree"     -> LogN(n) - CountOnes(p)
      [] t = "pairwise" -> n - p - 1
      [] t = "collect"  -> IF p = 0 THEN n - 1 ELSE 0

TypeOK ==
    /\ topo \in DOMAIN Nets
    /\ phase \in [Parties -> {"start", "connect", "greet", "up", "panicked"}]
    /\ tries \in [Parties -> 0 .. MaxTries]
    /\ reading \in [Parties -> Parties \cup {-1}]
    /\ \A p \in Parties :
         /\ IsSuffix(targets[p], Targets(topo, N, p))
         /\ left[p] \in 0 .. Accepts(topo, N, p)
         /\ ToSet(files[p]) \subseteq [peer : Parties, role : {"Server", "Client"}]

Init ==
    /\ topo \in DOMAIN Nets
    /\ phase = [p \in Parties |-> "start"]
    /\ targets = [p \in Parties |-> Targets(topo, N, p)]
    /\ tries = [p \in Parties |-> 0]
    /\ backlog = [p \in Parties |-> << >>]
    /\ reading = [p \in Parties |-> -1]
    /\ left = [p \in Parties |-> Accepts(topo, N, p)]
    /\ files = [p \in Parties |-> << >>]
    /\ conns = [p \in Parties |-> << >>]

(* The process starts and binds its listener, if it has one.               *)
Bind(p) ==
    /\ phase[p] = "start"
    /\ phase' = [phase EXCEPT ![p] = "connect"]
    /\ UNCHANGED <<topo, targets, tries, backlog, reading, left, files, conns>>

(* The accept task owns the listener, and ends with its last connection.   *)
Listening(p) == phase[p] \notin {"start", "panicked"} /\ left[p] > 0

Connecting(p) == phase[p] = "connect" /\ targets[p] # << >>

(* The kernel of the peer completes the connection, whatever its accept    *)
(* task does.                                                              *)
Connect(p) ==
    /\ Connecting(p)
    /\ LET q == Head(targets[p])
       IN  /\ Listening(q)
           /\ backlog' = [backlog EXCEPT ![q] = Append(@, p)]
    /\ phase' = [phase EXCEPT ![p] = "greet"]
    /\ UNCHANGED <<topo, targets, tries, reading, left, files, conns>>

(* Mutant of Refused: one attempt too many.                                *)
RefusedLate(p) ==
    /\ Connecting(p) /\ ~Listening(Head(targets[p]))
    /\ tries' = [tries EXCEPT ![p] = @ + 1]
    /\ phase' = [phase EXCEPT
                   ![p] = IF tries[p] = MaxTries THEN "panicked" ELSE @]
    /\ UNCHANGED <<topo, targets, backlog, reading, left, files, conns>>

(* The attempt fails; the last one is a panic, which ends the process.     *)
Refused(p) ==
    /\ Connecting(p) /\ ~Listening(Head(targets[p]))
    /\ tries' = [tries EXCEPT ![p] = @ + 1]
    /\ phase' = [phase EXCEPT
                   ![p] = IF tries[p] + 1 = MaxTries THEN "panicked" ELSE @]
    /\ UNCHANGED <<topo, targets, backlog, reading, left, files, conns>>

(* The id goes out, and the connection is filed.                           *)
Greet(p) ==
    /\ phase[p] = "greet"
    /\ phase' = [phase EXCEPT ![p] = "connect"]
    /\ targets' = [targets EXCEPT ![p] = Tail(@)]
    /\ tries' = [tries EXCEPT ![p] = 0]
    /\ files' = [files EXCEPT
                   ![p] = Append(@, [peer |-> Head(targets[p]), role |-> "Client"])]
    /\ UNCHANGED <<topo, backlog, reading, left, conns>>

(* The id is written to a connection its peer has reset; new returns the   *)
(* error, and the process ends as with a panic.                            *)
GreetFails(p) ==
    /\ phase[p] = "greet" /\ phase[Head(targets[p])] = "panicked"
    /\ phase' = [phase EXCEPT ![p] = "panicked"]
    /\ UNCHANGED <<topo, targets, tries, backlog, reading, left, files, conns>>

Accept(p) ==
    /\ Listening(p) /\ reading[p] = -1 /\ backlog[p] # << >>
    /\ reading' = [reading EXCEPT ![p] = Head(backlog[p])]
    /\ backlog' = [backlog EXCEPT ![p] = Tail(@)]
    /\ UNCHANGED <<topo, phase, targets, tries, left, files, conns>>

(* read_u32 returns once the peer has written its id; nobody else is       *)
(* accepted in between.                                                    *)
ReadId(p) ==
    /\ phase[p] # "panicked" /\ reading[p] # -1
    /\ [peer |-> p, role |-> "Client"] \in ToSet(files[reading[p]])
    /\ files' = [files EXCEPT
                   ![p] = Append(@, [peer |-> reading[p], role |-> "Server"])]
    /\ reading' = [reading EXCEPT ![p] = -1]
    /\ left' = [left EXCEPT ![p] = @ - 1]
    /\ UNCHANGED <<topo, phase, targets, tries, backlog, conns>>

(* Mutant of Arranged: the connections stay in the order they came in.     *)
ArrangedAsTheyCame(p) == files[p]

(* s, with the smallest key first; key[k] is the key of s[k].              *)
SortedBy(s, key) ==
    LET order == CHOOSE o \in [DOMAIN s -> DOMAIN s] :
                    /\ IsInjective(o)
                    /\ \A j, k \in DOMAIN s : j < k => key[o[j]] <= key[o[k]]
    IN  [k \in DOMAIN s |-> s[order[k]]]

(* TcpTree files a connection by the bit in which the ids differ; the      *)
(* others sort theirs by the peer's id.                                    *)
Place(p, peer) ==
    IF topo = "tree" THEN CHOOSE i \in 0 .. LogN(N) - 1 : Partner(p, i) = peer
    ELSE peer

Arranged(p) ==
    SortedBy(files[p], [k \in DOMAIN files[p] |-> Place(p, files[p][k].peer)])

(* new returns when the main task has connected, and the accept task is    *)
(* awaited.                                                                *)
Return(p) ==
    /\ phase[p] = "connect" /\ targets[p] = << >> /\ left[p] = 0
    /\ phase' = [phase EXCEPT ![p] = "up"]
    /\ conns' = [conns EXCEPT ![p] = Arranged(p)]
    /\ UNCHANGED <<topo, targets, tries, backlog, reading, left, files>>

MainTask(p) ==
    \/ Bind(p) \/ Connect(p) \/ Refused(p)
    \/ Greet(p) \/ GreetFails(p) \/ Return(p)
AcceptTask(p) == Accept(p) \/ ReadId(p)

Next == \E p \in Parties : MainTask(p) \/ AcceptTask(p)

Spec == Init /\ [][Next]_vars

(* The tasks of a process are run by tokio; every process is started.      *)
Fairness ==
    \A p \in UNION {0 .. Nets[t] - 1 : t \in DOMAIN Nets} :
        /\ WF_vars(p \in Parties /\ MainTask(p))
        /\ WF_vars(p \in Parties /\ AcceptTask(p))

FairSpec == Spec /\ Fairness

-----------------------------------------------------------------------------

(* The peer the calls of Topologies reach over connections[k - 1].         *)
PeerOfCall(p, k) ==
    CASE topo = "tree"     -> Partner(p, k - 1)
      [] topo = "pairwise" -> ConnPeer(p, k - 1)
      [] topo = "collect"  -> IF p = 0 THEN k ELSE 0

Connections(p) ==
    CASE topo = "tree"     -> LogN(N)
      [] topo = "pairwise" -> N - 1
      [] topo = "collect"  -> IF p = 0 THEN N - 1 ELSE 1

(* A constructor that returns has all its connections, each at the place   *)
(* where the calls of the topology look for that peer, in whatever order   *)
(* they came in.                                                           *)
FullyConnected ==
    \A p \in Parties : phase[p] = "up" =>
        /\ Len(conns[p]) = Connections(p)
        /\ \A k \in 1 .. Len(conns[p]) : conns[p][k].peer = PeerOfCall(p, k)

(* Of the two ends of a connection one is the server, so that in a tree    *)
(* one keeps the lower part and the other the upper one; no pair of        *)
(* parties connects twice.                                                 *)
OppositeRoles ==
    \A p, q \in Parties :
        LET Between(a, b) == {k \in DOMAIN files[a] : files[a][k].peer = b}
            Roles(a, b) == {files[a][k].role : k \in Between(a, b)}
        IN  /\ \A k, l \in Between(p, q) : k = l
            /\ Between(p, q) # {} /\ Between(q, p) # {} =>
                   Roles(p, q) \cup Roles(q, p) = {"Client", "Server"}

(* What waits for ever waits for a connection from a party whose attempts  *)
(* have run out: without a panic, everybody comes up.                      *)
WaitsOnlyForPanicked ==
    <>[](\A p \in Parties :
            phase[p] \notin {"up", "panicked"} =>
                \E q \in Parties : phase[q] = "panicked" /\ p \in ToSet(targets[q]))
=============================================================================
