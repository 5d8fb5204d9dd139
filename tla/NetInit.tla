------------------------------ MODULE NetInit ------------------------------
(***************************************************************************)
(* NetIO::initialize (network/src/netio/mod.rs): how G parties that start  *)
(* at different times get one TCP connection per pair.                     *)
(*                                                                         *)
(* Every party binds its listener and then runs, all at once, an accept    *)
(* task that takes as many connections as there are higher ids, one        *)
(* connect task per lower id that retries a bounded number of times, and   *)
(* the main task, which files what the others hand it over a channel and   *)
(* returns when every sender of that channel is gone.  The tasks are       *)
(* spawned and never joined: an error ends one silently, and drops the     *)
(* sockets and the sender it holds.                                        *)
(*                                                                         *)
(* A stream is the pair <<client, server>>.  Time is not modelled: how     *)
(* many attempts fit before a listener is bound is left open.              *)
(***************************************************************************)
EXTENDS Integers, Sequences

CONSTANTS
    G,          \* the number of parties
    MaxRetries, \* attempts of connect_with_retry
    MayFail     \* the parties whose system calls may fail of themselves

ASSUME NetInitAssumption ==
    /\ G \in Nat /\ G >= 2
    /\ MaxRetries \in Nat \ {0}
    /\ MayFail \subseteq 0 .. G - 1

Parties == 0 .. G - 1
None == <<G, G>>
Streams == Parties \X Parties

VARIABLES
    phase,      \* phase[p]: "boot", "init" (the tasks run), "up" (initialize
                \*   returned Ok) or "failed" (it returned an error)
    backlog,    \* backlog[p]: clients whose connection the kernel has set up
    accepted,   \* accepted[p]: rounds of the accept loop that are over
    greeting,   \* greeting[p]: client whose id the accept task waits for, or G
    deaf,       \* deaf[p]: whether p's accept task has ended in an error
    task,       \* task[p][q]: what p's connect task to q < p is doing
    tries,      \* tries[p][q]: its failed attempts
    queue,      \* queue[p]: the mpsc channel of p, <<peer id, stream>>
    conns       \* conns[p][q]: the stream filed under id q, or None

vars == <<phase, backlog, accepted, greeting, deaf, task, tries, queue, conns>>

Lower(p) == 0 .. p - 1

TypeOK ==
    /\ phase \in [Parties -> {"boot", "init", "up", "failed"}]
    /\ deaf \in [Parties -> BOOLEAN]
    /\ \A p \in Parties :
         /\ backlog[p] \in Seq(Parties)
         /\ accepted[p] \in 0 .. G - 1 - p
         /\ greeting[p] \in Parties \cup {G}
         /\ Len(queue[p]) <= G - 1
         /\ queue[p] \in Seq(Parties \X Streams)
    /\ task \in [Parties -> [Parties -> {"idle", "try", "linked", "greeted",
                                          "handed", "failed", "timeout"}]]
    /\ tries \in [Parties -> [Parties -> 0 .. MaxRetries]]
    /\ conns \in [Parties -> [Parties -> Streams \cup {None}]]

Init ==
    /\ phase = [p \in Parties |-> "boot"]
    /\ backlog = [p \in Parties |-> << >>]
    /\ accepted = [p \in Parties |-> 0]
    /\ greeting = [p \in Parties |-> G]
    /\ deaf = [p \in Parties |-> FALSE]
    /\ task = [p \in Parties |-> [q \in Parties |-> "idle"]]
    /\ tries = [p \in Parties |-> [q \in Parties |-> 0]]
    /\ queue = [p \in Parties |-> << >>]
    /\ conns = [p \in Parties |-> [q \in Parties |-> None]]

-----------------------------------------------------------------------------

(* Mutant of Expected: one connection too few is waited for.               *)
ExpectedOneLess(p) == IF p < G - 2 THEN G - 2 - p ELSE G - 1 - p

(* Mutant of Expected: the party counts itself.                            *)
ExpectedOneMore(p) == G - p

(* The accept loop runs once for every higher id.                          *)
Expected(p) == G - 1 - p

(* The listener is there as long as the accept task.                       *)
Accepting(p) ==
    /\ phase[p] \notin {"boot", "failed"}
    /\ ~deaf[p] /\ accepted[p] < Expected(p)

(* bind, then the tasks are spawned.                                       *)
Bind(p) ==
    /\ phase[p] = "boot"
    /\ phase' = [phase EXCEPT ![p] = "init"]
    /\ task' = [task EXCEPT ![p] = [q \in Parties |->
                                      IF q \in Lower(p) THEN "try" ELSE "idle"]]
    /\ UNCHANGED <<backlog, accepted, greeting, deaf, tries, queue, conns>>

(* The address cannot be bound: initialize returns before it has tasks.    *)
BindFails(p) ==
    /\ phase[p] = "boot" /\ p \in MayFail
    /\ phase' = [phase EXCEPT ![p] = "failed"]
    /\ UNCHANGED <<backlog, accepted, greeting, deaf, task, tries, queue, conns>>

(* The kernel completes the connection as soon as the listener is bound,   *)
(* before the accept loop comes to it.                                     *)
Connect(p, q) ==
    /\ task[p][q] = "try" /\ Accepting(q)
    /\ backlog' = [backlog EXCEPT ![q] = Append(@, p)]
    /\ task' = [task EXCEPT ![p][q] = "linked"]
    /\ UNCHANGED <<phase, accepted, greeting, deaf, tries, queue, conns>>

(* Mutant of Refused: one attempt more than the limit.                     *)
RefusedOnceMore(p, q) ==
    /\ task[p][q] = "try" /\ (~Accepting(q) \/ p \in MayFail)
    /\ tries' = [tries EXCEPT ![p][q] = @ + 1]
    /\ task' = [task EXCEPT ![p][q] =
                  IF tries[p][q] = MaxRetries THEN "timeout" ELSE "try"]
    /\ UNCHANGED <<phase, backlog, accepted, greeting, deaf, queue, conns>>

(* Nobody listens, or there is no socket to be had: sleep and try again,   *)
(* and after the last attempt the task ends with an error nobody sees.     *)
Refused(p, q) ==
    /\ task[p][q] = "try" /\ (~Accepting(q) \/ p \in MayFail)
    /\ tries' = [tries EXCEPT ![p][q] = @ + 1]
    /\ task' = [task EXCEPT ![p][q] =
                  IF tries[p][q] + 1 = MaxRetries THEN "timeout" ELSE "try"]
    /\ UNCHANGED <<phase, backlog, accepted, greeting, deaf, queue, conns>>

(* The client writes its id, and then hands the stream to its main task.   *)
Greet(p, q) ==
    /\ task[p][q] = "linked"
    /\ task' = [task EXCEPT ![p][q] = "greeted"]
    /\ UNCHANGED <<phase, backlog, accepted, greeting, deaf, tries, queue, conns>>

(* The id cannot be written, in particular to a party that has dropped its *)
(* end: the task ends, and the stream with it.                             *)
GreetFails(p, q) ==
    /\ task[p][q] = "linked" /\ (p \in MayFail \/ deaf[q])
    /\ task' = [task EXCEPT ![p][q] = "failed"]
    /\ UNCHANGED <<phase, backlog, accepted, greeting, deaf, tries, queue, conns>>

(* Mutant of HandOver: filed under the client's own id.                    *)
HandOverOwnId(p, q) ==
    /\ task[p][q] = "greeted"
    /\ queue' = [queue EXCEPT ![p] = Append(@, <<p, <<p, q>>>>)]
    /\ task' = [task EXCEPT ![p][q] = "handed"]
    /\ UNCHANGED <<phase, backlog, accepted, greeting, deaf, tries, conns>>

HandOver(p, q) ==
    /\ task[p][q] = "greeted"
    /\ queue' = [queue EXCEPT ![p] = Append(@, <<q, <<p, q>>>>)]
    /\ task' = [task EXCEPT ![p][q] = "handed"]
    /\ UNCHANGED <<phase, backlog, accepted, greeting, deaf, tries, conns>>

(* The accept task takes a connection and waits for the id.                *)
Accept(p) ==
    /\ Accepting(p) /\ greeting[p] = G /\ backlog[p] # << >>
    /\ greeting' = [greeting EXCEPT ![p] = Head(backlog[p])]
    /\ backlog' = [backlog EXCEPT ![p] = Tail(@)]
    /\ UNCHANGED <<phase, accepted, deaf, task, tries, queue, conns>>

(* Mutant of ReadId: the id is not read, accept order is taken for it.     *)
ReadIdByOrder(p) ==
    /\ greeting[p] # G
    /\ queue' = [queue EXCEPT
                   ![p] = Append(@, <<p + 1 + accepted[p], <<greeting[p], p>>>>)]
    /\ accepted' = [accepted EXCEPT ![p] = @ + 1]
    /\ greeting' = [greeting EXCEPT ![p] = G]
    /\ UNCHANGED <<phase, backlog, deaf, task, tries, conns>>

ReadId(p) ==
    /\ greeting[p] # G
    /\ task[greeting[p]][p] \in {"greeted", "handed"}
    /\ queue' = [queue EXCEPT ![p] = Append(@, <<greeting[p], <<greeting[p], p>>>>)]
    /\ accepted' = [accepted EXCEPT ![p] = @ + 1]
    /\ greeting' = [greeting EXCEPT ![p] = G]
    /\ UNCHANGED <<phase, backlog, deaf, task, tries, conns>>

(* The accept task ends: its listener goes, with what waits in the backlog *)
(* and the connection whose id it waits for.                               *)
AcceptEnds(p) ==
    /\ deaf' = [deaf EXCEPT ![p] = TRUE]
    /\ greeting' = [greeting EXCEPT ![p] = G]
    /\ backlog' = [backlog EXCEPT ![p] = << >>]
    /\ UNCHANGED <<phase, accepted, task, tries, queue, conns>>

(* accept or read_u32_le returns an error.                                 *)
AcceptFails(p) == p \in MayFail /\ Accepting(p) /\ AcceptEnds(p)

(* read_u32_le comes to the end of a stream no id was written to.          *)
ReadEnds(p) ==
    /\ greeting[p] # G
    /\ task[greeting[p]][p] = "failed"
    /\ AcceptEnds(p)

(* setup_connection: insert replaces what was filed under the same id.     *)
SetupConnection(p) ==
    /\ phase[p] = "init" /\ queue[p] # << >>
    /\ conns' = [conns EXCEPT ![p][Head(queue[p])[1]] = Head(queue[p])[2]]
    /\ queue' = [queue EXCEPT ![p] = Tail(@)]
    /\ UNCHANGED <<phase, backlog, accepted, greeting, deaf, task, tries>>

(* No task holds a sender of p's channel any more.                         *)
SendersGone(p) ==
    /\ ~Accepting(p)
    /\ \A q \in Lower(p) : task[p][q] \in {"handed", "failed", "timeout"}

(* Mutant of Return: the main task does not drain the channel first.       *)
ReturnUndrained(p) ==
    /\ phase[p] = "init" /\ SendersGone(p)
    /\ phase' = [phase EXCEPT ![p] = "up"]
    /\ UNCHANGED <<backlog, accepted, greeting, deaf, task, tries, queue, conns>>

(* recv gives None: initialize returns Ok, whatever is missing.            *)
Return(p) ==
    /\ phase[p] = "init" /\ SendersGone(p) /\ queue[p] = << >>
    /\ phase' = [phase EXCEPT ![p] = "up"]
    /\ UNCHANGED <<backlog, accepted, greeting, deaf, task, tries, queue, conns>>

ConnectTask(p, q) ==
    Connect(p, q) \/ Refused(p, q) \/ Greet(p, q) \/ HandOver(p, q)

AcceptTask(p) == Accept(p) \/ ReadId(p) \/ ReadEnds(p)

MainTask(p) == Bind(p) \/ SetupConnection(p) \/ Return(p)

Next ==
    \E p \in Parties :
        \/ MainTask(p) \/ BindFails(p)
        \/ AcceptTask(p) \/ AcceptFails(p)
        \/ \E q \in Lower(p) : ConnectTask(p, q) \/ GreetFails(p, q)

Spec == Init /\ [][Next]_vars

(* Every thread starts, and the runtime polls every task that is ready.    *)
(* Nothing has to fail.                                                    *)
Fairness ==
    \A p \in Parties :
        /\ WF_vars(MainTask(p))
        /\ WF_vars(AcceptTask(p))
        /\ \A q \in Lower(p) : WF_vars(ConnectTask(p, q))

FairSpec == Spec /\ Fairness

-----------------------------------------------------------------------------

(* p's connect task to q has ended without a stream.                       *)
GivenUp(p, q) == task[p][q] \in {"failed", "timeout"}

(* What is filed under an id is the one stream between the two parties,    *)
(* so that the two ends of a pair talk to each other.                      *)
RightPeer ==
    \A p, q \in Parties :
        conns[p][q] \in {None, IF p > q THEN <<p, q>> ELSE <<q, p>>}

(* setup_connection never replaces a connection.                           *)
NeverReplaced ==
    [][\A p, q \in Parties : conns[p][q] # None => conns'[p][q] = conns[p][q]]_vars

(* What a party that is up may miss.  Of the lower ids it misses exactly   *)
(* those its own connect tasks gave up on.  Accepts are counted, not       *)
(* matched with ids, and still it misses a higher one only if its accept   *)
(* task ended in an error, for which either a system call of its own       *)
(* failed or that of a higher party, before this one wrote its id.         *)
OnlyErrorsMissing ==
    \A p \in Parties : phase[p] = "up" =>
        /\ \A q \in Lower(p) : conns[p][q] = None <=> GivenUp(p, q)
        /\ (\E q \in Parties : q > p /\ conns[p][q] = None) <=> deaf[p]
        /\ deaf[p] => \/ p \in MayFail
                      \/ \E q \in MayFail : q > p /\ task[q][p] = "failed"

(* A party somebody gave up on comes up only if its accept task ended in   *)
(* an error: otherwise the loop waits for one connection more than it will *)
(* get.                                                                    *)
GivenUpStallsPeer ==
    \A p, q \in Parties : GivenUp(p, q) /\ phase[q] = "up" => deaf[q]

(* initialize returns, but to a party whose accept loop waits for somebody *)
(* whose attempts have run out or who could not bind.                      *)
ReturnsUnlessGivenUp ==
    <>[](\A p \in Parties :
            \/ phase[p] \in {"up", "failed"}
            \/ \E q \in Parties :
                    q > p /\ (task[q][p] = "timeout" \/ phase[q] = "failed"))

(* The documentation of NetIO::new: "A `NetIO` instance or an error if     *)
(* initialization fails."  An instance has all its connections.            *)
OkMeansConnected ==
    \A p \in Parties : phase[p] = "up" =>
        \A q \in Parties \ {p} : conns[p][q] # None
=============================================================================
