------------------------------ MODULE TaskNet ------------------------------
(***************************************************************************)
(* The communication benchmarks of network2 (examples/tcp_tree.rs,         *)
(* tcp_pairwise.rs, tcp_collect.rs): processes on tokio that make a list   *)
(* of calls of one topology.  A call runs tasks at the same time, one per  *)
(* direction of a connection or one per client; a call that returns Ok has *)
(* awaited all of them.  As in ShareRounds there are no headers, buffers   *)
(* of the kernel are finite, and a party may be calls ahead of another.    *)
(*                                                                         *)
(* An error ends the task it occurs in; the call notices when it comes to  *)
(* await that task, and the process ends.  Processes may also be killed.   *)
(***************************************************************************)
EXTENDS Topologies, SequencesExt

CONSTANTS
    Deployments,    \* Deployments[d]: the number of parties, and their calls
    Window,         \* segments one direction of a connection can hold
    MayFail         \* the parties that may be killed

ASSUME TaskNetAssumption ==
    /\ \A d \in DOMAIN Deployments :
         /\ Deployments[d].parties \in Nat /\ Deployments[d].parties >= 2
         /\ Deployments[d].calls \in Seq([op : {"tree", "pairwise", "sync", "collect"},
                                          size : Nat \ {0}, iters : Nat \ {0}])
         /\ Deployments[d].calls # << >>
         /\ \A r \in 1 .. Len(Deployments[d].calls) : Deployments[d].calls[r].op = "tree" =>
              \E l \in 0 .. Deployments[d].parties : PowerOfTwo(l) = Deployments[d].parties
    /\ Window \in Nat \ {0}

Size(d) == Deployments[d].parties

Members == UNION {{<<d, p>> : p \in 0 .. Size(d) - 1} : d \in DOMAIN Deployments}

LastCall(d) == Len(Deployments[d].calls)

(* There is a longest list of calls, as there is of finitely many.         *)
ASSUME RoundsAssumption ==
    \E d \in DOMAIN Deployments : \A e \in DOMAIN Deployments : LastCall(e) <= LastCall(d)

Rounds == Max({LastCall(d) : d \in DOMAIN Deployments})

VARIABLES
    net,        \* the deployment that runs
    status,     \* status[p]: "run", "done" (closed) or "failed" (process ended)
    call,       \* call[p]: the call p is in, LastCall + 1 after the last
    stage,      \* stage[p]: the stage of the call
    todo,       \* todo[p][k]: what task k of the stage has left to do
    broken,     \* broken[p]: the tasks of the stage that have ended in an error
    chan,       \* chan[p][q]: the segments on their way from p to q
    mem,        \* mem[p][j]: the chunk j of p's data buffer
    gathered    \* gathered[p][r]: whose contribution p had when call r returned

vars == <<net, status, call, stage, todo, broken, chan, mem, gathered>>

Parties == 0 .. Size(net) - 1

Plan(p, r) == Stages(Deployments[net].calls[r], Size(net), p)

Chunk(p, r, tag) ==
    [k \in 1 .. Deployments[net].calls[r].size |->
        [kind |-> "data", owner |-> p, piece |-> k, call |-> tag]]

(* The buffer a party calls with: its own chunk, and room for the others.  *)
Buffer(p, r) == [j \in Parties |-> Chunk(j, r, IF j = p THEN r ELSE 0)]

Running(p) == status[p] = "run"

Ended(p, k) == todo[p][k] = << >>

Live(p, k) == Running(p) /\ k \in DOMAIN todo[p] /\ ~Ended(p, k) /\ k \notin broken[p]

CurrentOp(p, k) == Head(todo[p][k])

(* What the operation op of party p in call r is about.                    *)
Intended(op, r) ==
    [kind |-> op.kind, owner |-> op.owner, piece |-> op.piece, call |-> r]

TypeOK ==
    /\ net \in DOMAIN Deployments
    /\ status \in [Parties -> {"run", "done", "failed"}]
    /\ call \in [Parties -> 1 .. LastCall(net) + 1]
    /\ \A p \in Parties : Running(p) =>
         /\ stage[p] \in DOMAIN Plan(p, call[p])
         /\ \A k \in DOMAIN todo[p] : IsSuffix(todo[p][k], Plan(p, call[p])[stage[p]][k])
         /\ broken[p] \subseteq DOMAIN todo[p]
    /\ \A p, q \in Parties : Len(chan[p][q]) <= Window

-----------------------------------------------------------------------------

Init ==
    /\ net \in DOMAIN Deployments
    /\ status = [p \in Parties |-> "run"]
    /\ call = [p \in Parties |-> 1]
    /\ stage = [p \in Parties |-> 1]
    /\ todo = [p \in Parties |-> Plan(p, 1)[1]]
    /\ broken = [p \in Parties |-> {}]
    /\ chan = [p \in Parties |-> [q \in Parties |-> << >>]]
    /\ mem = [p \in Parties |-> Buffer(p, 1)]
    /\ gathered = [p \in Parties |-> << >>]

(* write_all of the task hands the kernel one more segment.                *)
Write(p, k) ==
    /\ Live(p, k)
    /\ LET op == CurrentOp(p, k)
           segment == IF op.kind = "data" THEN mem[p][op.owner][op.piece]
                      ELSE Intended(op, call[p])
       IN  /\ op.dir = "send"
           /\ Len(chan[p][op.peer]) < Window
           /\ chan' = [chan EXCEPT ![p][op.peer] = Append(@, segment)]
    /\ todo' = [todo EXCEPT ![p][k] = Tail(@)]
    /\ UNCHANGED <<net, status, call, stage, broken, mem, gathered>>

(* read_exact of the task takes one more segment, whatever it is.          *)
Read(p, k) ==
    /\ Live(p, k)
    /\ LET op == CurrentOp(p, k)
       IN  /\ op.dir = "recv"
           /\ chan[op.peer][p] # << >>
           /\ chan' = [chan EXCEPT ![op.peer][p] = Tail(@)]
           /\ mem' = IF op.kind = "data"
                     THEN [mem EXCEPT ![p][op.owner][op.piece] = Head(chan[op.peer][p])]
                     ELSE mem
    /\ todo' = [todo EXCEPT ![p][k] = Tail(@)]
    /\ UNCHANGED <<net, status, call, stage, broken, gathered>>

(* The peer has closed the connection, or its process has ended.  In the   *)
(* second case TCP may have thrown away what was still under way.          *)
TaskError(p, k) ==
    /\ Live(p, k)
    /\ LET op == CurrentOp(p, k)
       IN  \/ status[op.peer] = "failed"
           \/ status[op.peer] = "done" /\ (op.dir = "recv" => chan[op.peer][p] = << >>)
    /\ broken' = [broken EXCEPT ![p] = @ \cup {k}]
    /\ UNCHANGED <<net, status, call, stage, todo, chan, mem, gathered>>

(* What p has right at the end of call r; a signal has no content, so that *)
(* who only signals counts as had.                                         *)
Gathered(p, r) ==
    LET c == Deployments[net].calls[r]
    IN  {j \in WaitsFor(c, Size(net), p) :
            j \in Gets(c, Size(net), p) => mem[p][j] = Chunk(j, r, r)}

(* Mutant of StageDone: only the first task is awaited.                    *)
StageDoneFirst(p) == Running(p) /\ Ended(p, 1)

(* All tasks of the stage have been awaited, and have returned Ok.         *)
StageDone(p) == Running(p) /\ \A k \in DOMAIN todo[p] : Ended(p, k)

NextStage(p) ==
    /\ StageDone(p)
    /\ stage[p] < Len(Plan(p, call[p]))
    /\ stage' = [stage EXCEPT ![p] = @ + 1]
    /\ todo' = [todo EXCEPT ![p] = Plan(p, call[p])[stage[p] + 1]]
    /\ broken' = [broken EXCEPT ![p] = {}]
    /\ UNCHANGED <<net, status, call, chan, mem, gathered>>

(* Mutant of Return: the next call starts at the stage the last one ended.  *)
ReturnNoReset(p) ==
    /\ StageDone(p)
    /\ stage[p] = Len(Plan(p, call[p]))
    /\ LET r == call[p] + 1
           more == r <= LastCall(net)
       IN  /\ call' = [call EXCEPT ![p] = r]
           /\ gathered' = [gathered EXCEPT ![p] = Append(@, Gathered(p, r - 1))]
           /\ todo' = [todo EXCEPT ![p] = IF more THEN Plan(p, r)[1] ELSE << >>]
           /\ mem' = [mem EXCEPT ![p] = IF more THEN Buffer(p, r) ELSE @]
           /\ status' = [status EXCEPT ![p] = IF more THEN "run" ELSE "done"]
    /\ broken' = [broken EXCEPT ![p] = {}]
    /\ UNCHANGED <<net, stage, chan>>

(* The call returns, and the next one starts; after the last one the party *)
(* closes its connections and returns.                                     *)
Return(p) ==
    /\ StageDone(p)
    /\ stage[p] = Len(Plan(p, call[p]))
    /\ LET r == call[p] + 1
           more == r <= LastCall(net)
       IN  /\ call' = [call EXCEPT ![p] = r]
           /\ gathered' = [gathered EXCEPT ![p] = Append(@, Gathered(p, r - 1))]
           /\ stage' = [stage EXCEPT ![p] = 1]
           /\ todo' = [todo EXCEPT ![p] = IF more THEN Plan(p, r)[1] ELSE << >>]
           /\ mem' = [mem EXCEPT ![p] = IF more THEN Buffer(p, r) ELSE @]
           /\ status' = [status EXCEPT ![p] = IF more THEN "run" ELSE "done"]
    /\ broken' = [broken EXCEPT ![p] = {}]
    /\ UNCHANGED <<net, chan>>

(* try_join takes the first error there is; elsewhere an error is seen     *)
(* when all tasks awaited before have ended.  The process ends with it.    *)
Awaited(p, k) ==
    \/ Deployments[net].calls[call[p]].op = "tree"
    \/ \A l \in 1 .. k - 1 : Ended(p, l)

CallError(p) ==
    /\ Running(p)
    /\ \E k \in broken[p] : Awaited(p, k)
    /\ status' = [status EXCEPT ![p] = "failed"]
    /\ UNCHANGED <<net, call, stage, todo, broken, chan, mem, gathered>>

(* The process is killed.                                                  *)
Kill(p) ==
    /\ Running(p) /\ p \in MayFail
    /\ status' = [status EXCEPT ![p] = "failed"]
    /\ UNCHANGED <<net, call, stage, todo, broken, chan, mem, gathered>>

AllStopped == \A p \in Parties : ~Running(p)

Finished == AllStopped /\ UNCHANGED vars

TaskStep(p, k) == Write(p, k) \/ Read(p, k) \/ TaskError(p, k)

PartyStep(p) ==
    \/ \E k \in DOMAIN todo[p] : TaskStep(p, k)
    \/ NextStage(p) \/ Return(p) \/ CallError(p)

Next ==
    \/ \E p \in Parties : PartyStep(p) \/ Kill(p)
    \/ Finished

Spec == Init /\ [][Next]_vars

(* tokio runs some task that can go on of every process.                   *)
Fairness ==
    \A p \in {m[2] : m \in Members} : WF_vars(p \in Parties /\ PartyStep(p))

FairSpec == Spec /\ Fairness

-----------------------------------------------------------------------------

(* What a task is about to read is what it is meant to read, of this very  *)
(* call, however far ahead the writer is: also the signals, whose value    *)
(* nobody looks at.                                                        *)
RightBytes ==
    \A p \in Parties : \A k \in DOMAIN todo[p] :
        Live(p, k) /\ CurrentOp(p, k).dir = "recv" =>
            LET op == CurrentOp(p, k)
            IN  chan[op.peer][p] # << >> =>
                    Head(chan[op.peer][p]) = Intended(op, call[p])

(* A party that closes its connections has read all there was, and nobody  *)
(* sends it more.                                                          *)
CleanClose ==
    \A p, q \in Parties : status[p] = "done" => chan[q][p] = << >>

(* tcp_collect.rs calls sync before every collect: there is one between any *)
(* two collects.                                                           *)
SyncBetween ==
    \A d \in DOMAIN Deployments : \A r, s \in 1 .. LastCall(d) :
        LET op(t) == Deployments[d].calls[t].op
        IN  r < s /\ op(r) = "collect" /\ op(s) = "collect" =>
                \E t \in r + 1 .. s - 1 : op(t) = "sync"

(* sync keeps the timed collects apart: two parties are never in different *)
(* ones.                                                                   *)
CollectsDoNotOverlap ==
    LET Collecting(p) ==
          Running(p) /\ Deployments[net].calls[call[p]].op = "collect"
    IN  \A p, q \in Parties : Collecting(p) /\ Collecting(q) => call[p] = call[q]

(* Nobody ends in an error, be it because a faster party has closed its    *)
(* connections, unless somebody was killed.                                *)
OnlyAfterKill ==
    (\A p \in Parties \cap MayFail : status[p] # "failed") =>
        \A p \in Parties : status[p] # "failed"

(* The calls implement the rounds of AllGather, for the parties of the     *)
(* deployment that runs; the others stay where they are.                   *)
InNet(m) == m[1] = net

AbstractNeeds ==
    [r \in 1 .. Rounds |-> [m \in Members |->
        IF r <= LastCall(m[1])
        THEN {<<m[1], j>> : j \in
                WaitsFor(Deployments[m[1]].calls[r], Size(m[1]), m[2])}
        ELSE {}]]

Abstract == INSTANCE AllGather WITH
    Parties <- Members,
    LastRound <- Rounds,
    Needs <- AbstractNeeds,
    at <- [m \in Members |-> IF InNet(m) THEN call[m[2]] ELSE 1],
    holds <- [m \in Members |-> [r \in 1 .. Rounds |->
                IF InNet(m) /\ r <= Len(gathered[m[2]])
                THEN {<<net, j>> : j \in gathered[m[2]][r]} ELSE {}]],
    stopped <- [m \in Members |-> InNet(m) /\ status[m[2]] = "failed"]

ImplementsAllGather == Abstract!Spec

(* Liveness: every process closes or ends in an error; with OnlyAfterKill, *)
(* all close if nobody is killed.                                          *)
NobodyHangs == <>AllStopped
=============================================================================
