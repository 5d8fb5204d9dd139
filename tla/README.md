# A TLA+ verification of Relect (new-ssle)

Relect elects a single secret leader among `G` parties. Each party is a thread
(or a process) that runs `party_operation` (`src/ssle_core/examples/ssle.rs`):
it sets up one TCP connection with every other party, makes six *share calls*
that exchange ciphertexts, computes on what it gathered, and returns its secret
degree. The program logs the sum of the degrees mod `G` as the leader, and the
party with that id finds that its own key opens the commit that is left.

These modules model the distributed part of the program, the arithmetic it
rests on and the algebra of the election. They check them with TLC on small
instances and prove what matters most with TLAPS for all values of the
constants.

## 1. The system

| Component | State | Operations | Interacts with |
|---|---|---|---|
| netio (`network/src/netio`) | listener, accept task, connect tasks, an mpsc channel, the map of connections | `initialize`, `send`, `recv`, `broadcast` | the kernel, the NetIO of every other party |
| party (`ssle_core/src/party.rs`) | a runtime and a NetIO | `share`, `share_v2`, `share_v3`, `share_to_p0`, `generate_init_acc` | netio; every error is unwrapped |
| fast_path (`ssle_core/src/fast_path.rs`) | none | `add/sub/neg_mod_u128`, `scale_round_and_mod`, conversions | the decryption |
| distributed_decryption (`protocol.rs`, `ssle.rs`, `master_secret_key.rs`) | a party's shares, masks and opened error | modulus switching, masking, opening, centring, combining | party (`share_to_p0`, `share_v2`), fast_path |
| election_algebra (`protocol.rs`, `ssle.rs`) | accumulator, selectors, encoded and decoded commits | rotate, expand, encode, aggregate, fold, decode, check | party (`share_v2`, `share_v3`), the decryption |
| compute_time_runner (`protocol.rs`) | all parties' shares in one thread | `run_compute_time_protocol` | the same helpers in another order |
| ssle_driver (`ssle.rs`) | the threads | `party_operation`, `check_result` | all of the above |
| keygen, keys | keys and samples | `generate_shares`, `generate_dd_random`, key generation | the decryption |
| parameters | none | a table | everything |
| network2 | the connections of a topology (tree, pairwise, collect), one task per direction or client | constructors, `share`, `sync`, `collect`, `close` | the kernel, tokio, the same topology of every other process |
| benchmarks (`network2/examples`) | the data buffer | a list of calls of one topology | network2 |
| tests, other benchmarks | | | |

The behaviours that are hard, each listed with its line under `hazards` in
`PROJECT.json`:

* Nothing on a connection names the call or the party that a byte belongs to.
  A fast party already sends the next call's bytes while a slow one reads this
  call's, so one byte too many or too few shifts everything after it.
* A party writes to its peers one after the other with blocking writes, at a
  place of its reading loop that depends on its id. Messages may be larger than
  the kernel's buffers. Whether everybody waits for everybody is a question
  about all parties at once.
* Any network error is unwrapped, so a party may vanish in the middle of a call;
  a party that is done closes its connections while others still read.
* Connections come up in any order, with retries that run out, from tasks
  whose results nobody looks at.
* The calls of network2 are made of tasks that run at the same time and are
  awaited in some order; their signals are single bytes nobody looks at, and an
  error is noticed when its task is awaited.
* The decryption works on shares of either sign in unsigned arithmetic of
  limited width, in three moduli, with roundings whose remainders must fit.
* The leader's commit lies in one or two chunks, possibly the last and the first
  one, where the ring changes the sign. The announced leader is computed from
  degrees alone and is never compared with anybody's check of the commit.

What makes each component correct: *party*: gathering the right data, being a
barrier, never blocking for good, closing cleanly. *netio*: the right stream
under the right id, and none missing without an error of some task. *fast_path*: arithmetic
mod m. *decryption*: all parties get the same and right coefficient, and what
party 0 sees is masked. *network2*: every byte at its place of the right call,
timed collects that do not overlap, both ends of a connection agreeing on what it
is for. *aggregation*: sums place by place. *election*: one
leader, and the announced one.

## 2. The modules

### AllGather: what the share calls promise
The abstract specification: every party goes through the same rounds; to leave a
round is one step, possible only when everybody whose data is needed has entered
it. A party may stop. No network appears in it.

### ShareRounds: the share calls over TCP
`Write`, `OwnChunk`, `Read`, `EndCall` are the steps of a party's loop over the
chunks (`party.rs`), of `broadcast`'s loop over the peers, and of `write_all` and
`read_exact` (`netio/mod.rs`). `turn` is the loop over the chunks, `dest` the
loop over the peers, `sofar` the progress of the read or write under way. A
message is a row of segments that move one by one; `Window` is how many segments
a direction of a connection holds. `Unwrap` is the panic after an error, `Panic`
a panic of the thread's own. A write to a closed peer may succeed (`Write`) or
fail (`Unwrap`), as with TCP.

TCP also resets a connection whose closed end has unread data or is written to, and
the other end then loses what it had not read yet. No action models that, and
none has to: `HalfDuplex` shows that no connection ever holds data both ways,
also when parties panic in the middle of a call, so that there is nothing such a reset
could destroy.

Left out: the content of messages (the tag on a segment is only looked at by the
properties), the flush (it does nothing for a TcpStream), and the computations
between the calls.

### NetInit: setting up the connections
One accept task and one connect task per lower id for each party, next to the
main task that files connections. `Connect` is the kernel's
handshake, which needs the listener only and not the accept loop; `Refused`
counts an attempt. A listener goes away with its accept task. Time is not
modelled: any number of attempts may fail before a party has bound its
listener, which covers every ratio between the retry interval and the delays with
which parties start.

The tasks are spawned and never joined, so that each `?` in them is a way to end
silently. `AcceptFails` is an error of `accept` or of the read of an id,
`ReadEnds` the end of a stream whose client gave up before it wrote its id: the accept task
ends (`AcceptEnds`), and with it the listener, the connections that wait in the
backlog and the task's sender. `GreetFails` is the error of a connect task that
cannot write its id, of its own or because the peer has dropped its end.
`BindFails` is the one error `initialize` returns. All parties of the program are
threads of one process and share its descriptors, so that a failure of `accept` or
`connect` for want of one is within reach. `MayFail` is the set of parties whose
system calls may fail of themselves; failures that follow from a peer's are
not limited to it.

### FastPath: arithmetic with its width
The u128 operations, with `Word` for 2^128 and the wrapping a release build
does. A `Word` of 256 lets TLC see every boundary the real width has.

### DistDecrypt: the distributed decryption
One coefficient of one slot, which the code treats independently of all others.
`LocalShare` switches the modulus and masks the error, `ShareToP0` and
`ShareValues` are the network calls, `OpenError` is party 0's work, `AddRandom`
the correction and the second mask, `Combine` aggregation and final rounding.
The two calls are single barrier steps; that they really are barriers that
deliver the right data is what ShareRounds shows. `BenchmarkResult` is the
same computation as `run_compute_time_protocol` does it.

The shares of a phase are any numbers that add up to it (this is how the
additive sharing of the secret key is used); the noise is a small set.

### ShareVectors: cutting and adding the gathered shares
The layout of the buffer `share_v2` fills, and the two ways to cut it: the
callers' of the fast path and that of the BigUint fallback.

### RingElection: the algebra
Polynomials over small rings, on plaintexts and without noise: `Contribute` (a
degree), `Encode` (rotation by all degrees, expansion into selectors, selector
times re-randomised commit), `Verify` (aggregate, decrypt, fold, decode) and
`CheckResult`. Commits are pairs `<<a, a * s>>`, re-randomised by each party for
itself; `drawn` remembers with which first halves. Noise is left out: that decryption
removes it is DistDecrypt's subject.
The external product is multiplication by a monomial, and the expansion picks
one coefficient, as the external crate's operations do on plaintexts.

The modulus of the commits splits the ring, so that the difference of two keys often has
no inverse, and a commit may open under two of them. Whether it does depends on its
first half, which is random: `Alike` says that two keys do the same to it, `TellsApart` that no two
do. What
the code owes is that the leader's commit arrives unharmed, and this is what
`ElectsOne` states: if the keys are told apart by what all parties together have drawn for
the leader's commit (`LeaderHalf`), exactly one party finds itself to be the leader. Nothing
is assumed of the keys.

`run_compute_time_protocol` draws fewer degrees than there are parties
and, with the `parallel` feature and from 256 parties on, adds up partial sums
of chunks of parties without reducing them; `BenchmarkCommit` is that computation on the
same polynomials. The sums are plain integers until `aggregate_encode_commits` reduces them.

### Election: what an election promises
The abstract specification: a leader is drawn, a commit comes out that some keys open, the
leader's among them, every party finds out by itself whether its own does, and the leader is
announced. RingElection implements it with the leader as a function
of the degrees (drawn when the last one is in), `openers` as the keys that open what is decoded
(settled when the last encoding is in), and the verdict as what a
party's own key says of the commit it has decoded.

### Topologies and TreeIds: the calls of network2
Pure operators, TreeIds for the ids of a tree as bits: for a party and a call, the *stages* that are awaited one after the
other, in each the *tasks* that run at the same time, and for each task the
reads and writes it makes, in order. TcpTree's steps are one stage each, with a
writing and a reading task (`try_join!`); TcpPairWise has a single stage, the
writing tasks first; TcpCollect's `sync` has two stages at party 0, and `collect`
one task per client.

### TaskNet: the communication benchmarks
Processes that make a list of such calls. `Write`, `Read` and `TaskError` are
steps of a task, `NextStage` and `Return` those of the caller, `CallError` the
`?` on an awaited task, `Kill` a process killed from outside. Data is read into and
written from one buffer (`mem`), as in the code, so that a tree really forwards
what it has received. The tags on segments (whose, which piece, of which call)
are looked at by the properties only. The benchmark's buffer keeps the last
call's data; the model gives it fresh tags, so that data left over from an
earlier call is seen.

### TopologySetup: the constructors
One main task and one accept task per process, `Connect` and `Refused` as in
NetInit. Other than there, an attempt too many is a panic that ends the process,
and `new` does not return without its accept task. `Below` is the tree's loop over the bits
of the party's id, which picks the lower partners. `Arranged` is the sorting, or
in a tree the filing by bits (`Place` is the key in either case), after which the calls
find a peer by position. How many connections a party of a tree accepts is
computed from the ones of its id (`CountOnes`), whom it connects to from a comparison per
bit (`Below`), as in the code. An `accept` or a read of an id that fails is left out: `new` returns
that error when it awaits the accept task.

MCShareRounds, MCNetInit, MCDistDecrypt, MCRingElection, MCTopologySetup and
MCTaskNet give values to constants. ShareRounds_proofs, NetInit_proofs,
ShareVectors_proofs, DistDecrypt_proofs (also for FastPath), RingElection_proofs,
TopologySetup_proofs and TaskNet_proofs hold the theorems about the module they are named
after; NumberTheorems holds facts about sums over a range of parties, remainders and powers of
two that the last five rest on.

## 3. The runs

| Run | Instance | Shows |
|---|---|---|
| `rounds` | 4 parties, the 6 calls of an election, 1 segment per direction | right data, barriers, clean close, refinement of AllGather, termination |
| `panic` | 4 parties, 3 calls, window 2, two parties may panic | right data and refinement in spite of panics; no connection holds data both ways; nobody hangs |
| `connect` | 3 parties, 2 attempts each, calls of parties 1 and 2 may fail | right peers, nothing replaced, which errors leave which holes, who stalls and who returns |
| `connect_doc` | the same, no call fails of itself | *violation*: an `Ok` does not mean connected |
| `decrypt` | 3 parties, q = 101, p = 4, shares at the ends and middle, noise and masks of both signs | everybody recovers the plaintext; the benchmark agrees; what party 0 opens; what is sent is masked mod q' |
| `decrypt_doc` | 2 parties, the same | *violation*: the sum is not Delta' m |
| `vectors` | 3 parties, 4 values each | sums place by place in the fast path |
| `vectors_fallback` | the same | *violation*: the fallback does not |
| `ring_two` | 2 parties, N = 16, commits of 4 | one leader, and the announced one; commits in two chunks |
| `ring_four` | 4 parties, N = 8, commits of 2 | refinement of Election with commits in one chunk; the benchmark, with 2 degrees and 2 partial sums, elects the party it returns |
| `topology_setup` | each topology with 4 parties, 2 attempts each | every peer at its place, one server and one client per connection, no pair twice; who waits for ever waits for a panicked party |
| `benches` | a tree of 4, pairwise with 3 and with 2, collect with 3 parties; 1 segment per direction; party 1 may be killed | the right bytes of the right call, clean close, collects apart, errors only after a kill, refinement of AllGather, nobody hangs |

**Why the bounds are enough.** *rounds*: the smallest buffer is the worst case
for blocking, and neighbouring calls differ in size so that bytes read in the
wrong call show up. With four parties there is a first, a last and two middle
ids, so that a party has ids on both sides. *panic*: one of the parties that may
panic is never first and never last, and window 2 lets a party be ahead of its reader
when it panics. *connect*: three parties have an accept loop of length 2,
of length 1 and none, and connect tasks likewise. Party 0 has the longest loop and no lower ids;
its own calls do not fail in the run, so that the errors it
meets are those of its clients, while party 1 has errors of both kinds. *decrypt*: the last party's mask is
computed from two others with borrows in both moduli, and shares at 0, around
q/2 and q - 1 produce every carry. q' = 104 is not q, so that modulus switching
rounds. *ring*: in `ring_two` a commit (4 places) is wider than `G` and can
start in any chunk, the last one included; all pairs of degrees are tried. Modulo 5 the ring
splits, and the keys and random values are chosen so that some commits open under
both keys and some do not. In `ring_four` the leader's first half is a zero divisor: two of the
keys open each other's commits, and the others only their own, so that the openers may be one
party or two; the degrees include N - 2 and one beyond N, and three threads
make two chunks of two parties, whose sums exceed the modulus. That the last chunk may be
shorter than the others takes eight parties and is left to the proof. *topology_setup*: in a tree of four the middle parties
connect once and accept once, and with four parties in pairs one waits for two.
*benches*: a tree of four has two levels, so that a party can be a level, or with
two calls a share, ahead of its next partner; the second level's part is longer than a
connection holds, as are the messages of the pair and of the collects, so that
writing before reading would block. Three parties are the smallest exchange with a
middle one, for whom `RecvChunk` shifts, and the smallest collect with a client that
waits for another. The collect has the benchmark's four calls, with two iterations in
the last. Longer messages and more iterations repeat the same steps.

**Assumptions of the instances.** `N > 2 * CommitLen`: with only two chunks
"follows the first" and "wraps around" cannot be told apart; the parameter sets
have four chunks or more. `RoomAssumption` of DistDecrypt: twice q' fits a word (q' has at most
111 bits, a word 128), and a sampled mask is below Delta' (`Uniform::new(0, 1 << 30)` of
`master_secret_key.rs` against a Delta' of at least 84 bits). `NoiseAssumption`: noise after
modulus switching, total mask, encoding error and half a unit of rounding per party stay
below Delta'/4 together, with half a mask to spare for the benchmark's second mask; the code
asserts nothing of the kind, but for its parameter sets masks are some 54 bits away
from Delta'/4, and a larger noise would make the decryption itself wrong.

**Deadlock** is checked everywhere but in the `connect` runs and in
`topology_setup`. There a system really may stop: a party whose peer's connect
task has given up, or whose peer has panicked, waits in `accept` for ever
(`GivenUpStallsPeer` and `WaitsOnlyForPanicked` say so). Where the program ends, a
`Finished` step stutters.

**Fairness.** ShareRounds: weak fairness of each party's thread. A thread that
can read, write or compute is run by the operating system sooner or later, and the
kernel reports a closed peer to whoever waits for it. No fairness is given to
`Panic`, which need not happen. NetInit: weak fairness of the main
task, of the accept task and of each connect task of a party. These are tasks of one tokio
runtime, a current-thread one for at most one worker thread and a multi-threaded one
otherwise (`ssle_core/src/party.rs:34`); every task waits by `.await` only, and both
schedulers poll every task that is ready. Failures (`BindFails`, `AcceptFails`, `GreetFails`) have no
fairness, except that a task does notice the end of a stream it reads from. Every party starts sooner or later; that it
does so in time for its peers' attempts is *not* assumed. TopologySetup: weak fairness
of the main task and of the accept task of every process, for the same reason and
with the same limit. TaskNet: weak fairness of each process, whose tasks are run
by tokio's scheduler; which of the tasks goes on is left open, and `Kill` has no
fairness. The other modules have safety properties only.

## 4. The proofs

`ShareRounds_proofs` is for any number of parties, any list of calls, any
message sizes and window, and whoever panics. None of `RightChunks`, `Barrier`
and `CleanClose` is inductive, because what a party will read is in a
channel or not yet written. The inductive invariant `IInv` says, of each ordered
pair of parties, which segments have been *written* and which have been *taken*, both
as functions of the loop counters of the two ends (`Written`, `Taken`); that the
channel holds the written and not yet taken segments (`ChanSound`,
`ChanComplete`) in order; that a party's buffers
hold as much as its counters say; and that counters fit each other
(`LoopOK`). The head of the channel then is exactly the segment the reader is
about to read (`HeadIsNext`), which is the heart of the argument: there are no
headers, and the two ends agree all the same. From it:

* `TypeCorrect`: `Spec => []TypeOK`;
* `Invariance`: `Spec => []IInv`;
* `ChunksAreRight`, `CallsAreBarriers`, `ClosesCleanly`: the three safety
  properties;
* `NeverBothWays`: `HalfDuplex`. If data were on its way from `p` to `q > p` and
  back, the invariant would put both parties in the same call, with `q` past
  its own turn and not yet through with `p`'s chunk, which it reads before;
* `Implementation`: the calls implement AllGather, `Spec => Abstract!Spec`.

`NetInit_proofs`: for any number of parties, any number of attempts and whoever's system calls
fail. The invariant
follows every connection from the client's task over the server's backlog and channel to
the maps of both ends (`EndsOK`): it is at one place at a time, and only if the client's
task has got a connection (`Linked`). A channel has every id once, with the right stream,
and none that is filed already (`QueueOK`). The accept loop counts connections and looks
at no id, so that the invariant has to say that what it counts is the number of higher
ids the party has met (`AcceptOK`), unless its accept task has ended in an error; and a party
that is up has nobody left who might still send (`UpOK`). An accept task only ends in an error for
a reason: a call of its own party, or a higher one that failed before it wrote its id. Then

* `TypeCorrect`: `TypeOK`;
* `PeersAreRight`: `RightPeer`, the stream filed under an id is the stream to that party;
* `FilesOnce`: `NeverReplaced`, no connection is filed over another one;
* `OnlyErrors`: `OnlyErrorsMissing`, after an `Ok` the lower ids that are missing are those whose
  connect task has given up, and a higher one is missing exactly if the accept task ended in an error;
* `GivenUpStalls`: `GivenUpStallsPeer`, and a peer somebody gave up on never comes up itself, unless
  its accept task ended in an error.

`ShareVectors_proofs`: `SumsAreRight`, the fast path's aggregation adds the shares place by
place for any number of parties and of values. The invariant is about the sums of the chunks
done so far.

`DistDecrypt_proofs` starts with FastPath: for any modulus up to half a word, `add_mod_u128` and
`sub_mod_u128` are addition and subtraction mod m; addition is commutative
and associative on residues, subtraction undoes it, and `neg_mod_u128` gives the inverse.
Above half a word the first of these is false: the sum wraps before it is compared with
the modulus. `RoundedDivIsNearest` and `ScaleRoundScales`: the rounding
division is within half a unit, and scaling from one modulus to another is a
multiplication with that error.

The decryption itself, for any number of parties, any moduli, noise, masks and split of the
phase into shares within the assumptions. The invariant is light: it says for each party what
it holds as a function of what was there at the start (its switched share, its masks, party
0's error, the result), so that every result is one and the same expression, `Coefficient`.
The rest is arithmetic. The switched shares add up to Delta' msg and an error, in which
each party's rounding counts for half a unit at most, plus a multiple of q' that the
reductions take away (`Sums`, `ErrorIsSmall`); the masks add up to the total that was
drawn, whatever the borrows (`MaskOK`); with an error `e` below Delta'/4, party 0 opens
`|e|` (`OpensError`); what is left after the correction is Delta' msg and `e - |e|`, less than
half of Delta', which the last rounding takes away (`RoundsToMsg`).

* `TypeCorrect`: `TypeOK`; `MasksModQPrime`: `MaskedModQPrime`;
* `AllAgree`: `ResultsAgree`, all parties compute the same coefficient;
* `Recovers`: `Recovered`, and it is the encrypted one, in spite of the lost sign of the error
  (section 5);
* `OpensTheError`: `OpensMaskedError`, what party 0 opens depends on the masked sum only;
* `BenchmarkIsRight`: `BenchmarkAgrees`, the order of steps of
  `run_compute_time_protocol` gives the same result.

`RingElection_proofs`: for any number of parties, ring, odd modulus, keys, degrees and
random values. The inductive invariant is short: whoever has encoded has done so after the
last degree was in, and holds an encoding of the product of all degrees; whoever has decoded
has done so after the last encoding was in, and holds the decoding of the sum of all. It is
needed because neither the product nor the sum is a variable: every party computes its
own, with its own random values, and the degrees and encodings must not change between.
What is long is the algebra, that the decoding opens under the right key. With X^N = -1 the
code handles every wrap-around by a case and a sign; the proof takes a polynomial as a
function of *all* integers that changes its sign every N places (a *wave*), of which the
code's array is one period up to congruence mod P (`Represents`). Then a rotation is a shift
(`MonomialRepresents`), whatever wraps around, and a product of waves is a convolution
(`MulRepresents`). In this form

1. `RotatedRepresents`, `SelectorRepresents`: the accumulator is the mark, shifted by the sum d
   of the degrees, and of the selectors all but that of l = d mod G are zero;
2. `EncodeHalfRepresents`, `SumRepresents`: what is aggregated is the mark times the sum of
   l's re-randomised commits;
3. `MarkProduct`, `DivVRepresents`: `1 - X^G` takes the mark's period out: the
   difference of the mark and its shift by G is 2 at every N-th place, with alternating sign,
   and (P + 1) / 2 halves it, so that the commit itself is left, once (`Spread`);
4. `SpreadChunk`, `DecodeShows`: the commit is in at most two chunks, and the two that
   `decode_commit` finds, put together with its sign rule, are the commit rotated by a
   monomial, up to a sign that is the same for both halves - also when one of
   the chunks, or both, are zero in one half or in both;
5. `TotalKeyed`, `DecodedOpens`: the sum of encryptions of zero under one key is one, and so is
   its rotation.

The theorems:

* `Invariance`; `TypeCorrect`: `TypeOK`;
* `ElectsBySum`: whatever a party has decoded opens under the key of the party with the number
  of the sum of the degrees;
* `AnnouncedLeads`: `AnnouncedIsLeader`;
* `ElectsExactlyOne`: `ElectsOne`, for all keys and random values: what is decoded is a
  rotation, up to sign, of an encryption whose first half is `LeaderHalf`. If two parties open it,
  their keys do the same to it, and so, turned back, to `LeaderHalf`;
* `Implements`: `ImplementsElection`, the refinement of Election: every step maps to a
  drawing, a revealing, a finding out, an announcement or a stutter;
* `BenchmarkElectsOne`: `BenchmarkElects`, with any number of degrees and threads: the party that is
  returned opens the commit, others only if their key cannot be told from its own. The partial
  sums need `ChunkSizeIs`: the rounded
  up divisions give every party to one chunk and no chunk without a party.

`TopologySetup_proofs`: for any of the three topologies, with any number of parties (a power
of two in the tree, which the code asserts) and any number of attempts. The invariant is
about the way of a connection:

1. The peers of a party's calls are its targets and those it accepts, once each
   (`TargetsRight`). In the tree that rests on the partners: the partner of a round is another
   party, it has the first one as its own partner of that round, and no two rounds have
   the same (`PartnerOf`, `PartnersDiffer`), all from bits as quotients by `PowerOfTwo`. The
   ones of an id are the rounds with a lower partner, so that `log_n - count_ones` counts the
   others (`OnesAreBelow`).
2. What a party's accept task has in its backlog, is reading or has filed comes from a
   party that has connected to it (`Sent`). Parties connect to lower ids only, so that the
   sender's id is higher (`SentIsHigher`). Each is in one of the three places, and
   once (`AcceptsOK`). A party's own
   clients' ends are the targets it is done with (`FilesOK`). With one end always higher
   than the other, nobody can be a client and a server of the same peer, and both
   ends cannot be the same: `OppositeRoles`.
3. The accept task counts connections and looks at no id, so that the invariant counts too:
   files and connections still to come are as many as targets done and accepted ones
   (`FilesOK`). At the return nothing is left; as many different peers as the calls have,
   all of them peers of calls, are all peers of calls (`AllCalledAreFiled`).
4. A sequence whose keys are those of an increasing sequence has only one sorted order
   (`SortedRight`), so that `Arranged` has every peer at the place of its call, whatever order
   the connections came in (`ArrangedRight`).

The theorems: `Invariance`; `TypeCorrect`: `TypeOK`; `RolesOpposite`: `OppositeRoles`;
`ReturnsConnected`: `FullyConnected`.

`TaskNet_proofs`: for any deployments (a power of two parties for calls of the tree), any row
of calls with messages of any size, any window, and whoever is killed. As in ShareRounds
nothing is inductive that does not speak of both ends at once, but here the two ends are
tasks that run at the same time, in plans that differ from party to party:

1. The *flow* from `p` to `q` in a call: `Volume` says how many segments it has and
   `Segment` what each of them is, for both ends alike. `PlanRight` shows of each operation what
   a party really runs (`Stages`): every operation of every task is the next segment of
   exactly one flow (`OpOK`), every flow has one task that takes it from the first segment to
   the last (`FlowOK`), and a party sends only what is its own or what it received
   in an earlier stage (`DataOK`). For the tree this is arithmetic with the bits of ids: the
   range of a level is `PowerOfTwo(l)` ids from a multiple of it (`StartIs`), partners have the two
   halves of the range above (`RangeHalves`), and what a range holds has come in from lower
   levels (`GotLower`). For `collect` it is division by the length of a round (`CountStep`).
2. `Before` adds up the flows of earlier calls, `Written` and `Taken` add the progress in the
   present one, on the writer's and on the reader's side. `IInv` says that a channel holds as
   many segments as are written and not taken, each the one of its place in that count
   (`ChanOK`); that what a task has left is the end of its plan (`TodoOK`); and that the buffer
   has, of this call, the party's own chunk and what its tasks have read (`MemOK`). The last is what
   makes a forwarded chunk of the tree right when it is written.
3. A reader's next operation is segment `Taken + 1` of its flow, and so is the head of the
   channel, whatever call the writer is in: `ReadsRightBytes`. A party that is done has taken
   the flows of all calls, which is all that is ever written: `ClosesClean`.

4. A task can only meet an error if its peer has failed, or has closed too early. But who has
   closed has written all its flows, so that a reader that still lacks a segment finds it
   in the channel, and has taken all that its peers write, so that nobody still writes to it
   (`ClosedPeer`). Hence nobody fails first, unless killed: `NobodyFailsAlone`, with `NoErrors`.
5. `Tags`: a chunk in a buffer or on its way carries no later call than its owner has entered.
   With `HasAll`, a party at the end of a call holds the chunks it gets with the tag
   of that very call; so their owners have entered it, also those of the tree that are
   not its neighbours. From a neighbour, having taken a segment of the call's flow is enough
   (`TakenOfEntered`). A client of `sync` learns of the other clients through party 0's start
   signal, which comes in the stage after all are ready (`StartedAfterReady`). Together:
   `Barrier` and `GathersAll`.
6. The refinement: `Return` is `Leave` (`ReturnLeaves`), an error or a kill is `Stop`
   (`FailureStops`), the other steps are stutters: `Implementation`. `Rounds` is the greatest
   of the lengths of the lists; that there is one is `RoundsAssumption`, which holds of any
   finite number of deployments.
7. `Entered` keeps the barriers of earlier calls. Two parties in different collects would have
   a `sync` between them which the later one has left, and the earlier one not
   entered (`Apart`): `SyncSeparates`, under the hypothesis `SyncBetween`, that
   the list of calls has a sync between any two collects. It is what `tcp_collect.rs:108-122`
   does and what TLC evaluates of the instance (`CollectsAfterSync`).

The theorems: `Invariance`; `TypeCorrect`: `TypeOK`; `ReadsRightBytes`: `RightBytes`;
`ClosesClean`: `CleanClose`; `NobodyFailsAlone`: `OnlyAfterKill`; `Implementation`:
`ImplementsAllGather`; `SyncSeparates`: `CollectsDoNotOverlap`.

`NumberTheorems`: what a sum over `0 .. n` is bounded by, what it is mod m, and that
sums are linear. Since a theorem of induction over a predicate cannot be used here,
`InductionUpTo` states it for a set of numbers, and is proved from the finiteness of `0 .. n`.

Apart from the hypotheses named above, the proofs assume the named ASSUMEs of the modules
only.

**Only model-checked.** Liveness (`Termination`, both `NobodyHangs`, `ReturnsUnlessGivenUp`,
`WaitsOnlyForPanicked`), which is out of TLAPS's reach under fairness, and that there is no
deadlock where nobody may stop half way, which TLC checks. Every safety
property of a passing run is stated by a theorem.

## 5. What the checks found

* `initialize` returns `Ok(())` with connections missing when a connect task has
  timed out, while `NetIO::new` promises an error (`connect_doc`). So it does when any other
  error ends one of its tasks (`OnlyErrorsMissing`).
* `center_e_shares_u128` drops the sign of the opened error, so that a negative error is
  doubled rather than removed; the last rounding hides it for errors below
  Delta'/4 (`decrypt_doc`; `decrypt` shows that the result is right).
* The BigUint fallback of the aggregation adds only the first two values of a share,
  and to them everything (`vectors_fallback`). No parameter set takes it.

A limit rather than a finding: `biguint_to_u128` selects the fast path for every modulus
that fits, while `add_mod_u128` and the two roundings need it to be at most half a word
(`Half` in DistDecrypt_proofs). All parameter sets
stay far below.

## 6. Not modelled

* **network2**: reading the list of participants, which keeps no state. What a process
  does after `share` has returned an error: its other tasks may still run, with a
  buffer that is `'static` by `transmute` only (`tcp_pair_wise.rs:180`); the models
  end there with the process.
* **Unreduced residues**: the parallel encoding leaves sums of residues that are larger than
  their cipher modulus. The model adds plaintexts unreduced; what the external crate's
  arithmetic does with such residues is not modelled.
* **parameters**: a table; what the models need of it is in ASSUMEs.
* **Key generation, encryption, RGSW products, NTT**: cryptography of external
  crates. RingElection uses what they do to plaintexts. Secrecy is not a
  subject of these modules.
* **NetIO's `par_broadcast` and `spawn_flush`**: they have no caller.
* **Benchmark drivers, tests, log analysis, thread pools, statistics**.

## 7. The plan

Done: AllGather, ShareRounds, NetInit, FastPath, DistDecrypt, ShareVectors,
RingElection, Election, Topologies, TaskNet and TopologySetup, in that order, the most
important first; the theorems of section 4.

Next, to extend the model:

1. NetInit and ShareRounds in sequence: what a missing connection does to the
   first share call.

Next, to prove:

1. That no reachable state of ShareRounds, nor of TaskNet, is a deadlock, with the guards of the
   actions spelled out as a state predicate: somebody who is not done can always write, read,
   or end a call. It is the safety half of `Termination` and `NobodyHangs`.
