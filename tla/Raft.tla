-------------------------------- MODULE Raft --------------------------------
(***************************************************************************)
(* The Raft engine of (creme raft-scheme): modules/creme/raft-scheme/      *)
(* core.scm.  One actor per node runs raft-node-loop; its private hash     *)
(* table is the record node[n], and every helper of the source that takes  *)
(* the table is an operator from such a record to the next one, so that a  *)
(* handler reads here in the order it runs there.  raft-send! appends to   *)
(* the field out, which the enclosing action hands to the transport.       *)
(*                                                                         *)
(* The transport is one FIFO actor shared by the cluster: whatever is      *)
(* still in it or in the mailbox of n is inbox[n].                         *)
(***************************************************************************)
EXTENDS Integers, Sequences, FiniteSets, FiniteSetsExt, Functions

CONSTANTS
  Node,          \* node ids
  None,          \* #f where an id is expected
  Command,       \* commands given to raft-scheme-propose!, each used once
  Read,          \* calls of raft-scheme-read, each made once
  Change,        \* calls of add-peer!, remove-peer!, ..., each made once
  ActionOf,      \* Change |-> what the call asks for
  PeerOf,        \* Change |-> the node it asks it for
  InitPeers,     \* node |-> the `peers` it is constructed with
  InitLearners,  \* node |-> the `learners` it is constructed with
  Started,       \* the nodes that run from the beginning
  Threshold,     \* config key snapshot-threshold
  MaxTimeouts,   \* bound: election timeouts that fire
  MaxHeartbeats, \* bound: heartbeat ticks that fire
  MaxSnapshots,  \* bound: calls of raft-scheme-snapshot!
  MaxStops,      \* bound: calls of raft-scheme-stop!
  MaxCuts        \* bound: calls of raft-scheme-transport-partition!

Action == {"add-peer", "add-learner", "promote-learner", "remove-peer"}

ASSUME NodeAssumption == IsFiniteSet(Node) /\ None \notin Node
ASSUME PeersAssumption == InitPeers \in [Node -> SUBSET Node]
ASSUME LearnersAssumption == InitLearners \in [Node -> SUBSET Node]
ASSUME StartedAssumption == Started \subseteq Node
ASSUME ChangeAssumption == ActionOf \in [Change -> Action] /\ PeerOf \in [Change -> Node]
ASSUME ThresholdAssumption == Threshold \in Nat \ {0}
ASSUME BoundsAssumption ==
  {MaxTimeouts, MaxHeartbeats, MaxSnapshots, MaxStops, MaxCuts} \subseteq Nat

VARIABLES
  node,        \* node |-> the state table of its actor, durable store included
  inbox,       \* node |-> RPCs on their way to it, in delivery order
  partitions,  \* the blocklist of the transport: a set of ordered pairs
  asked,       \* the client requests made so far
  used         \* how much of each bound is used up

vars == <<node, inbox, partitions, asked, used>>

Request == Command \cup Read \cup Change

(***************************************************************************)
(* The log: tables entries and snapshots of the node's SQLite file.        *)
(* s.log is the table entries, a function from the indices present;        *)
(* s.snap is the row of snapshots.                                         *)
(***************************************************************************)
NoTerm == -1                     \* the #f of raft-log-term-at
NoSnapshot == [index |-> 0, term |-> 0, data |-> <<>>]
EmptyLog == [k \in {} |-> 0]

LogLastIndex(s) == IF DOMAIN s.log = {} THEN s.snap.index ELSE Max(DOMAIN s.log)

LogTermAt(s, k) ==
  CASE k = 0 -> 0
    [] k # 0 /\ k = s.snap.index -> s.snap.term
    [] k # 0 /\ k # s.snap.index /\ k \in DOMAIN s.log -> s.log[k].term
    [] OTHER -> NoTerm

LogLastTerm(s) ==
  IF LogLastIndex(s) = 0 THEN s.snap.term ELSE LogTermAt(s, LogLastIndex(s))

LogSlice(s, from, to) == Restrict(s.log, DOMAIN s.log \cap (from .. to))

\* raft-log-append! of every entry of es in index order: the first entry whose
\* term differs truncates the log from there on, an equal one is left alone.
LogAppendAll(log, es) ==
  LET clash == {k \in DOMAIN es \cap DOMAIN log : es[k].term # log[k].term}
      kept  == {k \in DOMAIN log : \A c \in clash : k < c}
  IN  [k \in kept \cup DOMAIN es |-> IF k \in kept THEN log[k] ELSE es[k]]

\* Fault: the first entry after the snapshot is deleted with it.
LogSaveSnapshotOneMore(s, k, term, data) ==
  [s EXCEPT !.snap = [index |-> k, term |-> IF term = NoTerm THEN 0 ELSE term,
                      data |-> data],
            !.log = Restrict(@, {j \in DOMAIN @ : j > k + 1})]

\* Fault: a snapshot empties the log, whatever is not committed included.
LogSaveSnapshotDropsTail(s, k, term, data) ==
  [s EXCEPT !.snap = [index |-> k, term |-> IF term = NoTerm THEN 0 ELSE term,
                      data |-> data],
            !.log = EmptyLog]

\* SQLite stores the #f of an unknown term as 0.
LogSaveSnapshot(s, k, term, data) ==
  [s EXCEPT !.snap = [index |-> k, term |-> IF term = NoTerm THEN 0 ELSE term,
                      data |-> data],
            !.log = Restrict(@, {j \in DOMAIN @ : j > k})]

\* Memory and the row of metadata always change together.  ballots is history:
\* every (term, candidate) this node ever put on record.
LogSaveMetadata(s, term, vote) ==
  [s EXCEPT !.currentTerm = term, !.votedFor = vote,
            !.ballots = IF vote = None THEN @ ELSE @ \cup {<<term, vote>>}]

(***************************************************************************)
(* Small helpers of the engine.                                            *)
(***************************************************************************)
Larger(a, b) == IF a > b THEN a ELSE b
Smaller(a, b) == IF a < b THEN a ELSE b

\* Fault: half of an odd number is rounded down.
HasMajorityRounded(votes, total) == votes >= total \div 2

HasMajority(votes, total) == 2 * votes > total

IsLearner(s) == s.id \in s.learners
TotalVoters(s) == 1 + Cardinality(s.peers)

Send(s, to, m) == [s EXCEPT !.out[to] = Append(@, m)]

SendToPeers(s, m) ==
  [s EXCEPT !.out = [p \in Node |-> IF p \in s.peers THEN Append(@[p], m) ELSE @[p]]]

(***************************************************************************)
(* Replication, leader side.                                               *)
(***************************************************************************)
AppendEntriesMessage(s, p) ==
  LET next == s.nextIndex[p]
  IN  IF next <= s.snap.index
      THEN [type |-> "install-snapshot", term |-> s.currentTerm, from |-> s.id,
            lastIndex |-> s.snap.index, lastTerm |-> s.snap.term, data |-> s.sm]
      ELSE [type |-> "append-entries", term |-> s.currentTerm, from |-> s.id,
            prevIndex |-> next - 1, prevTerm |-> LogTermAt(s, next - 1),
            entries |-> LogSlice(s, next, LogLastIndex(s)), commit |-> s.commitIndex]

\* (append peers learners): a node that is in both lists is sent two copies.
ReplicateToPeers(s) ==
  LET Copies(p, L) == IF p \in L THEN <<AppendEntriesMessage(s, p)>> ELSE <<>>
  IN  [s EXCEPT !.out =
         [p \in Node |-> @[p] \o Copies(p, s.peers) \o Copies(p, s.learners)]]

RecomputeCommitIndex(s) ==
  LET matches == {LogLastIndex(s)} \cup {s.matchIndex[p] : p \in s.peers}
      Count(n) == Cardinality({p \in s.peers : s.matchIndex[p] >= n})
                    + (IF LogLastIndex(s) >= n THEN 1 ELSE 0)
      eligible == {n \in matches : /\ n > s.commitIndex
                                   /\ HasMajority(Count(n), TotalVoters(s))
                                   /\ LogTermAt(s, n) = s.currentTerm}
  IN  IF eligible = {} THEN s ELSE [s EXCEPT !.commitIndex = Max(eligible)]

(***************************************************************************)
(* Applying committed entries.  The state machine is the caller's: s.sm    *)
(* stands for its state by the history of the entries applied on the way   *)
(* to it.  A config entry is in the history although it is the node, not   *)
(* the state machine, that acts on it; the query of a read is not, as it   *)
(* leaves the state as it is.                                              *)
(***************************************************************************)
Skipped == "skipped"             \* stands for an index with no entry
ASSUME SkippedAssumption == Skipped \notin Command \cup Change

Applied(s, from, to) ==
  [k \in 1 .. to - from + 1 |->
     LET e == from + k - 1 IN IF e \in DOMAIN s.log THEN s.log[e].data ELSE Skipped]

\* Committed changes of p in from..to whose action is in acts.
Changes(s, from, to, acts, p) ==
  {k \in DOMAIN s.log \cap (from .. to) :
     s.log[k].type = "config" /\ PeerOf[s.log[k].data] = p /\ ActionOf[s.log[k].data] \in acts}

ApplyConfigChanges(s, from, to) ==
  LET Seats(p)  == Changes(s, from, to, Action \ {"add-learner"}, p)
      All(p)    == Changes(s, from, to, Action, p)
      Joins(p)  == Changes(s, from, to, Action \ {"remove-peer"}, p)
      LastAct(K) == ActionOf[s.log[Max(K)].data]
  IN  [s EXCEPT
        !.peers = {p \in Node : IF Seats(p) = {} THEN p \in s.peers
                                ELSE LastAct(Seats(p)) # "remove-peer"},
        !.learners = {p \in Node : IF All(p) = {} THEN p \in s.learners
                                   ELSE LastAct(All(p)) = "add-learner"},
        !.nextIndex = [p \in Node |->
            IF s.role = "leader" /\ Joins(p) # {} /\ @[p] = 0
            THEN LogLastIndex(s) + 1 ELSE @[p]]]

\* The last index in from..to at which raft-maybe-auto-snapshot! takes a
\* snapshot, or 0: every Threshold entries since the previous one.
AutoSnapshotPoint(s, from, to) ==
  LET first == Larger(from, s.lastSnapshotIndex + Threshold)
  IN  Max({0} \cup {k \in first .. to : (k - first) % Threshold = 0})

ApplyCommitted(s) ==
  LET from == s.lastApplied + 1
      to   == s.commitIndex
      done == DOMAIN s.log \cap DOMAIN s.pending \cap (from .. to)
      p    == AutoSnapshotPoint(s, from, to)
      a    == [ApplyConfigChanges(s, from, to) EXCEPT
                !.sm = @ \o Applied(s, from, to),
                !.lastApplied = to,
                !.pending = Restrict(@, DOMAIN @ \ done),
                !.replies = [r \in Request |->
                    IF \E k \in done : s.pending[k] = r THEN Append(@[r], "ok") ELSE @[r]]]
  IN  CASE to < from -> s
        [] to >= from /\ p = 0 -> a
        [] OTHER -> [LogSaveSnapshot(a, p, LogTermAt(s, p), s.sm \o Applied(s, from, p))
                       EXCEPT !.lastSnapshotIndex = p]

DoSnapshot(s) ==
  [LogSaveSnapshot(s, s.lastApplied, LogTermAt(s, s.lastApplied), s.sm)
     EXCEPT !.lastSnapshotIndex = s.lastApplied]

(***************************************************************************)
(* Role transitions.  ticker says that the tick of the current election    *)
(* epoch is still to come: a ticker sends one tick and ends.               *)
(***************************************************************************)
FailPending(s) ==
  [s EXCEPT !.pending = EmptyLog,
            !.replies = [r \in Request |->
               IF \E k \in DOMAIN s.pending : s.pending[k] = r
               THEN Append(@[r], "not-leader-anymore") ELSE @[r]]]

\* Fault: the pending requests of a former leader are kept.
BecomeFollowerKeepsPending(s, term) ==
  LET t == IF term > s.currentTerm THEN LogSaveMetadata(s, term, None) ELSE s
  IN  [t EXCEPT !.role = "follower", !.electionEpoch = @ + 1, !.ticker = TRUE]

\* Fault: a new election epoch without a ticker for it.
BecomeFollowerNoTicker(s, term) ==
  LET t == IF term > s.currentTerm THEN LogSaveMetadata(s, term, None) ELSE s
      f == IF s.role # "follower" THEN FailPending(t) ELSE t
  IN  [f EXCEPT !.role = "follower", !.electionEpoch = @ + 1, !.ticker = FALSE]

BecomeFollower(s, term) ==
  LET t == IF term > s.currentTerm THEN LogSaveMetadata(s, term, None) ELSE s
      f == IF s.role # "follower" THEN FailPending(t) ELSE t
  IN  [f EXCEPT !.role = "follower", !.electionEpoch = @ + 1, !.ticker = TRUE]

BecomeLeader(s) ==
  LET l == [s EXCEPT
              !.role = "leader", !.leaderId = s.id,
              !.nextIndex = [p \in Node |-> IF p \in s.peers \cup s.learners
                                            THEN LogLastIndex(s) + 1 ELSE 0],
              !.matchIndex = [p \in Node |-> 0],
              !.elected = @ \cup {s.currentTerm}]
  IN  ReplicateToPeers(l)

MaybeWinElection(s) ==
  IF s.role = "candidate" /\ HasMajority(Cardinality(s.votes), TotalVoters(s))
  THEN BecomeLeader(s) ELSE s

BecomeCandidateForReal(s) ==
  LET c == [LogSaveMetadata(s, s.currentTerm + 1, s.id)
              EXCEPT !.role = "candidate", !.votes = {s.id}]
  IN  MaybeWinElection(SendToPeers(c,
        [type |-> "request-vote", term |-> c.currentTerm, from |-> s.id,
         lastIndex |-> LogLastIndex(s), lastTerm |-> LogLastTerm(s)]))

MaybeStartRealElection(s) ==
  IF s.role = "pre-candidate" /\ HasMajority(Cardinality(s.prevotes), TotalVoters(s))
  THEN BecomeCandidateForReal(s) ELSE s

StartElection(s) ==
  IF IsLearner(s) THEN s
  ELSE MaybeStartRealElection(SendToPeers(
         [s EXCEPT !.role = "pre-candidate", !.prevotes = {s.id}],
         [type |-> "pre-vote", term |-> s.currentTerm + 1, from |-> s.id,
          lastIndex |-> LogLastIndex(s), lastTerm |-> LogLastTerm(s),
          epoch |-> s.electionEpoch]))

(***************************************************************************)
(* Requests of clients: propose, read and the membership changes.          *)
(***************************************************************************)
EntryFor(s, r) ==
  CASE r \in Command -> [term |-> s.currentTerm, type |-> "normal", data |-> r]
    [] r \in Read -> [term |-> s.currentTerm, type |-> "noop", data |-> "noop"]
    [] OTHER -> [term |-> s.currentTerm, type |-> "config", data |-> r]

\* Fault: a request that has been turned down is appended all the same.
ClientAppendAnyway(s, r) ==
  LET k == LogLastIndex(s) + 1
      a == [s EXCEPT
              !.replies[r] = IF s.role = "leader" THEN @ ELSE Append(@, "not-leader"),
              !.log = LogAppendAll(@, [j \in {k} |-> EntryFor(s, r)]),
              !.pending = [j \in DOMAIN @ \cup {k} |-> IF j = k THEN r ELSE @[j]]]
  IN  ReplicateToPeers(ApplyCommitted(RecomputeCommitIndex(a)))

ClientAppend(s, r) ==
  IF s.role # "leader"
  THEN [s EXCEPT !.replies[r] = Append(@, "not-leader")]
  ELSE LET k == LogLastIndex(s) + 1
           a == [s EXCEPT
                   !.log = LogAppendAll(@, [j \in {k} |-> EntryFor(s, r)]),
                   !.pending = [j \in DOMAIN @ \cup {k} |-> IF j = k THEN r ELSE @[j]]]
       IN  ReplicateToPeers(ApplyCommitted(RecomputeCommitIndex(a)))

(***************************************************************************)
(* Message handlers.                                                       *)
(***************************************************************************)
LogUpToDate(s, m) ==
  \/ m.lastTerm > LogLastTerm(s)
  \/ m.lastTerm = LogLastTerm(s) /\ m.lastIndex >= LogLastIndex(s)

HandleRequestVote(s, m) ==
  LET u == IF m.term > s.currentTerm THEN BecomeFollower(s, m.term) ELSE s
      granted == /\ m.term >= u.currentTerm
                 /\ ~ IsLearner(u)
                 /\ u.votedFor \in {None, m.from}
                 /\ LogUpToDate(u, m)
      v == IF granted
           THEN LogSaveMetadata(BecomeFollower(u, u.currentTerm), u.currentTerm, m.from)
           ELSE u
  IN  Send(v, m.from, [type |-> "request-vote-response", term |-> v.currentTerm,
                       granted |-> granted, from |-> s.id])

HandleRequestVoteResponse(s, m) ==
  CASE m.term > s.currentTerm -> BecomeFollower(s, m.term)
    [] m.term = s.currentTerm /\ s.role = "candidate" /\ m.granted ->
         MaybeWinElection([s EXCEPT !.votes = @ \cup {m.from}])
    [] OTHER -> s

HandlePreVote(s, m) ==
  Send(s, m.from, [type |-> "pre-vote-response", term |-> s.currentTerm,
                   granted |-> /\ ~ IsLearner(s)
                               /\ m.term >= s.currentTerm
                               /\ LogUpToDate(s, m),
                   from |-> s.id, epoch |-> m.epoch])

HandlePreVoteResponse(s, m) ==
  CASE m.term > s.currentTerm -> BecomeFollower(s, m.term)
    [] /\ m.term <= s.currentTerm
       /\ s.role = "pre-candidate" /\ m.epoch = s.electionEpoch /\ m.granted ->
         MaybeStartRealElection([s EXCEPT !.prevotes = @ \cup {m.from}])
    [] OTHER -> s

\* Fault: the term of the message is not looked at.
FollowLeaderAnyTerm(s, m) == [BecomeFollower(s, m.term) EXCEPT !.leaderId = m.from]

\* What append-entries and install-snapshot do first: a message of the current
\* or a later term is obeyed, and resets the election timer.
FollowLeader(s, m) ==
  IF m.term >= s.currentTerm
  THEN [BecomeFollower(s, m.term) EXCEPT !.leaderId = m.from] ELSE s

\* Fault: an index the follower does not have is taken for a match.
PrevMatchesUnlessKnown(s, m) ==
  m.prevIndex = 0 \/ LogTermAt(s, m.prevIndex) \in {m.prevTerm, NoTerm}

PrevMatches(s, m) == m.prevIndex = 0 \/ LogTermAt(s, m.prevIndex) = m.prevTerm

\* Fault: the leader's commit index is taken over even if it is behind.
CommitUpToAny(s, k) ==
  ApplyCommitted([s EXCEPT !.commitIndex = Smaller(k, LogLastIndex(s))])

CommitUpTo(s, k) ==
  IF k > s.commitIndex
  THEN ApplyCommitted([s EXCEPT !.commitIndex = Smaller(k, LogLastIndex(s))]) ELSE s

HandleAppendEntries(s, m) ==
  LET u == FollowLeader(s, m)
      c == CommitUpTo([u EXCEPT !.log = LogAppendAll(@, m.entries)], m.commit)
      Reply(t, ok, match) ==
        Send(t, m.from, [type |-> "append-entries-response", term |-> t.currentTerm,
                         success |-> ok, match |-> match, from |-> s.id])
  IN  CASE m.term < u.currentTerm -> Reply(u, FALSE, 0)
        [] m.term >= u.currentTerm /\ ~ PrevMatches(u, m) -> Reply(u, FALSE, LogLastIndex(u))
        [] OTHER -> Reply(c, TRUE, LogLastIndex(c))

\* Progress of follower p up to index k, then the commit index.
Acknowledge(s, p, k) ==
  LET t == [s EXCEPT !.matchIndex[p] = Larger(k, @), !.nextIndex[p] = k + 1]
      c == RecomputeCommitIndex(t)
  IN  IF c.commitIndex > t.commitIndex THEN ApplyCommitted(c) ELSE t

HandleAppendEntriesResponse(s, m) ==
  LET current == s.role = "leader" /\ m.term = s.currentTerm
  IN  CASE m.term > s.currentTerm -> BecomeFollower(s, m.term)
        [] current /\ m.success -> Acknowledge(s, m.from, m.match)
        [] current /\ ~ m.success ->
             [s EXCEPT !.nextIndex[m.from] = Larger(1, @ - 1)]
        [] OTHER -> s

HandleInstallSnapshot(s, m) ==
  LET u == FollowLeader(s, m)
      i == [LogSaveSnapshot(u, m.lastIndex, m.lastTerm, m.data) EXCEPT
              !.sm = m.data,
              !.lastSnapshotIndex = m.lastIndex,
              !.commitIndex = Larger(@, m.lastIndex),
              !.lastApplied = Larger(@, m.lastIndex)]
      Reply(t, k) ==
        Send(t, m.from, [type |-> "install-snapshot-response", term |-> t.currentTerm,
                         lastIndex |-> k, from |-> s.id])
  IN  IF m.term < u.currentTerm THEN Reply(u, 0) ELSE Reply(i, m.lastIndex)

HandleInstallSnapshotResponse(s, m) ==
  CASE m.term > s.currentTerm -> BecomeFollower(s, m.term)
    [] s.role = "leader" /\ m.term = s.currentTerm -> Acknowledge(s, m.from, m.lastIndex)
    [] OTHER -> s

(***************************************************************************)
(* A node's actor: construction, and what one pass of its loop changes.    *)
(***************************************************************************)
Nothing == [p \in Node |-> <<>>]

\* raft-new-state over what the SQLite file holds.  replies, ballots and
\* elected are the clients' view and history: they outlive the actor.
NewState(n, up, term, vote, log, snap, replies, ballots, elected) ==
  [id |-> n, running |-> up, peers |-> InitPeers[n], learners |-> InitLearners[n],
   role |-> "follower", currentTerm |-> term, votedFor |-> vote, leaderId |-> None,
   commitIndex |-> snap.index, lastApplied |-> snap.index,
   lastSnapshotIndex |-> snap.index,
   nextIndex |-> [p \in Node |-> 0], matchIndex |-> [p \in Node |-> 0],
   votes |-> {}, prevotes |-> {}, electionEpoch |-> 0, ticker |-> up,
   pending |-> EmptyLog, log |-> log, snap |-> snap, sm |-> snap.data,
   out |-> Nothing, replies |-> replies, ballots |-> ballots, elected |-> elected]

Init ==
  /\ node = [n \in Node |-> NewState(n, n \in Started, 0, None, EmptyLog, NoSnapshot,
                                     [r \in Request |-> <<>>], {}, {})]
  /\ inbox = [n \in Node |-> <<>>]
  /\ partitions = {}
  /\ asked = {}
  /\ used = [timeouts |-> 0, heartbeats |-> 0, snapshots |-> 0, stops |-> 0, cuts |-> 0]

Partitioned(a, b) == <<a, b>> \in partitions \/ <<b, a>> \in partitions

\* n's table becomes s; what the handler sent goes through the transport.
Continue(n, s, rest) ==
  /\ node' = [node EXCEPT ![n] = [s EXCEPT !.out = Nothing]]
  /\ inbox' = [p \in Node |-> (IF p = n THEN rest ELSE inbox[p])
                                \o (IF Partitioned(n, p) THEN <<>> ELSE s.out[p])]

Spend(what, bound) ==
  /\ used[what] < bound
  /\ used' = [used EXCEPT ![what] = @ + 1]

Receives(n, type) ==
  node[n].running /\ inbox[n] # <<>> /\ Head(inbox[n]).type = type

Handled(n, s) ==
  /\ Continue(n, s, Tail(inbox[n]))
  /\ UNCHANGED <<partitions, asked, used>>

ReceiveRequestVote(n) ==
  /\ Receives(n, "request-vote")
  /\ Handled(n, HandleRequestVote(node[n], Head(inbox[n])))

ReceiveRequestVoteResponse(n) ==
  /\ Receives(n, "request-vote-response")
  /\ Handled(n, HandleRequestVoteResponse(node[n], Head(inbox[n])))

ReceivePreVote(n) ==
  /\ Receives(n, "pre-vote")
  /\ Handled(n, HandlePreVote(node[n], Head(inbox[n])))

ReceivePreVoteResponse(n) ==
  /\ Receives(n, "pre-vote-response")
  /\ Handled(n, HandlePreVoteResponse(node[n], Head(inbox[n])))

ReceiveAppendEntries(n) ==
  /\ Receives(n, "append-entries")
  /\ Handled(n, HandleAppendEntries(node[n], Head(inbox[n])))

ReceiveAppendEntriesResponse(n) ==
  /\ Receives(n, "append-entries-response")
  /\ Handled(n, HandleAppendEntriesResponse(node[n], Head(inbox[n])))

ReceiveInstallSnapshot(n) ==
  /\ Receives(n, "install-snapshot")
  /\ Handled(n, HandleInstallSnapshot(node[n], Head(inbox[n])))

ReceiveInstallSnapshotResponse(n) ==
  /\ Receives(n, "install-snapshot-response")
  /\ Handled(n, HandleInstallSnapshotResponse(node[n], Head(inbox[n])))

\* A tick of the current epoch arrives; a leader ignores it.
ElectionTimeout(n) ==
  /\ node[n].running /\ node[n].ticker
  /\ Spend("timeouts", MaxTimeouts)
  /\ LET s == [node[n] EXCEPT !.ticker = FALSE]
     IN  Continue(n, IF s.role = "leader" THEN s ELSE StartElection(s), inbox[n])
  /\ UNCHANGED <<partitions, asked>>

HeartbeatTick(n) ==
  /\ node[n].running /\ node[n].role = "leader"
  /\ Spend("heartbeats", MaxHeartbeats)
  /\ Continue(n, ReplicateToPeers(node[n]), inbox[n])
  /\ UNCHANGED <<partitions, asked>>

Ask(n, r) ==
  /\ node[n].running
  /\ r \notin asked /\ asked' = asked \cup {r}
  /\ Continue(n, ClientAppend(node[n], r), inbox[n])
  /\ UNCHANGED <<partitions, used>>

SnapshotNow(n) ==
  /\ node[n].running
  /\ Spend("snapshots", MaxSnapshots)
  /\ Continue(n, DoSnapshot(node[n]), inbox[n])
  /\ UNCHANGED <<partitions, asked>>

\* raft-scheme-stop!: the loop ends; its pending requests are never answered.
Stop(n) ==
  /\ node[n].running
  /\ Spend("stops", MaxStops)
  /\ node' = [node EXCEPT ![n].running = FALSE, ![n].ticker = FALSE]
  /\ UNCHANGED <<inbox, partitions, asked>>

\* Fault: the restarted node does not load its vote.
StartForgetsVote(n) ==
  /\ ~ node[n].running
  /\ LET s == node[n]
     IN  node' = [node EXCEPT ![n] =
                    NewState(n, TRUE, s.currentTerm, None, s.log, s.snap,
                             s.replies, s.ballots, s.elected)]
  /\ \E k \in 1 .. Len(inbox[n]) + 1 :
       inbox' = [inbox EXCEPT ![n] = SubSeq(@, k, Len(@))]
  /\ UNCHANGED <<partitions, asked, used>>

\* raft-scheme-start! over the same SQLite file.  The new actor gets a fresh
\* mailbox: of what was on its way, only what the transport had not forwarded
\* when the new reference was registered reaches it.
Start(n) ==
  /\ ~ node[n].running
  /\ LET s == node[n]
     IN  node' = [node EXCEPT ![n] =
                    NewState(n, TRUE, s.currentTerm, s.votedFor, s.log, s.snap,
                             s.replies, s.ballots, s.elected)]
  /\ \E k \in 1 .. Len(inbox[n]) + 1 :
       inbox' = [inbox EXCEPT ![n] = SubSeq(@, k, Len(@))]
  /\ UNCHANGED <<partitions, asked, used>>

Partition(a, b) ==
  /\ a # b
  /\ Spend("cuts", MaxCuts)
  /\ partitions' = partitions \cup {<<a, b>>}
  /\ UNCHANGED <<node, inbox, asked>>

\* Only the pair as it was given to Partition is removed.
Heal(a, b) ==
  /\ <<a, b>> \in partitions
  /\ partitions' = partitions \ {<<a, b>>}
  /\ UNCHANGED <<node, inbox, asked, used>>

ReceiveAny(n) ==
  \/ ReceiveRequestVote(n)
  \/ ReceiveRequestVoteResponse(n)
  \/ ReceivePreVote(n)
  \/ ReceivePreVoteResponse(n)
  \/ ReceiveAppendEntries(n)
  \/ ReceiveAppendEntriesResponse(n)
  \/ ReceiveInstallSnapshot(n)
  \/ ReceiveInstallSnapshotResponse(n)

Next ==
  \/ \E n \in Node : ReceiveAny(n)
  \/ \E n \in Node : ElectionTimeout(n)
  \/ \E n \in Node : HeartbeatTick(n)
  \/ \E n \in Node, r \in Request : Ask(n, r)
  \/ \E n \in Node : SnapshotNow(n)
  \/ \E n \in Node : Stop(n)
  \/ \E n \in Node : Start(n)
  \/ \E a, b \in Node : Partition(a, b)
  \/ \E a, b \in Node : Heal(a, b)

Spec == Init /\ [][Next]_vars

(***************************************************************************)
(* Properties.                                                             *)
(***************************************************************************)
Role == {"follower", "pre-candidate", "candidate", "leader"}
Index == Nat \ {0}
Data == Command \cup {"noop"} \cup Change
Ballot == Nat \X Node
Outcome == {"ok", "not-leader", "not-leader-anymore"}

Entry == [term : Nat, type : {"normal"}, data : Command]
           \cup [term : Nat, type : {"noop"}, data : {"noop"}]
           \cup [term : Nat, type : {"config"}, data : Change]

IsLog(f) ==
  /\ f = [k \in DOMAIN f |-> f[k]]
  /\ DOMAIN f \subseteq Index /\ IsFiniteSet(DOMAIN f)
  /\ \A k \in DOMAIN f : f[k] \in Entry

IsHistory(q) == q \in Seq(Data \cup {Skipped})

IsMessage(m) ==
  /\ m.term \in Nat /\ m.from \in Node
  /\ CASE m.type = "request-vote" -> m.lastIndex \in Nat /\ m.lastTerm \in Nat
       [] m.type = "request-vote-response" -> m.granted \in BOOLEAN
       [] m.type = "pre-vote" ->
            m.lastIndex \in Nat /\ m.lastTerm \in Nat /\ m.epoch \in Nat
       [] m.type = "pre-vote-response" -> m.granted \in BOOLEAN /\ m.epoch \in Nat
       [] m.type = "append-entries" ->
            /\ m.prevIndex \in Nat /\ m.prevTerm \in Nat \cup {NoTerm}
            /\ IsLog(m.entries) /\ m.commit \in Nat
       [] m.type = "append-entries-response" -> m.success \in BOOLEAN /\ m.match \in Nat
       [] m.type = "install-snapshot" ->
            m.lastIndex \in Nat /\ m.lastTerm \in Nat /\ IsHistory(m.data)
       [] m.type = "install-snapshot-response" -> m.lastIndex \in Nat
       [] OTHER -> FALSE

\* The state table of raft-new-state keeps values of the kinds its handlers
\* expect, and so does every message on its way.
TypeOK ==
  /\ \A n \in Node : LET s == node[n] IN
       /\ s.id = n /\ s.running \in BOOLEAN /\ s.ticker \in BOOLEAN
       /\ s.peers \subseteq Node /\ s.learners \subseteq Node
       /\ s.role \in Role /\ s.currentTerm \in Nat
       /\ s.votedFor \in Node \cup {None} /\ s.leaderId \in Node \cup {None}
       /\ {s.commitIndex, s.lastApplied, s.lastSnapshotIndex, s.electionEpoch} \subseteq Nat
       /\ s.nextIndex \in [Node -> Nat] /\ s.matchIndex \in [Node -> Nat]
       /\ s.votes \subseteq Node /\ s.prevotes \subseteq Node
       /\ IsLog(s.log) /\ IsHistory(s.sm)
       /\ s.snap.index \in Nat /\ s.snap.term \in Nat /\ IsHistory(s.snap.data)
       /\ DOMAIN s.pending \subseteq Index
       /\ \A k \in DOMAIN s.pending : s.pending[k] \in Request
       /\ s.replies \in [Request -> Seq(Outcome)]
       /\ s.out = Nothing
       /\ s.ballots \subseteq Ballot /\ s.elected \subseteq Nat
  /\ \A n \in Node : \A k \in 1 .. Len(inbox[n]) : IsMessage(inbox[n][k])
  /\ partitions \subseteq (Node \X Node)
  /\ asked \subseteq Request

\* A node puts at most one candidate on record per term, restarts included:
\* raft-log-save-metadata! runs before the vote is answered, and a restarted
\* node finds its vote there.
OneVotePerTerm ==
  \A n \in Node : \A b, c \in node[n].ballots : b[1] = c[1] => b[2] = c[2]

\* No two nodes ever lead in one term, however their reigns overlap: the
\* reason for counting votes against raft-has-majority?.
ElectionSafety ==
  \A m, n \in Node : node[m].elected \cap node[n].elected # {} => m = n

\* Two logs that hold an entry of one term at one index agree on everything
\* up to it that neither has compacted: what the prev-index/prev-term check
\* and the truncation of raft-log-append! are for.
LogMatching ==
  \A m, n \in Node : \A k \in DOMAIN node[m].log \cap DOMAIN node[n].log :
    node[m].log[k].term = node[n].log[k].term =>
      \A j \in DOMAIN node[m].log :
        j <= k /\ j > node[n].snap.index =>
          j \in DOMAIN node[n].log /\ node[m].log[j] = node[n].log[j]

\* A client gets at most one answer to its request: its receive! would take a
\* second one for the answer to its next request.
OneReply ==
  \A r \in Request :
    Cardinality({n \in Node : node[n].replies[r] # <<>>}) <= 1
      /\ \A n \in Node : Len(node[n].replies[r]) <= 1

\* Only a leader owes answers, and each one to the request whose own entry of
\* the current term is at that index of its log, not applied yet: so the "ok"
\* of raft-apply-one-entry! never goes to somebody else's request.
PendingIsOwn ==
  \A n \in Node : LET s == node[n] IN
    \A k \in DOMAIN s.pending : s.running =>
      /\ s.role = "leader" /\ k > s.lastApplied
      /\ k \in DOMAIN s.log /\ s.log[k] = EntryFor(s, s.pending[k])

\* raft-apply-committed! never meets an index without an entry (it would skip
\* it), and so never asks for a snapshot at an index of unknown term.
NothingSkipped ==
  \A n \in Node : \A k \in 1 .. Len(node[n].sm) : node[n].sm[k] # Skipped

\* A running voter that is a follower always has a tick to come, so it cannot
\* wait forever for a leader that is gone.
FollowerHasTicker ==
  \A n \in Node : LET s == node[n] IN
    s.running /\ s.role = "follower" /\ n \notin s.learners => s.ticker

\* Across every step, restarts included, terms only grow.  While a node runs,
\* neither its commit index nor its applied index ever moves back.
NeverBack ==
  [][\A n \in Node :
       /\ node'[n].currentTerm >= node[n].currentTerm
       /\ node[n].running /\ node'[n].running =>
            /\ node'[n].commitIndex >= node[n].commitIndex
            /\ node'[n].lastApplied >= node[n].lastApplied]_vars

\* While a node leads a term it loses no entry that it has not compacted.
LeaderAppendOnly ==
  [][\A n \in Node :
       LET s == node[n]  t == node'[n] IN
       s.role = "leader" /\ t.role = "leader" /\ s.currentTerm = t.currentTerm =>
         \A k \in DOMAIN s.log :
           k > t.snap.index => k \in DOMAIN t.log /\ t.log[k] = s.log[k]]_vars

\* A candidate or a leader falls back to follower only for a higher term or, a
\* candidate, for the leader of its own term; never by mail of its own making
\* (a node that was promoted or added, and so is a peer of itself, does).
StepDownHasCause ==
  [][\A n \in Node :
       /\ node[n].role \in {"candidate", "leader"} /\ node[n].running
       /\ node'[n].role = "follower"
       => \/ node'[n].currentTerm > node[n].currentTerm
          \/ /\ node[n].role = "candidate"
             /\ Head(inbox[n]).type \in {"append-entries", "install-snapshot"}
             /\ Head(inbox[n]).term = node[n].currentTerm]_vars

(***************************************************************************)
(* Claims of the documentation that the code does not keep.                *)
(***************************************************************************)
\* A command whose client was told "ok" is in the logs of a majority:
\* raft-scheme-propose! "commits it cluster-wide".
OkIsOnMajority ==
  \A r \in Command : \A n \in Node :
    "ok" \in Range(node[n].replies[r]) =>
      HasMajority(Cardinality({m \in Node : \E k \in DOMAIN node[m].log :
                                              node[m].log[k].data = r}), Cardinality(Node))

=============================================================================
