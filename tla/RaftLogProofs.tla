---------------------------- MODULE RaftLogProofs ----------------------------
(***************************************************************************)
(* Steps, logs and mail of Raft.                                           *)
(*                                                                         *)
(* The first part is about one node: what a step may do to its log, to     *)
(* what it has applied, to the answers it owes and to its election timer.  *)
(* Every handler of core.scm is shown to be one of five kinds of step      *)
(* (Quiet, Follows, Obeys, Installs, Leads); the properties are then       *)
(* proved kind by kind.                                                    *)
(*                                                                         *)
(* The second part is about logs, and the mail that carries them.  Every   *)
(* handler is followed to what it sends: entries travel only in copies of  *)
(* a leader's log, and only to those it replicates to.  From there: who    *)
(* may make a node step down, why no index is skipped, and why logs match. *)
(***************************************************************************)
EXTENDS RaftElectionProofs

\* The part of a node's table that replication works on, and the part that
\* elections decide.  Sending touches neither.
Work(s) == <<s.id, s.running, s.commitIndex, s.lastApplied, s.log, s.snap, s.sm,
             s.pending, s.replies>>
Seat(s) == <<s.role, s.currentTerm, s.ticker, s.learners, s.votedFor>>
View(s) == <<Work(s), Seat(s)>>

Owes(s, r) == \E k \in DOMAIN s.pending : s.pending[k] = r

\* The answers after the requests of S got the outcome o.
Answer(s, S, o) ==
  [r \in Request |-> IF r \in S THEN Append(s.replies[r], o) ELSE s.replies[r]]

(***************************************************************************)
(* The kinds of step.                                                      *)
(***************************************************************************)

\* Elections among others, heartbeats, refusals: replication stands still.  A
\* node remains a follower only with its ticker, unless it is a learner.
Quiet(s, t) ==
  /\ Work(t) = Work(s) /\ t.learners = s.learners
  /\ t.currentTerm >= s.currentTerm
  /\ t.role = "follower" =>
       s.role = "follower" /\ (t.ticker = s.ticker \/ s.id \in s.learners)
  /\ s.role = "leader" => t.role = "leader" /\ t.currentTerm = s.currentTerm

\* raft-become-follower!: whatever a candidate or leader owed is turned down.
Follows(s, t) ==
  /\ t.id = s.id /\ t.running = s.running /\ t.learners = s.learners
  /\ t.commitIndex = s.commitIndex /\ t.lastApplied = s.lastApplied
  /\ t.log = s.log /\ t.snap = s.snap /\ t.sm = s.sm
  /\ t.role = "follower" /\ t.ticker = TRUE
  /\ t.currentTerm >= s.currentTerm
  /\ s.role = "follower" => t.pending = s.pending /\ t.replies = s.replies
  /\ s.role # "follower" =>
       /\ t.pending = EmptyLog
       /\ t.replies = Answer(s, {r \in Request : Owes(s, r)}, "not-leader-anymore")

\* Compaction up to an index that has been applied.
Compacts(s, t) ==
  \/ t.log = s.log /\ t.snap = s.snap
  \/ /\ t.snap.index > 0 /\ t.snap.index <= t.lastApplied
     /\ t.log = Restrict(s.log, {j \in DOMAIN s.log : j > t.snap.index})

\* The indices that raft-apply-committed! answers.
Done(s) == DOMAIN s.log \cap DOMAIN s.pending \cap (s.lastApplied + 1 .. s.commitIndex)

\* raft-apply-committed!: entries up to the commit index go to the state
\* machine, and those that somebody waits for are answered.
Applies(s, t) ==
  /\ t.id = s.id /\ t.running = s.running /\ t.role = s.role
  /\ t.currentTerm = s.currentTerm /\ t.ticker = s.ticker
  /\ t.commitIndex = s.commitIndex
  /\ \/ /\ s.commitIndex <= s.lastApplied
        /\ t.lastApplied = s.lastApplied /\ t.log = s.log /\ t.snap = s.snap
        /\ t.sm = s.sm /\ t.pending = s.pending /\ t.replies = s.replies
     \/ /\ s.commitIndex > s.lastApplied
        /\ t.lastApplied = s.commitIndex
        /\ t.sm = s.sm \o Applied(s, s.lastApplied + 1, s.commitIndex)
        /\ t.pending = Restrict(s.pending, DOMAIN s.pending \ Done(s))
        /\ t.replies = Answer(s, {r \in Request : \E k \in Done(s) : s.pending[k] = r}, "ok")
        /\ Compacts(s, t)

\* raft-handle-append-entries after the previous entry matched.
Obeys(s, t, es, commit) ==
  LET a == [s EXCEPT !.log = LogAppendAll(s.log, es)]
  IN  \/ commit <= s.commitIndex /\ View(t) = View(a)
      \/ /\ commit > s.commitIndex
         /\ Applies([a EXCEPT !.commitIndex = Smaller(commit, LogLastIndex(a))], t)

\* raft-handle-install-snapshot.
Installs(s, t, m) ==
  /\ t.id = s.id /\ t.running = s.running /\ t.role = s.role
  /\ t.currentTerm = s.currentTerm /\ t.ticker = s.ticker /\ t.learners = s.learners
  /\ t.commitIndex = Larger(s.commitIndex, m.lastIndex)
  /\ t.lastApplied = Larger(s.lastApplied, m.lastIndex)
  /\ t.log = Restrict(s.log, {j \in DOMAIN s.log : j > m.lastIndex})
  /\ t.snap.index = m.lastIndex /\ t.sm = m.data
  /\ t.pending = s.pending /\ t.replies = s.replies

\* The commit index moves to k, the index of an entry of the current term, and
\* what it passes is applied.
Leads(s, t) ==
  \E k \in Nat : /\ k >= s.commitIndex
                 /\ k = s.commitIndex \/ LogTermAt(s, k) = s.currentTerm
                 /\ Applies([s EXCEPT !.commitIndex = k], t)

\* What a handler does that takes no entries over.
Minor(s, t) ==
  \/ Quiet(s, t)
  \/ Follows(s, t)
  \/ s.role = "leader" /\ Leads(s, t)

Turn(s, t) ==
  \/ Minor(s, t)
  \/ \E u \in NodeState, m \in AppendEntriesMsg :
       Follows(s, u) /\ Obeys(u, t, m.entries, m.commit)
  \/ \E u \in NodeState, m \in InstallSnapshotMsg : Follows(s, u) /\ Installs(u, t, m)

(***************************************************************************)
(* The operators, kind by kind.                                            *)
(***************************************************************************)
LEMMA ViewOfOut ==
  ASSUME NEW s \in NodeState, NEW o
  PROVE  View([s EXCEPT !.out = o]) = View(s)
BY DEF NodeState, View, Work, Seat

LEMMA ViewOfSends ==
  ASSUME NEW s \in NodeState
  PROVE  /\ \A to, m : View(Send(s, to, m)) = View(s)
         /\ \A m : View(SendToPeers(s, m)) = View(s)
         /\ View(ReplicateToPeers(s)) = View(s)
         /\ View(Cleaned(s)) = View(s)
<1>1. ASSUME NEW to, NEW m PROVE View(Send(s, to, m)) = View(s)
  <2>1. Send(s, to, m) = [s EXCEPT !.out = [s.out EXCEPT ![to] = Append(@, m)]]
    BY DEF Send, NodeState
  <2> QED BY <2>1, ViewOfOut
<1>2. ASSUME NEW m PROVE View(SendToPeers(s, m)) = View(s)
  <2>1. SendToPeers(s, m) = [s EXCEPT !.out =
          [p \in Node |-> IF p \in s.peers THEN Append(s.out[p], m) ELSE s.out[p]]]
    BY DEF SendToPeers, NodeState
  <2> QED BY <2>1, ViewOfOut
<1>3. View(ReplicateToPeers(s)) = View(s)
  <2> DEFINE Copies(p, L) == IF p \in L THEN <<AppendEntriesMessage(s, p)>> ELSE <<>>
             o == [p \in Node |-> s.out[p] \o Copies(p, s.peers) \o Copies(p, s.learners)]
  <2>1. ReplicateToPeers(s) = [s EXCEPT !.out = o]
    BY DEF ReplicateToPeers, NodeState
  <2> HIDE DEF o
  <2> QED BY <2>1, ViewOfOut
<1>4. View(Cleaned(s)) = View(s)
  BY ViewOfOut DEF Cleaned
<1> QED BY <1>1, <1>2, <1>3, <1>4

\* The commit index is recomputed upwards only.
LEMMA RecomputeView ==
  ASSUME NEW s \in NodeState
  PROVE  \E k \in Nat : /\ k >= s.commitIndex
                        /\ k = s.commitIndex \/ LogTermAt(s, k) = s.currentTerm
                        /\ RecomputeCommitIndex(s) = [s EXCEPT !.commitIndex = k]
<1> DEFINE matches == {LogLastIndex(s)} \cup {s.matchIndex[p] : p \in s.peers}
           Count(n) == Cardinality({p \in s.peers : s.matchIndex[p] >= n})
                         + (IF LogLastIndex(s) >= n THEN 1 ELSE 0)
           eligible == {n \in matches : /\ n > s.commitIndex
                                        /\ HasMajority(Count(n), TotalVoters(s))
                                        /\ LogTermAt(s, n) = s.currentTerm}
<1>1. RecomputeCommitIndex(s)
        = IF eligible = {} THEN s ELSE [s EXCEPT !.commitIndex = Max(eligible)]
  BY DEF RecomputeCommitIndex
<1>2. s.commitIndex \in Nat
  BY DEF NodeState
<1>3. CASE eligible = {}
  <2>1. RecomputeCommitIndex(s) = [s EXCEPT !.commitIndex = s.commitIndex]
    BY <1>1, <1>3 DEF NodeState
  <2> QED BY <1>2, <2>1
<1>4. CASE eligible # {}
  <2> DEFINE k == Max(eligible)
  <2>1. s.peers \in SUBSET Node /\ s.matchIndex \in [Node -> Nat]
    BY DEF NodeState, Progress
  <2>2. IsFiniteSet(s.peers)
    BY <2>1, FS_Subset, NodeAssumption
  <2>3. [p \in s.peers |-> s.matchIndex[p]]
          \in Surjection(s.peers, {s.matchIndex[p] : p \in s.peers})
    BY <2>1 DEF Surjection
  <2>4. IsFiniteSet({s.matchIndex[p] : p \in s.peers})
    BY <2>2, <2>3, FS_Surjection
  <2>5. IsFiniteSet(matches)
    BY <2>4, FS_AddElement
  <2>6. matches \in SUBSET Nat
    BY <2>1, LogLastIndexType
  <2>7. eligible \in SUBSET matches
    OBVIOUS
  <2>8. \A n \in eligible : n > s.commitIndex /\ LogTermAt(s, n) = s.currentTerm
    OBVIOUS
  <2> HIDE DEF eligible, matches
  <2>9. IsFiniteSet(eligible)
    BY <2>5, <2>7, FS_Subset
  <2>13. eligible \in SUBSET Int
    BY <2>6, <2>7
  <2>10. k \in eligible
    BY <1>4, <2>9, <2>13, MaxIsMember
  <2>11. k \in Nat /\ k > s.commitIndex /\ LogTermAt(s, k) = s.currentTerm
    BY <2>6, <2>7, <2>8, <2>10
  <2>12. RecomputeCommitIndex(s) = [s EXCEPT !.commitIndex = k]
    BY <1>1, <1>4
  <2> HIDE DEF k
  <2> QED BY <1>2, <2>11, <2>12
<1> QED BY <1>3, <1>4

\* A snapshot is taken at an index that is being applied.
LEMMA AutoSnapshotPointBound ==
  ASSUME NEW s \in NodeState, NEW from \in Nat, NEW to \in Nat
  PROVE  AutoSnapshotPoint(s, from, to) \in Nat /\ AutoSnapshotPoint(s, from, to) <= to
<1> DEFINE first == Larger(from, s.lastSnapshotIndex + Threshold)
           points == {k \in first .. to : (k - first) % Threshold = 0}
<1>1. first \in Nat
  BY ThresholdAssumption DEF Larger, NodeState
<1>2. points \in SUBSET (first .. to)
  OBVIOUS
<1>3. AutoSnapshotPoint(s, from, to) = Max({0} \cup points)
  BY DEF AutoSnapshotPoint
<1> HIDE DEF first, points
<1>4. IsFiniteSet(first .. to)
  BY <1>1, FS_Interval
<1>5. IsFiniteSet(points)
  BY <1>2, <1>4, FS_Subset
<1>6. IsFiniteSet(points \cup {0})
  BY <1>5, FS_AddElement
<1>7. \A x \in points \cup {0} : x \in Nat /\ x <= to
  BY <1>1, <1>2
<1>8. points \cup {0} \in SUBSET Int
  BY <1>7
<1>9. Max(points \cup {0}) \in points \cup {0}
  BY <1>6, <1>8, MaxIsMember
<1>10. {0} \cup points = points \cup {0}
  OBVIOUS
<1> QED BY <1>3, <1>7, <1>9, <1>10

LEMMA ApplyConfigChangesView ==
  ASSUME NEW s \in NodeState, NEW from, NEW to
  PROVE  LET c == ApplyConfigChanges(s, from, to)
         IN  /\ Work(c) = Work(s) /\ c.role = s.role
             /\ c.currentTerm = s.currentTerm /\ c.ticker = s.ticker
<1> DEFINE Seats(p)  == Changes(s, from, to, Action \ {"add-learner"}, p)
           All(p)    == Changes(s, from, to, Action, p)
           Joins(p)  == Changes(s, from, to, Action \ {"remove-peer"}, p)
           LastAct(K) == ActionOf[s.log[Max(K)].data]
           ps == {p \in Node : IF Seats(p) = {} THEN p \in s.peers
                               ELSE LastAct(Seats(p)) # "remove-peer"}
           ls == {p \in Node : IF All(p) = {} THEN p \in s.learners
                               ELSE LastAct(All(p)) = "add-learner"}
           next == [p \in Node |-> IF s.role = "leader" /\ Joins(p) # {} /\ s.nextIndex[p] = 0
                                   THEN LogLastIndex(s) + 1 ELSE s.nextIndex[p]]
<1>1. ApplyConfigChanges(s, from, to)
        = [s EXCEPT !.peers = ps, !.learners = ls, !.nextIndex = next]
  BY DEF ApplyConfigChanges, NodeState
<1> HIDE DEF ps, ls, next
<1> QED BY <1>1 DEF NodeState, Work

LEMMA ApplyCommittedView ==
  ASSUME NEW s \in NodeState
  PROVE  ApplyCommitted(s) \in NodeState /\ Applies(s, ApplyCommitted(s))
<1> DEFINE from == s.lastApplied + 1
           to   == s.commitIndex
           done == DOMAIN s.log \cap DOMAIN s.pending \cap (from .. to)
           p    == AutoSnapshotPoint(s, from, to)
           c    == ApplyConfigChanges(s, from, to)
           sm   == s.sm \o Applied(s, from, to)
           pend == Restrict(s.pending, DOMAIN s.pending \ done)
           reps == [r \in Request |->
                      IF \E k \in done : s.pending[k] = r
                      THEN Append(s.replies[r], "ok") ELSE s.replies[r]]
           a    == [c EXCEPT !.sm = sm, !.lastApplied = to,
                             !.pending = pend, !.replies = reps]
           b    == LogSaveSnapshot(a, p, LogTermAt(s, p), s.sm \o Applied(s, from, p))
           z    == [b EXCEPT !.lastSnapshotIndex = p]
<1>1. from \in Nat /\ to \in Nat /\ s.lastApplied \in Nat
  BY DEF NodeState
<1>2. p \in Nat /\ p <= to
  BY <1>1, AutoSnapshotPointBound
<1>3. /\ c \in NodeState /\ Work(c) = Work(s) /\ c.role = s.role
      /\ c.currentTerm = s.currentTerm /\ c.ticker = s.ticker
  BY ApplyConfigChangesType, ApplyConfigChangesView
<1>4. ApplyCommitted(s) = CASE to < from -> s
                            [] to >= from /\ p = 0 -> a
                            [] OTHER -> z
  <2>1. c.sm = s.sm /\ c.pending = s.pending /\ c.replies = s.replies
    BY ApplyConfigChangesType
  <2>2. a = [c EXCEPT !.sm = @ \o Applied(s, from, to), !.lastApplied = to,
                      !.pending = Restrict(@, DOMAIN @ \ done),
                      !.replies = [r \in Request |->
                         IF \E k \in done : s.pending[k] = r THEN Append(@[r], "ok") ELSE @[r]]]
    BY <1>3, <2>1 DEF NodeState
  <2> QED BY <2>2 DEF ApplyCommitted
<1>5. reps = Answer(s, {r \in Request : \E k \in Done(s) : s.pending[k] = r}, "ok")
  BY DEF Answer, Done
<1>6. pend = Restrict(s.pending, DOMAIN s.pending \ Done(s))
  BY DEF Done
<1> HIDE DEF c, sm, pend, reps, p, done
<1>7. /\ a.id = s.id /\ a.running = s.running /\ a.role = s.role
      /\ a.currentTerm = s.currentTerm /\ a.ticker = s.ticker
      /\ a.commitIndex = s.commitIndex /\ a.lastApplied = to
      /\ a.sm = sm /\ a.pending = pend /\ a.replies = reps
      /\ a.log = s.log /\ a.snap = s.snap
  BY <1>3 DEF NodeState, Work
<1>8. a = [c EXCEPT !.sm = sm, !.lastApplied = to, !.pending = pend, !.replies = reps]
  OBVIOUS
<1>9. DOMAIN a = DOMAIN c
  OBVIOUS
<1>10. /\ z.id = a.id /\ z.running = a.running /\ z.role = a.role
       /\ z.currentTerm = a.currentTerm /\ z.ticker = a.ticker
       /\ z.commitIndex = a.commitIndex /\ z.lastApplied = a.lastApplied
       /\ z.sm = a.sm /\ z.pending = a.pending /\ z.replies = a.replies
       /\ z.snap.index = p /\ z.log = Restrict(a.log, {j \in DOMAIN a.log : j > p})
  <2>1. DOMAIN a = {"id", "running", "peers", "learners", "role", "currentTerm", "votedFor",
          "leaderId", "commitIndex", "lastApplied", "lastSnapshotIndex", "nextIndex",
          "matchIndex", "votes", "prevotes", "electionEpoch", "ticker", "pending", "log",
          "snap", "sm", "out", "replies", "ballots", "elected"}
    BY <1>3, <1>9 DEF NodeState
  <2> HIDE DEF a
  <2> QED BY <2>1 DEF LogSaveSnapshot
<1>11. CASE to < from
  <2> HIDE DEF a, z
  <2>1. ApplyCommitted(s) = s
    BY <1>1, <1>4, <1>11
  <2>2. s.commitIndex <= s.lastApplied
    BY <1>1, <1>11
  <2> QED BY <2>1, <2>2 DEF Applies
<1>12. CASE to >= from
  <2>2. s.commitIndex > s.lastApplied
    BY <1>1, <1>12
  <2> HIDE DEF a, z
  <2>5. ~(to < from)
    BY <1>1, <1>12
  <2>6. p = 0 => ApplyCommitted(s) = a
    BY <1>4, <1>12, <2>5
  <2>7. p # 0 => ApplyCommitted(s) = z
    BY <1>4, <1>12, <2>5
  <2>8. p # 0 => p > 0
    BY <1>2
  <2>3. Applies(s, a)
    BY <1>5, <1>6, <1>7, <2>2 DEF Applies, Compacts, sm
  <2>4. p # 0 => Applies(s, z)
    BY <1>2, <1>5, <1>6, <1>7, <1>10, <2>2, <2>8 DEF Applies, Compacts, sm
  <2> QED BY <2>3, <2>4, <2>6, <2>7, ApplyCommittedType
<1> QED BY <1>1, <1>11, <1>12, ApplyCommittedType

LEMMA FailPendingView ==
  ASSUME NEW s \in NodeState
  PROVE  LET f == FailPending(s)
         IN  /\ f.id = s.id /\ f.running = s.running /\ f.learners = s.learners
             /\ f.commitIndex = s.commitIndex /\ f.lastApplied = s.lastApplied
             /\ f.log = s.log /\ f.snap = s.snap /\ f.sm = s.sm
             /\ f.currentTerm = s.currentTerm /\ f.pending = EmptyLog
             /\ f.replies = Answer(s, {r \in Request : Owes(s, r)}, "not-leader-anymore")
<1> DEFINE reps == [r \in Request |->
                      IF \E k \in DOMAIN s.pending : s.pending[k] = r
                      THEN Append(s.replies[r], "not-leader-anymore") ELSE s.replies[r]]
<1>1. FailPending(s) = [s EXCEPT !.pending = EmptyLog, !.replies = reps]
  BY DEF FailPending, NodeState
<1>2. reps = Answer(s, {r \in Request : Owes(s, r)}, "not-leader-anymore")
  BY DEF Answer, Owes
<1> HIDE DEF reps
<1> QED BY <1>1, <1>2 DEF NodeState

LEMMA BecomeFollowerView ==
  ASSUME NEW s \in NodeState, NEW t \in Nat
  PROVE  BecomeFollower(s, t) \in NodeState /\ Follows(s, BecomeFollower(s, t))
<1> DEFINE x == IF t > s.currentTerm THEN LogSaveMetadata(s, t, None) ELSE s
           y == IF s.role # "follower" THEN FailPending(x) ELSE x
           f == BecomeFollower(s, t)
<1>1. None \in NodeOrNone /\ s.currentTerm \in Nat
  BY DEF NodeOrNone, NodeState
<1>2. LogSaveMetadata(s, t, None) \in NodeState
  BY <1>1, LogSaveMetadataType
<1>3. LET u == LogSaveMetadata(s, t, None)
      IN  /\ Work(u) = Work(s) /\ u.learners = s.learners /\ u.currentTerm = t
  <2>1. LogSaveMetadata(s, t, None) = [s EXCEPT !.currentTerm = t, !.votedFor = None,
                                               !.ballots = s.ballots]
    BY DEF LogSaveMetadata, NodeState
  <2> QED BY <2>1 DEF NodeState, Work
<1>4. /\ x \in NodeState /\ Work(x) = Work(s) /\ x.learners = s.learners
      /\ x.currentTerm >= s.currentTerm
  <2>1. CASE t > s.currentTerm
    <3>1. x = LogSaveMetadata(s, t, None)
      BY <2>1
    <3> HIDE DEF x
    <3> QED BY <1>1, <1>2, <1>3, <2>1, <3>1
  <2>2. CASE ~ (t > s.currentTerm)
    BY <1>1, <2>2
  <2> QED BY <2>1, <2>2
<1>5. f = [y EXCEPT !.role = "follower", !.electionEpoch = @ + 1, !.ticker = TRUE]
  BY DEF BecomeFollower
<1>6. f \in NodeState
  BY BecomeFollowerType
<1> HIDE DEF x
<1>7. y \in NodeState
  BY <1>4, FailPendingType
<1>8. x.pending = s.pending /\ x.replies = s.replies
  BY <1>4 DEF Work
<1>9. \A r \in Request : Owes(x, r) <=> Owes(s, r)
  BY <1>8 DEF Owes
<1>10. Answer(x, {r \in Request : Owes(x, r)}, "not-leader-anymore")
         = Answer(s, {r \in Request : Owes(s, r)}, "not-leader-anymore")
  BY <1>8, <1>9 DEF Answer
<1>11. /\ y.id = s.id /\ y.running = s.running /\ y.learners = s.learners
       /\ y.commitIndex = s.commitIndex /\ y.lastApplied = s.lastApplied
       /\ y.log = s.log /\ y.snap = s.snap /\ y.sm = s.sm
       /\ y.currentTerm >= s.currentTerm
       /\ s.role = "follower" => y.pending = s.pending /\ y.replies = s.replies
       /\ s.role # "follower" =>
            /\ y.pending = EmptyLog
            /\ y.replies = Answer(s, {r \in Request : Owes(s, r)}, "not-leader-anymore")
  <2>1. CASE s.role = "follower"
    BY <1>4, <2>1 DEF Work
  <2>2. CASE s.role # "follower"
    BY <1>4, <1>10, <2>2, FailPendingView DEF Work
  <2> QED BY <2>1, <2>2
<1> HIDE DEF y, f
<1>12. /\ f.id = y.id /\ f.running = y.running /\ f.learners = y.learners
       /\ f.commitIndex = y.commitIndex /\ f.lastApplied = y.lastApplied
       /\ f.log = y.log /\ f.snap = y.snap /\ f.sm = y.sm
       /\ f.currentTerm = y.currentTerm /\ f.pending = y.pending /\ f.replies = y.replies
       /\ f.role = "follower" /\ f.ticker = TRUE
  BY <1>5, <1>7 DEF NodeState
<1>13. Follows(s, f)
  BY <1>11, <1>12 DEF Follows
<1> QED BY <1>6, <1>13 DEF f

\* Following twice in one handler is following once.
LEMMA FollowsTwice ==
  ASSUME NEW s \in NodeState, NEW u \in NodeState, NEW t \in NodeState,
         Follows(s, u), Follows(u, t)
  PROVE  Follows(s, t)
<1>1. s.currentTerm \in Nat /\ u.currentTerm \in Nat /\ t.currentTerm \in Nat
  BY DEF NodeState
<1> QED BY <1>1 DEF Follows

LEMMA FollowsView ==
  ASSUME NEW s, NEW t, NEW v, Follows(s, t), View(v) = View(t)
  PROVE  Follows(s, v)
BY DEF Follows, View, Work, Seat

LEMMA QuietView ==
  ASSUME NEW s, NEW t, NEW v, Quiet(s, t), View(v) = View(t)
  PROVE  Quiet(s, v)
BY DEF Quiet, View, Work, Seat

LEMMA QuietSelf ==
  ASSUME NEW s \in NodeState, NEW t, View(t) = View(s)
  PROVE  Quiet(s, t)
<1>1. s.currentTerm \in Nat
  BY DEF NodeState
<1> QED BY <1>1 DEF Quiet, View, Work, Seat

\* An election moves a node that does not lead from one role to a higher one.
Campaigns(s, t) ==
  /\ Work(t) = Work(s) /\ t.learners = s.learners
  /\ t.currentTerm >= s.currentTerm
  /\ t.role # "follower"
  /\ s.role # "leader"

LEMMA CampaignsOn ==
  ASSUME NEW s \in NodeState, NEW t \in NodeState, NEW u \in NodeState,
         Campaigns(s, t), Campaigns(t, u) \/ View(u) = View(t)
  PROVE  Campaigns(s, u)
<1>1. s.currentTerm \in Nat /\ u.currentTerm \in Nat /\ t.currentTerm \in Nat
  BY DEF NodeState
<1> QED BY <1>1 DEF Campaigns, View, Work, Seat

LEMMA CampaignIsQuiet ==
  ASSUME NEW s, NEW t, Campaigns(s, t)
  PROVE  Quiet(s, t)
BY DEF Campaigns, Quiet

LEMMA BecomeLeaderView ==
  ASSUME NEW s \in NodeState
  PROVE  BecomeLeader(s) \in NodeState /\ Work(BecomeLeader(s)) = Work(s)
         /\ Seat(BecomeLeader(s)) = <<"leader", s.currentTerm, s.ticker, s.learners, s.votedFor>>
<1> DEFINE next == [p \in Node |-> IF p \in s.peers \cup s.learners
                                   THEN LogLastIndex(s) + 1 ELSE 0]
           zero == [p \in Node |-> 0]
           el == s.elected \cup {s.currentTerm}
           l == [s EXCEPT !.role = "leader", !.leaderId = s.id, !.nextIndex = next,
                          !.matchIndex = zero, !.elected = el]
<1>1. next \in Progress /\ zero \in Progress
  BY LogLastIndexType DEF Progress
<1>2. el \in SUBSET Nat /\ s.id \in NodeOrNone /\ "leader" \in Role
  BY DEF NodeState, NodeOrNone, Role
<1>3. BecomeLeader(s) = ReplicateToPeers(l)
  BY DEF BecomeLeader, NodeState
<1> HIDE DEF next, zero, el
<1>4. /\ l \in NodeState /\ Work(l) = Work(s)
      /\ Seat(l) = <<"leader", s.currentTerm, s.ticker, s.learners, s.votedFor>>
  BY <1>1, <1>2 DEF NodeState, Work, Seat
<1> HIDE DEF l
<1>5. View(ReplicateToPeers(l)) = View(l)
  BY <1>4, ViewOfSends
<1> QED BY <1>3, <1>4, <1>5, BecomeLeaderType DEF View

LEMMA MaybeWinElectionView ==
  ASSUME NEW s \in NodeState
  PROVE  /\ MaybeWinElection(s) \in NodeState
         /\ MaybeWinElection(s) = s \/ Campaigns(s, MaybeWinElection(s))
<1>1. CASE s.role = "candidate" /\ MaybeWinElection(s) = BecomeLeader(s)
  <2>1. s.currentTerm \in Nat
    BY DEF NodeState
  <2> QED BY <1>1, <2>1, BecomeLeaderView DEF Campaigns, Seat
<1> QED BY <1>1, MaybeWinElectionType DEF MaybeWinElection

LEMMA CandidateView ==
  ASSUME NEW s \in NodeState, s.role = "pre-candidate"
  PROVE  Candidate(s) \in NodeState /\ Campaigns(s, Candidate(s))
<1>1. s.currentTerm \in Nat /\ s.currentTerm + 1 \in Nat
  BY DEF NodeState
<1>2. s.id # None
  BY NodeAssumption DEF NodeState
<1> DEFINE b == s.ballots \cup {<<s.currentTerm + 1, s.id>>}
           t == s.currentTerm + 1
<1>3. LogSaveMetadata(s, t, s.id) = [s EXCEPT !.currentTerm = t, !.votedFor = s.id,
                                              !.ballots = b]
  BY <1>2 DEF LogSaveMetadata, NodeState
<1>4. t > s.currentTerm
  BY <1>1
<1> HIDE DEF b, t
<1>5. /\ Work(Candidate(s)) = Work(s) /\ Candidate(s).learners = s.learners
      /\ Candidate(s).currentTerm = t /\ Candidate(s).role = "candidate"
  BY ZenonT(60), <1>3 DEF Candidate, NodeState, Work, t
<1> QED BY <1>1, <1>4, <1>5, CandidateType DEF Campaigns, t

LEMMA MaybeStartRealElectionView ==
  ASSUME NEW s \in NodeState
  PROVE  /\ MaybeStartRealElection(s) \in NodeState
         /\ MaybeStartRealElection(s) = s \/ Campaigns(s, MaybeStartRealElection(s))
<1>1. CASE s.role = "pre-candidate" /\ MaybeStartRealElection(s) = BecomeCandidateForReal(s)
  <2>1. PICK m \in PlainMsg :
          BecomeCandidateForReal(s) = MaybeWinElection(SendToPeers(Candidate(s), m))
    BY BecomeCandidateForRealIs
  <2> DEFINE c == Candidate(s)
             d == SendToPeers(c, m)
  <2>2. c \in NodeState /\ Campaigns(s, c)
    BY <1>1, CandidateView
  <2>3. d \in NodeState /\ View(d) = View(c)
    BY <2>2, SendToPeersType, ViewOfSends
  <2> HIDE DEF c, d
  <2>4. Campaigns(s, d)
    BY <2>2, <2>3, CampaignsOn
  <2>5. MaybeWinElection(d) \in NodeState
        /\ (MaybeWinElection(d) = d \/ Campaigns(d, MaybeWinElection(d)))
    BY <2>3, MaybeWinElectionView
  <2>6. Campaigns(s, MaybeWinElection(d))
    BY <2>3, <2>4, <2>5, CampaignsOn
  <2> QED BY <1>1, <2>1, <2>5, <2>6 DEF c, d
<1> QED BY <1>1, MaybeStartRealElectionType DEF MaybeStartRealElection

LEMMA StartElectionView ==
  ASSUME NEW s \in NodeState, s.role # "leader"
  PROVE  /\ StartElection(s) \in NodeState
         /\ \/ StartElection(s) = s /\ s.id \in s.learners
            \/ Campaigns(s, StartElection(s))
<1>1. PICK m \in PlainMsg : StartElection(s) =
         IF IsLearner(s) THEN s
         ELSE MaybeStartRealElection(SendToPeers(PreCandidate(s), m))
  BY StartElectionIs
<1> DEFINE c == PreCandidate(s)
           d == SendToPeers(c, m)
<1>2. c \in NodeState
  BY PreCandidateType
<1>3. Campaigns(s, c)
  <2>1. s.currentTerm \in Nat
    BY DEF NodeState
  <2> QED BY <2>1 DEF PreCandidate, NodeState, Campaigns, Work
<1> HIDE DEF c
<1>4. d \in NodeState /\ View(d) = View(c)
  BY <1>2, SendToPeersType, ViewOfSends
<1> HIDE DEF d
<1>5. Campaigns(s, d)
  BY <1>2, <1>3, <1>4, CampaignsOn
<1>6. /\ MaybeStartRealElection(d) \in NodeState
      /\ MaybeStartRealElection(d) = d \/ Campaigns(d, MaybeStartRealElection(d))
  BY <1>4, MaybeStartRealElectionView
<1>7. Campaigns(s, MaybeStartRealElection(d))
  BY <1>4, <1>5, <1>6, CampaignsOn
<1> QED BY <1>1, <1>6, <1>7 DEF c, d, IsLearner

(***************************************************************************)
(* The handlers, kind by kind.                                             *)
(***************************************************************************)
LEMMA ObeysView ==
  ASSUME NEW s, NEW t, NEW v, NEW es, NEW commit, Obeys(s, t, es, commit), View(v) = View(t)
  PROVE  Obeys(s, v, es, commit)
BY DEF Obeys, Applies, Compacts, View, Work, Seat

LEMMA InstallsView ==
  ASSUME NEW s, NEW t, NEW v, NEW m, Installs(s, t, m), View(v) = View(t)
  PROVE  Installs(s, v, m)
BY DEF Installs, View, Work, Seat

LEMMA LeadsView ==
  ASSUME NEW s, NEW t, NEW v, Leads(s, t), View(v) = View(t)
  PROVE  Leads(s, v)
BY ZenonT(60) DEF Leads, Applies, Compacts, View, Work, Seat

LEMMA TurnView ==
  ASSUME NEW s, NEW t, NEW v, Turn(s, t), View(v) = View(t)
  PROVE  Turn(s, v)
BY ObeysView, InstallsView, LeadsView, QuietView, FollowsView DEF Turn, Minor

LEMMA VotedTurn ==
  ASSUME NEW s \in NodeState, NEW m \in RequestVoteMsg
  PROVE  Minor(s, Voted(s, m))
<1> DEFINE u == Updated(s, m)
           f == BecomeFollower(u, u.currentTerm)
           v == LogSaveMetadata(f, u.currentTerm, m.from)
<1>1. m.term \in Nat /\ m.from \in NodeOrNone
  BY DEF RequestVoteMsg, NodeOrNone
<1>2. u \in NodeState /\ (u = s \/ Follows(s, u))
  BY <1>1, BecomeFollowerView DEF Updated
<1>3. u.currentTerm \in Nat
  BY <1>2 DEF NodeState
<1>4. f \in NodeState /\ Follows(u, f)
  BY <1>2, <1>3, BecomeFollowerView
<1>5. Voted(s, m) = u \/ Voted(s, m) = v
  BY DEF Voted
<1>6. f.currentTerm = u.currentTerm
  BY <1>2, <1>3, BecomeFollowerType
<1> HIDE DEF u, f
<1>7. Follows(s, f)
  BY <1>2, <1>4, FollowsTwice
<1>8. /\ v.id = f.id /\ v.running = f.running /\ v.learners = f.learners
      /\ v.commitIndex = f.commitIndex /\ v.lastApplied = f.lastApplied
      /\ v.log = f.log /\ v.snap = f.snap /\ v.sm = f.sm /\ v.role = f.role
      /\ v.ticker = f.ticker /\ v.currentTerm = u.currentTerm
      /\ v.pending = f.pending /\ v.replies = f.replies
  BY <1>4 DEF LogSaveMetadata, NodeState
<1> HIDE DEF v
<1>9. Follows(s, v)
  BY <1>6, <1>7, <1>8 DEF Follows
<1>10. Quiet(s, s)
  BY QuietSelf
<1> QED BY <1>2, <1>5, <1>9, <1>10 DEF Minor

LEMMA ElectionTurns ==
  ASSUME NEW s \in NodeState
  PROVE  /\ \A m \in RequestVoteResponseMsg : Minor(s, HandleRequestVoteResponse(s, m))
         /\ \A m \in PreVoteMsg : Minor(s, HandlePreVote(s, m))
         /\ \A m \in PreVoteResponseMsg : Minor(s, HandlePreVoteResponse(s, m))
<1>0. \A t \in Nat : Minor(s, BecomeFollower(s, t))
  BY BecomeFollowerView DEF Minor
<1>1. \A t : View(t) = View(s) => Minor(s, t)
  BY QuietSelf DEF Minor
<1>2. ASSUME NEW w \in NodeState, View(w) = View(s), NEW t \in NodeState,
             t = w \/ Campaigns(w, t)
      PROVE  Minor(s, t)
  <2>1. CASE t = w
    BY <1>1, <1>2, <2>1
  <2>2. CASE Campaigns(w, t)
    <3>1. Campaigns(s, t)
      BY <1>2, <2>2 DEF Campaigns, View, Work, Seat
    <3> QED BY <3>1, CampaignIsQuiet DEF Minor
  <2> QED BY <1>2, <2>1, <2>2
<1>3. ASSUME NEW m \in RequestVoteResponseMsg
      PROVE  Minor(s, HandleRequestVoteResponse(s, m))
  <2> DEFINE v == s.votes \cup {m.from}
             w == [s EXCEPT !.votes = v]
  <2>1. m.term \in Nat /\ v \in SUBSET Node
    BY DEF RequestVoteResponseMsg, NodeState
  <2>2. w = [s EXCEPT !.votes = @ \cup {m.from}]
    BY DEF NodeState
  <2> HIDE DEF v
  <2>3. w \in NodeState /\ View(w) = View(s)
    BY <2>1 DEF NodeState, View, Work, Seat
  <2>4. HandleRequestVoteResponse(s, m)
          \in {BecomeFollower(s, m.term), MaybeWinElection(w), s}
    BY <2>2 DEF HandleRequestVoteResponse
  <2> HIDE DEF w
  <2>5. Minor(s, MaybeWinElection(w))
    BY <1>2, <2>3, MaybeWinElectionView
  <2> QED BY <1>0, <1>1, <2>1, <2>4, <2>5
<1>4. ASSUME NEW m \in PreVoteMsg PROVE Minor(s, HandlePreVote(s, m))
  BY <1>1, ViewOfSends DEF HandlePreVote
<1>5. ASSUME NEW m \in PreVoteResponseMsg PROVE Minor(s, HandlePreVoteResponse(s, m))
  <2> DEFINE w == [s EXCEPT !.prevotes = @ \cup {m.from}]
  <2>1. m.term \in Nat /\ m.from \in Node
    BY DEF PreVoteResponseMsg
  <2>2. w \in NodeState
    BY <2>1, PrevoteCounted
  <2>3. View(w) = View(s)
    BY DEF NodeState, View, Work, Seat
  <2>4. HandlePreVoteResponse(s, m)
          \in {BecomeFollower(s, m.term), MaybeStartRealElection(w), s}
    BY DEF HandlePreVoteResponse
  <2> HIDE DEF w
  <2>5. Minor(s, MaybeStartRealElection(w))
    BY <1>2, <2>2, <2>3, MaybeStartRealElectionView
  <2> QED BY <1>0, <1>1, <2>1, <2>4, <2>5
<1> QED BY <1>3, <1>4, <1>5

\* A message that claims to come from a leader of the node's term or a later one.
LEMMA FollowLeaderView ==
  ASSUME NEW s \in NodeState, NEW m, m.term \in Nat, m.from \in Node
  PROVE  /\ FollowLeader(s, m) \in NodeState
         /\ m.term >= s.currentTerm => Follows(s, FollowLeader(s, m))
         /\ m.term < s.currentTerm => FollowLeader(s, m) = s
         /\ FollowLeader(s, m).currentTerm
              = IF m.term >= s.currentTerm THEN m.term ELSE s.currentTerm
<1> DEFINE f == BecomeFollower(s, m.term)
           g == [f EXCEPT !.leaderId = m.from]
<1>1. f \in NodeState /\ Follows(s, f)
  BY BecomeFollowerView
<1>2. s.currentTerm \in Nat
  BY DEF NodeState
<1>3. f.currentTerm = IF m.term > s.currentTerm THEN m.term ELSE s.currentTerm
  BY BecomeFollowerType
<1>4. FollowLeader(s, m) = IF m.term >= s.currentTerm THEN g ELSE s
  BY DEF FollowLeader
<1> HIDE DEF f
<1>5. View(g) = View(f)
  BY <1>1 DEF NodeState, View, Work, Seat
<1>6. g.currentTerm = f.currentTerm
  BY <1>1 DEF NodeState
<1>7. Follows(s, g)
  BY <1>1, <1>5, FollowsView
<1> HIDE DEF g
<1> QED BY <1>2, <1>3, <1>4, <1>6, <1>7, FollowLeaderType

\* What an append-entries message does: refused (quietly, or after following),
\* or obeyed.
LEMMA AppendEntriesTurn ==
  ASSUME NEW s \in NodeState, NEW m \in AppendEntriesMsg
  PROVE  LET u == FollowLeader(s, m)
             t == HandleAppendEntries(s, m)
         IN  \/ View(t) = View(u) /\ (u = s \/ Follows(s, u))
             \/ /\ Follows(s, u) /\ u.currentTerm = m.term /\ PrevMatches(u, m)
                /\ Obeys(u, t, m.entries, m.commit)
<1> DEFINE u == FollowLeader(s, m)
           log == LogAppendAll(u.log, m.entries)
           a == [u EXCEPT !.log = log]
           k == Smaller(m.commit, LogLastIndex(a))
           b == [a EXCEPT !.commitIndex = k]
           c == IF m.commit > a.commitIndex THEN ApplyCommitted(b) ELSE a
           t == HandleAppendEntries(s, m)
<1>1. /\ m.term \in Nat /\ m.from \in Node /\ m.entries \in Log /\ m.commit \in Nat
      /\ s.currentTerm \in Nat
  BY DEF AppendEntriesMsg, NodeState
<1>2. /\ u \in NodeState /\ (m.term < s.currentTerm => u = s)
      /\ (m.term >= s.currentTerm => Follows(s, u))
      /\ u.currentTerm = IF m.term >= s.currentTerm THEN m.term ELSE s.currentTerm
  BY <1>1, FollowLeaderView
<1>3. log \in Log
  BY <1>1, <1>2, LogAppendAllType DEF NodeState
<1>4. t = CASE m.term < u.currentTerm -> AppendAnswer(u, m.from, FALSE, 0, s.id)
            [] m.term >= u.currentTerm /\ ~ PrevMatches(u, m) ->
                 AppendAnswer(u, m.from, FALSE, LogLastIndex(u), s.id)
            [] OTHER -> AppendAnswer(c, m.from, TRUE, LogLastIndex(c), s.id)
  <2>1. a = [u EXCEPT !.log = LogAppendAll(@, m.entries)]
    BY <1>2 DEF NodeState
  <2> QED BY <2>1 DEF HandleAppendEntries, AppendAnswer, CommitUpTo
<1>5. a = [u EXCEPT !.log = LogAppendAll(u.log, m.entries)]
  OBVIOUS
<1> HIDE DEF u, log
<1>6. a \in NodeState /\ a.commitIndex = u.commitIndex
  BY <1>2, <1>3 DEF NodeState
<1> HIDE DEF a
<1>7. k \in Nat
  BY <1>1, <1>6, LogLastIndexType DEF Smaller
<1>8. b = [a EXCEPT !.commitIndex = Smaller(m.commit, LogLastIndex(a))]
  OBVIOUS
<1> HIDE DEF k
<1>9. b \in NodeState
  BY <1>6, <1>7 DEF NodeState
<1> HIDE DEF b
<1>10. ApplyCommitted(b) \in NodeState /\ Applies(b, ApplyCommitted(b))
  BY <1>9, ApplyCommittedView
<1>11. u.commitIndex \in Nat
  BY <1>2 DEF NodeState
<1>12. c \in NodeState /\ Obeys(u, c, m.entries, m.commit)
  BY <1>1, <1>5, <1>6, <1>8, <1>10, <1>11 DEF Obeys
<1> HIDE DEF c
<1>13. \A x \in NodeState : \A ok, j : View(AppendAnswer(x, m.from, ok, j, s.id)) = View(x)
  BY ViewOfSends DEF AppendAnswer
<1> HIDE DEF t
<1>14. CASE t = AppendAnswer(c, m.from, TRUE, LogLastIndex(c), s.id)
            /\ m.term >= u.currentTerm /\ PrevMatches(u, m)
  <2>1. View(t) = View(c)
    BY <1>12, <1>13, <1>14
  <2>2. Obeys(u, t, m.entries, m.commit)
    BY <1>12, <2>1, ObeysView
  <2>3. Follows(s, u) /\ u.currentTerm = m.term
    BY <1>1, <1>2, <1>14
  <2> QED BY <1>14, <2>2, <2>3 DEF t, u
<1>15. CASE View(t) = View(u)
  <2>1. u = s \/ Follows(s, u)
    BY <1>1, <1>2
  <2> QED BY <1>15, <2>1 DEF t, u
<1>16. u.currentTerm \in Nat
  BY <1>2 DEF NodeState
<1>17. CASE m.term >= u.currentTerm /\ PrevMatches(u, m)
  <2>1. ~ (m.term < u.currentTerm)
    BY <1>1, <1>16, <1>17
  <2> QED BY <1>4, <1>14, <1>17, <2>1
<1>18. CASE m.term < u.currentTerm \/ ~ PrevMatches(u, m)
  <2>1. t = AppendAnswer(u, m.from, FALSE, 0, s.id)
        \/ t = AppendAnswer(u, m.from, FALSE, LogLastIndex(u), s.id)
    <3>1. CASE m.term < u.currentTerm
      <4>1. ~ (m.term >= u.currentTerm)
        BY <1>1, <1>16, <3>1
      <4> QED BY <1>4, <3>1, <4>1
    <3>2. CASE ~ (m.term < u.currentTerm)
      <4>1. m.term >= u.currentTerm /\ ~ PrevMatches(u, m)
        BY <1>1, <1>16, <1>18, <3>2
      <4> QED BY <1>4, <3>2, <4>1
    <3> QED BY <3>1, <3>2
  <2> QED BY <1>2, <1>13, <1>15, <2>1
<1> QED BY <1>1, <1>16, <1>17, <1>18

LEMMA InstallSnapshotTurn ==
  ASSUME NEW s \in NodeState, NEW m \in InstallSnapshotMsg
  PROVE  LET u == FollowLeader(s, m)
             t == HandleInstallSnapshot(s, m)
         IN  \/ View(t) = View(s)
             \/ Follows(s, u) /\ Installs(u, t, m)
<1> DEFINE u == FollowLeader(s, m)
           b == LogSaveSnapshot(u, m.lastIndex, m.lastTerm, m.data)
           i == [b EXCEPT !.sm = m.data, !.lastSnapshotIndex = m.lastIndex,
                          !.commitIndex = Larger(b.commitIndex, m.lastIndex),
                          !.lastApplied = Larger(b.lastApplied, m.lastIndex)]
           t == HandleInstallSnapshot(s, m)
<1>1. /\ m.term \in Nat /\ m.from \in Node /\ m.lastIndex \in Nat
      /\ m.lastTerm \in Nat \cup {NoTerm} /\ m.data \in History
      /\ s.currentTerm \in Nat
  BY DEF InstallSnapshotMsg, NodeState
<1>2. /\ u \in NodeState /\ (m.term < s.currentTerm => u = s)
      /\ (m.term >= s.currentTerm => Follows(s, u))
      /\ u.currentTerm = IF m.term >= s.currentTerm THEN m.term ELSE s.currentTerm
  BY <1>1, FollowLeaderView
<1>3. b \in NodeState
  BY <1>1, <1>2, LogSaveSnapshotType
<1>4. t = IF m.term < u.currentTerm THEN SnapshotAnswer(u, m.from, 0, s.id)
          ELSE SnapshotAnswer(i, m.from, m.lastIndex, s.id)
  <2>1. i = [b EXCEPT !.sm = m.data, !.lastSnapshotIndex = m.lastIndex,
                      !.commitIndex = Larger(@, m.lastIndex),
                      !.lastApplied = Larger(@, m.lastIndex)]
    BY <1>3 DEF NodeState
  <2> QED BY <2>1 DEF HandleInstallSnapshot, SnapshotAnswer
<1> HIDE DEF u, t
<1>5. /\ b.id = u.id /\ b.running = u.running /\ b.role = u.role
      /\ b.currentTerm = u.currentTerm /\ b.ticker = u.ticker /\ b.learners = u.learners
      /\ b.commitIndex = u.commitIndex /\ b.lastApplied = u.lastApplied
      /\ b.log = Restrict(u.log, {j \in DOMAIN u.log : j > m.lastIndex})
      /\ b.snap.index = m.lastIndex /\ b.pending = u.pending /\ b.replies = u.replies
  BY <1>2 DEF LogSaveSnapshot, NodeState
<1> HIDE DEF b
<1> DEFINE ci == Larger(b.commitIndex, m.lastIndex)
           la == Larger(b.lastApplied, m.lastIndex)
<1>6. ci \in Nat /\ la \in Nat
  BY <1>1, <1>3 DEF Larger, NodeState
<1>7. i = [b EXCEPT !.sm = m.data, !.lastSnapshotIndex = m.lastIndex,
                    !.commitIndex = ci, !.lastApplied = la]
  OBVIOUS
<1> HIDE DEF ci, la, i
<1>8. /\ i \in NodeState
      /\ i.id = b.id /\ i.running = b.running /\ i.role = b.role
      /\ i.currentTerm = b.currentTerm /\ i.ticker = b.ticker /\ i.learners = b.learners
      /\ i.commitIndex = ci /\ i.lastApplied = la /\ i.log = b.log /\ i.snap = b.snap
      /\ i.sm = m.data /\ i.pending = b.pending /\ i.replies = b.replies
  BY <1>1, <1>3, <1>6, <1>7 DEF NodeState
<1>9. Installs(u, i, m)
  BY <1>5, <1>8 DEF Installs, ci, la
<1>10. \A x \in NodeState : \A j : View(SnapshotAnswer(x, m.from, j, s.id)) = View(x)
  BY ViewOfSends DEF SnapshotAnswer
<1>11. CASE m.term < u.currentTerm
  <2>1. u = s
    BY <1>1, <1>2, <1>11
  <2>2. View(t) = View(s)
    BY <1>2, <1>4, <1>10, <1>11, <2>1
  <2> QED BY <2>2 DEF t
<1>12. CASE ~ (m.term < u.currentTerm)
  <2>1. View(t) = View(i)
    BY <1>4, <1>8, <1>10, <1>12
  <2>2. Installs(u, t, m)
    BY <1>9, <2>1, InstallsView
  <2>3. Follows(s, u)
    BY <1>1, <1>2, <1>12
  <2> QED BY <2>2, <2>3 DEF t, u
<1> QED BY <1>11, <1>12

LEMMA AppliesFrom ==
  ASSUME NEW s, NEW v, NEW t, Applies(s, t), View(v) = View(s)
  PROVE  Applies(v, t)
<1>1. /\ v.id = s.id /\ v.running = s.running /\ v.role = s.role
      /\ v.currentTerm = s.currentTerm /\ v.ticker = s.ticker
      /\ v.commitIndex = s.commitIndex /\ v.lastApplied = s.lastApplied /\ v.log = s.log
      /\ v.snap = s.snap /\ v.sm = s.sm /\ v.pending = s.pending /\ v.replies = s.replies
  BY DEF View, Work, Seat
<1>2. Done(v) = Done(s)
  BY <1>1 DEF Done
<1>3. Applied(v, v.lastApplied + 1, v.commitIndex) = Applied(s, s.lastApplied + 1, s.commitIndex)
  BY <1>1 DEF Applied
<1>4. \A S, o : Answer(v, S, o) = Answer(s, S, o)
  BY <1>1 DEF Answer
<1>5. Compacts(s, t) => Compacts(v, t)
  BY <1>1 DEF Compacts
<1>6. Restrict(v.pending, DOMAIN v.pending \ Done(v))
        = Restrict(s.pending, DOMAIN s.pending \ Done(s))
  BY <1>1, <1>2
<1>7. Answer(v, {r \in Request : \E k \in Done(v) : v.pending[k] = r}, "ok")
        = Answer(s, {r \in Request : \E k \in Done(s) : s.pending[k] = r}, "ok")
  BY <1>1, <1>2, <1>4
<1>8. v.sm \o Applied(v, v.lastApplied + 1, v.commitIndex)
        = s.sm \o Applied(s, s.lastApplied + 1, s.commitIndex)
  BY <1>1, <1>3
<1> QED BY <1>1, <1>5, <1>6, <1>7, <1>8 DEF Applies

LEMMA AcknowledgeTurn ==
  ASSUME NEW s \in NodeState, NEW p \in Node, NEW k \in Nat
  PROVE  View(Acknowledge(s, p, k)) = View(s) \/ Leads(s, Acknowledge(s, p, k))
<1> DEFINE match == [s.matchIndex EXCEPT ![p] = Larger(k, @)]
           next == [s.nextIndex EXCEPT ![p] = k + 1]
           t == [s EXCEPT !.matchIndex = match, !.nextIndex = next]
           c == RecomputeCommitIndex(t)
<1>1. s.matchIndex \in [Node -> Nat] /\ s.nextIndex \in [Node -> Nat]
  BY DEF NodeState, Progress
<1>2. match \in Progress /\ next \in Progress
  BY <1>1 DEF Larger, Progress
<1>3. t = [s EXCEPT !.matchIndex[p] = Larger(k, @), !.nextIndex[p] = k + 1]
  BY DEF NodeState
<1>4. Acknowledge(s, p, k) = IF c.commitIndex > t.commitIndex THEN ApplyCommitted(c) ELSE t
  BY <1>3 DEF Acknowledge
<1>5. t = [s EXCEPT !.matchIndex = match, !.nextIndex = next]
  OBVIOUS
<1> HIDE DEF match, next
<1>6. t \in NodeState /\ View(t) = View(s)
  BY <1>2 DEF NodeState, View, Work, Seat
<1>7. \A j : View([t EXCEPT !.commitIndex = j]) = View([s EXCEPT !.commitIndex = j])
  BY DEF NodeState, View, Work, Seat
<1> HIDE DEF t
<1>8. PICK j \in Nat : /\ j >= t.commitIndex
                       /\ j = t.commitIndex \/ LogTermAt(t, j) = t.currentTerm
                       /\ c = [t EXCEPT !.commitIndex = j]
  BY <1>6, RecomputeView
<1>9. c \in NodeState
  BY <1>6, RecomputeCommitIndexType
<1> HIDE DEF c
<1>10. Applies(c, ApplyCommitted(c))
  BY <1>9, ApplyCommittedView
<1>11. View([s EXCEPT !.commitIndex = j]) = View(c)
  BY <1>7, <1>8
<1>12. Applies([s EXCEPT !.commitIndex = j], ApplyCommitted(c))
  BY <1>10, <1>11, AppliesFrom
<1>13. /\ t.commitIndex = s.commitIndex /\ t.currentTerm = s.currentTerm
       /\ LogTermAt(t, j) = LogTermAt(s, j)
  BY <1>6 DEF View, Work, Seat, LogTermAt
<1>16. /\ j >= s.commitIndex
       /\ j = s.commitIndex \/ LogTermAt(s, j) = s.currentTerm
  <2>1. j >= t.commitIndex
    BY <1>8
  <2>2. j = t.commitIndex \/ LogTermAt(t, j) = t.currentTerm
    BY <1>8
  <2>3. j >= s.commitIndex
    BY <1>13, <2>1
  <2>4. LogTermAt(t, j) = t.currentTerm => LogTermAt(s, j) = s.currentTerm
    BY <1>13
  <2> QED BY <1>13, <2>2, <2>3, <2>4
<1>14. Leads(s, ApplyCommitted(c))
  BY <1>12, <1>16 DEF Leads
<1>15. Acknowledge(s, p, k) = ApplyCommitted(c) \/ Acknowledge(s, p, k) = t
  BY <1>4
<1> QED BY <1>6, <1>14, <1>15

LEMMA ResponseTurns ==
  ASSUME NEW s \in NodeState
  PROVE  /\ \A m \in AppendEntriesResponseMsg : Minor(s, HandleAppendEntriesResponse(s, m))
         /\ \A m \in InstallSnapshotResponseMsg : Minor(s, HandleInstallSnapshotResponse(s, m))
<1>0. \A t \in Nat : Minor(s, BecomeFollower(s, t))
  BY BecomeFollowerView DEF Minor
<1>1. \A t : View(t) = View(s) => Minor(s, t)
  BY QuietSelf DEF Minor
<1>2. ASSUME s.role = "leader", NEW p \in Node, NEW k \in Nat
      PROVE  Minor(s, Acknowledge(s, p, k))
  BY <1>1, <1>2, AcknowledgeTurn DEF Minor
<1>3. ASSUME NEW m \in AppendEntriesResponseMsg
      PROVE  Minor(s, HandleAppendEntriesResponse(s, m))
  <2> DEFINE next == [s.nextIndex EXCEPT ![m.from] = Larger(1, @ - 1)]
             t == [s EXCEPT !.nextIndex = next]
  <2>1. m.term \in Nat /\ m.from \in Node /\ m.match \in Nat /\ m.success \in BOOLEAN
    BY DEF AppendEntriesResponseMsg
  <2>2. t = [s EXCEPT !.nextIndex[m.from] = Larger(1, @ - 1)]
    BY DEF NodeState
  <2>3. \/ HandleAppendEntriesResponse(s, m) = BecomeFollower(s, m.term)
        \/ s.role = "leader" /\ HandleAppendEntriesResponse(s, m) = Acknowledge(s, m.from, m.match)
        \/ HandleAppendEntriesResponse(s, m) = t
        \/ HandleAppendEntriesResponse(s, m) = s
    BY <2>2 DEF HandleAppendEntriesResponse
  <2> HIDE DEF next
  <2>4. View(t) = View(s)
    BY DEF NodeState, View, Work, Seat
  <2> HIDE DEF t
  <2> QED BY <1>0, <1>1, <1>2, <2>1, <2>3, <2>4
<1>4. ASSUME NEW m \in InstallSnapshotResponseMsg
      PROVE  Minor(s, HandleInstallSnapshotResponse(s, m))
  <2>1. m.term \in Nat /\ m.from \in Node /\ m.lastIndex \in Nat
    BY DEF InstallSnapshotResponseMsg
  <2>2. \/ HandleInstallSnapshotResponse(s, m) = BecomeFollower(s, m.term)
        \/ /\ s.role = "leader"
           /\ HandleInstallSnapshotResponse(s, m) = Acknowledge(s, m.from, m.lastIndex)
        \/ HandleInstallSnapshotResponse(s, m) = s
    BY DEF HandleInstallSnapshotResponse
  <2> QED BY <1>0, <1>1, <1>2, <2>1, <2>2
<1> QED BY <1>3, <1>4

LEMMA LeaderMailTurns ==
  ASSUME NEW s \in NodeState
  PROVE  /\ \A m \in AppendEntriesMsg : Turn(s, HandleAppendEntries(s, m))
         /\ \A m \in InstallSnapshotMsg : Turn(s, HandleInstallSnapshot(s, m))
<1>1. \A t : View(t) = View(s) => Turn(s, t)
  BY QuietSelf DEF Turn, Minor
<1>2. ASSUME NEW m \in AppendEntriesMsg PROVE Turn(s, HandleAppendEntries(s, m))
  <2> DEFINE u == FollowLeader(s, m)
             t == HandleAppendEntries(s, m)
  <2>1. u \in NodeState
    BY FollowLeaderView DEF AppendEntriesMsg
  <2>2. \/ View(t) = View(u) /\ (u = s \/ Follows(s, u))
        \/ Follows(s, u) /\ Obeys(u, t, m.entries, m.commit)
    BY AppendEntriesTurn
  <2> HIDE DEF u, t
  <2>3. Turn(s, t)
    <3>1. CASE View(t) = View(u) /\ u = s
      BY <1>1, <3>1
    <3>2. CASE View(t) = View(u) /\ Follows(s, u)
      BY <3>2, FollowsView DEF Turn, Minor
    <3>3. CASE Follows(s, u) /\ Obeys(u, t, m.entries, m.commit)
      BY <2>1, <3>3 DEF Turn, Minor
    <3> QED BY <2>2, <3>1, <3>2, <3>3
  <2> QED BY <2>3 DEF t
<1>3. ASSUME NEW m \in InstallSnapshotMsg PROVE Turn(s, HandleInstallSnapshot(s, m))
  <2> DEFINE u == FollowLeader(s, m)
             t == HandleInstallSnapshot(s, m)
  <2>1. u \in NodeState
    BY FollowLeaderView DEF InstallSnapshotMsg
  <2>2. View(t) = View(s) \/ (Follows(s, u) /\ Installs(u, t, m))
    BY InstallSnapshotTurn
  <2> HIDE DEF u, t
  <2>3. Turn(s, t)
    BY <1>1, <2>1, <2>2 DEF Turn, Minor
  <2> QED BY <2>3 DEF t
<1> QED BY <1>2, <1>3

(***************************************************************************)
(* Clients, snapshots, restarts.                                           *)
(***************************************************************************)

\* raft-client-append!: a request is turned down, or appended under the next
\* index, committed as far as possible and applied.
Accepts(s, t, r) ==
  LET k == LogLastIndex(s) + 1
      a == [s EXCEPT !.log = LogAppendAll(s.log, [j \in {k} |-> EntryFor(s, r)]),
                     !.pending = [j \in DOMAIN s.pending \cup {k} |->
                                    IF j = k THEN r ELSE s.pending[j]]]
  IN  s.role = "leader" /\ Leads(a, t)

Declines(s, t, r) ==
  /\ s.role # "leader"
  /\ View(t) = View([s EXCEPT !.replies = [s.replies EXCEPT ![r] = Append(@, "not-leader")]])

LEMMA ClientAppendView ==
  ASSUME NEW s \in NodeState, NEW r \in Request
  PROVE  Accepts(s, ClientAppend(s, r), r) \/ Declines(s, ClientAppend(s, r), r)
<1> DEFINE k == LogLastIndex(s) + 1
           es == [j \in {k} |-> EntryFor(s, r)]
           log == LogAppendAll(s.log, es)
           pend == [j \in DOMAIN s.pending \cup {k} |-> IF j = k THEN r ELSE s.pending[j]]
           a == [s EXCEPT !.log = log, !.pending = pend]
           reps == [s.replies EXCEPT ![r] = Append(@, "not-leader")]
<1>1. k \in Index
  BY LogLastIndexType DEF Index
<1>2. es \in Log
  <2>1. {k} \in FiniteIndexSet
    BY <1>1, FS_Singleton DEF FiniteIndexSet
  <2>2. es \in [{k} -> Entry]
    BY EntryForType
  <2> QED BY <2>1, <2>2 DEF Log
<1>3. s.log \in Log /\ s.pending \in Pending
  BY DEF NodeState
<1>4. log \in Log
  BY <1>2, <1>3, LogAppendAllType
<1>5. pend \in Pending
  <2>1. PICK D \in SUBSET Index : s.pending \in [D -> Request]
    BY <1>3 DEF Pending
  <2>2. D \cup {k} \in SUBSET Index
    BY <1>1
  <2>3. pend \in [D \cup {k} -> Request]
    BY <2>1
  <2> QED BY <2>2, <2>3 DEF Pending
<1>6. ClientAppend(s, r) = IF s.role # "leader" THEN [s EXCEPT !.replies = reps]
                           ELSE ReplicateToPeers(ApplyCommitted(RecomputeCommitIndex(a)))
  BY DEF ClientAppend, NodeState
<1>7. CASE s.role # "leader"
  BY <1>6, <1>7 DEF Declines
<1>8. CASE s.role = "leader"
  <2>1. a = [s EXCEPT !.log = LogAppendAll(s.log, [j \in {LogLastIndex(s) + 1} |-> EntryFor(s, r)]),
                      !.pending = [j \in DOMAIN s.pending \cup {LogLastIndex(s) + 1} |->
                                     IF j = LogLastIndex(s) + 1 THEN r ELSE s.pending[j]]]
    OBVIOUS
  <2> HIDE DEF k, es, log, pend
  <2>2. a \in NodeState
    BY <1>4, <1>5 DEF NodeState
  <2> HIDE DEF a
  <2> DEFINE b == RecomputeCommitIndex(a)
             c == ApplyCommitted(b)
  <2>3. PICK j \in Nat : /\ j >= a.commitIndex
                         /\ j = a.commitIndex \/ LogTermAt(a, j) = a.currentTerm
                         /\ b = [a EXCEPT !.commitIndex = j]
    BY <2>2, RecomputeView
  <2>4. b \in NodeState
    BY <2>2, RecomputeCommitIndexType
  <2>5. c \in NodeState /\ Applies(b, c)
    BY <2>4, ApplyCommittedView
  <2> HIDE DEF b, c
  <2>10. Applies([a EXCEPT !.commitIndex = j], c)
    BY <2>3, <2>5
  <2>6. Leads(a, c)
    BY <2>3, <2>10 DEF Leads
  <2>7. View(ReplicateToPeers(c)) = View(c)
    BY <2>5, ViewOfSends
  <2>8. Leads(a, ReplicateToPeers(c))
    BY <2>6, <2>7, LeadsView
  <2>9. ClientAppend(s, r) = ReplicateToPeers(c)
    BY <1>6, <1>8 DEF b, c
  <2> QED BY <1>8, <2>1, <2>8, <2>9 DEF Accepts
<1> QED BY <1>7, <1>8

\* raft-do-snapshot!
Snaps(s, t) ==
  /\ Seat(t) = Seat(s) /\ t.id = s.id /\ t.running = s.running
  /\ t.commitIndex = s.commitIndex /\ t.lastApplied = s.lastApplied /\ t.sm = s.sm
  /\ t.pending = s.pending /\ t.replies = s.replies
  /\ t.snap.index = s.lastApplied /\ t.snap.data = s.sm
  /\ t.log = Restrict(s.log, {j \in DOMAIN s.log : j > s.lastApplied})

LEMMA DoSnapshotView ==
  ASSUME NEW s \in NodeState
  PROVE  Snaps(s, DoSnapshot(s))
BY DEF DoSnapshot, LogSaveSnapshot, NodeState, Snaps, Seat

\* raft-scheme-start! on what the file holds.
Restarts(s, t) ==
  /\ ~ s.running /\ t.running = TRUE /\ t.ticker = TRUE /\ t.role = "follower"
  /\ t.currentTerm = s.currentTerm /\ t.votedFor = s.votedFor
  /\ t.log = s.log /\ t.snap = s.snap
  /\ t.commitIndex = s.snap.index /\ t.lastApplied = s.snap.index /\ t.sm = s.snap.data
  /\ t.pending = EmptyLog /\ t.replies = s.replies

Stops(s, t) ==
  /\ t.running = FALSE
  /\ View(t) = View([s EXCEPT !.running = FALSE, !.ticker = FALSE])

\* What a step may do to the one node that takes it.
NodeStep(n, t) ==
  LET s == node[n] IN
  \/ asked' = asked /\ s.running /\ Turn(s, t)
  \/ asked' = asked /\ s.running /\ Snaps(s, t)
  \/ asked' = asked /\ s.running /\ Stops(s, t)
  \/ asked' = asked /\ Restarts(s, t)
  \/ \E r \in Request \ asked : /\ asked' = asked \cup {r} /\ s.running
                                /\ Accepts(s, t, r) \/ Declines(s, t, r)

LEMMA ContinueStep ==
  ASSUME NEW n \in Node, NEW s \in NodeState, NEW rest, Continue(n, s, rest)
  PROVE  /\ node' = [node EXCEPT ![n] = Cleaned(s)]
         /\ Cleaned(s) \in NodeState /\ View(Cleaned(s)) = View(s)
BY CleanedType, ViewOfSends DEF Continue, Cleaned

LEMMA ReceiveSteps ==
  ASSUME TypeInv, NEW n \in Node, ReceiveAny(n)
  PROVE  \E t \in NodeState : node' = [node EXCEPT ![n] = t] /\ NodeStep(n, t)
<1> DEFINE s == node[n]
           m == Head(inbox[n])
<1>1. s \in NodeState /\ s.id = n
  BY DEF TypeInv
<1>2. inbox[n] # <<>> /\ s.running
  BY DEF ReceiveAny, Receives, ReceiveRequestVote, ReceiveRequestVoteResponse,
         ReceivePreVote, ReceivePreVoteResponse, ReceiveAppendEntries,
         ReceiveAppendEntriesResponse, ReceiveInstallSnapshot, ReceiveInstallSnapshotResponse
<1>3. m \in Message
  BY <1>2, ReceivedType
<1>4. ASSUME NEW h \in NodeState, Turn(s, h), Handled(n, h)
      PROVE  \E t \in NodeState : node' = [node EXCEPT ![n] = t] /\ NodeStep(n, t)
  <2>1. Continue(n, h, Tail(inbox[n])) /\ asked' = asked
    BY <1>4 DEF Handled
  <2>2. /\ node' = [node EXCEPT ![n] = Cleaned(h)]
        /\ Cleaned(h) \in NodeState /\ View(Cleaned(h)) = View(h)
    BY <1>4, <2>1, ContinueStep
  <2>3. Turn(s, Cleaned(h))
    BY <1>4, <2>2, TurnView
  <2> QED BY <1>2, <2>1, <2>2, <2>3 DEF NodeStep
<1>5. CASE ReceiveRequestVote(n)
  <2>1. m \in RequestVoteMsg
    BY <1>3, <1>5, MessageFields DEF ReceiveRequestVote, Receives
  <2> DEFINE v == Voted(s, m)
             r == VoteAnswer(s, m)
  <2>2. v \in NodeState /\ r \in RequestVoteResponseMsg /\ m.from \in Node
    BY <1>1, <2>1, VotedType DEF RequestVoteMsg
  <2>3. Handled(n, Send(v, m.from, r))
    BY <1>5, HandleRequestVoteIs DEF ReceiveRequestVote
  <2>4. Turn(s, v)
    BY <1>1, <2>1, VotedTurn DEF Turn
  <2> HIDE DEF v, r, m, s
  <2>5. Cleaned(Send(v, m.from, r)) = Cleaned(v)
    BY <2>2, VotedOut
  <2>6. node' = [node EXCEPT ![n] = Cleaned(v)] /\ asked' = asked
    BY <2>3, <2>5 DEF Handled, Continue, Cleaned
  <2>7. Cleaned(v) \in NodeState /\ View(Cleaned(v)) = View(v)
    BY <2>2, CleanedType, ViewOfSends
  <2>8. Turn(s, Cleaned(v))
    BY <2>4, <2>7, TurnView
  <2> QED BY <1>2, <2>6, <2>7, <2>8 DEF NodeStep, s
<1>6. CASE ReceiveRequestVoteResponse(n)
  <2>1. m \in RequestVoteResponseMsg
    BY <1>3, <1>6, MessageFields DEF ReceiveRequestVoteResponse, Receives
  <2> QED BY <1>1, <1>4, <1>6, <2>1, HandlersKeepIdentity, ElectionTurns
          DEF Turn, ReceiveRequestVoteResponse
<1>7. CASE ReceivePreVote(n)
  <2>1. m \in PreVoteMsg
    BY <1>3, <1>7, MessageFields DEF ReceivePreVote, Receives
  <2> QED BY <1>1, <1>4, <1>7, <2>1, HandlersKeepIdentity, ElectionTurns
          DEF Turn, ReceivePreVote
<1>8. CASE ReceivePreVoteResponse(n)
  <2>1. m \in PreVoteResponseMsg
    BY <1>3, <1>8, MessageFields DEF ReceivePreVoteResponse, Receives
  <2> QED BY <1>1, <1>4, <1>8, <2>1, HandlersKeepIdentity, ElectionTurns
          DEF Turn, ReceivePreVoteResponse
<1>9. CASE ReceiveAppendEntries(n)
  <2>1. m \in AppendEntriesMsg
    BY <1>3, <1>9, MessageFields DEF ReceiveAppendEntries, Receives
  <2> QED BY <1>1, <1>4, <1>9, <2>1, HandlersKeepIdentity, LeaderMailTurns
          DEF ReceiveAppendEntries
<1>10. CASE ReceiveAppendEntriesResponse(n)
  <2>1. m \in AppendEntriesResponseMsg
    BY <1>3, <1>10, MessageFields DEF ReceiveAppendEntriesResponse, Receives
  <2> QED BY <1>1, <1>4, <1>10, <2>1, HandlersKeepIdentity, ResponseTurns
          DEF Turn, ReceiveAppendEntriesResponse
<1>11. CASE ReceiveInstallSnapshot(n)
  <2>1. m \in InstallSnapshotMsg
    BY <1>3, <1>11, MessageFields DEF ReceiveInstallSnapshot, Receives
  <2> QED BY <1>1, <1>4, <1>11, <2>1, HandlersKeepIdentity, LeaderMailTurns
          DEF ReceiveInstallSnapshot
<1>12. CASE ReceiveInstallSnapshotResponse(n)
  <2>1. m \in InstallSnapshotResponseMsg
    BY <1>3, <1>12, MessageFields DEF ReceiveInstallSnapshotResponse, Receives
  <2> QED BY <1>1, <1>4, <1>12, <2>1, HandlersKeepIdentity, ResponseTurns
          DEF Turn, ReceiveInstallSnapshotResponse
<1> QED BY <1>5, <1>6, <1>7, <1>8, <1>9, <1>10, <1>11, <1>12 DEF ReceiveAny

LEMMA TimerSteps ==
  ASSUME TypeInv, NEW n \in Node, ElectionTimeout(n) \/ HeartbeatTick(n)
  PROVE  \E t \in NodeState : node' = [node EXCEPT ![n] = t] /\ NodeStep(n, t)
<1> DEFINE s == node[n]
<1>1. s \in NodeState /\ s.id = n /\ s.running
  BY DEF TypeInv, ElectionTimeout, HeartbeatTick
<1>2. ASSUME NEW h \in NodeState, Turn(s, h), Continue(n, h, inbox[n]), asked' = asked
      PROVE  \E t \in NodeState : node' = [node EXCEPT ![n] = t] /\ NodeStep(n, t)
  <2>1. /\ node' = [node EXCEPT ![n] = Cleaned(h)]
        /\ Cleaned(h) \in NodeState /\ View(Cleaned(h)) = View(h)
    BY <1>2, ContinueStep
  <2>2. Turn(s, Cleaned(h))
    BY <1>2, <2>1, TurnView
  <2> QED BY <1>1, <1>2, <2>1, <2>2 DEF NodeStep
<1>3. CASE ElectionTimeout(n)
  <2> DEFINE x == [s EXCEPT !.ticker = FALSE]
             u == IF x.role = "leader" THEN x ELSE StartElection(x)
  <2>1. x \in NodeState
    BY <1>1, TickUsed
  <2>2. /\ Work(x) = Work(s) /\ x.learners = s.learners /\ x.role = s.role
        /\ x.currentTerm = s.currentTerm /\ x.id = s.id
    BY <1>1 DEF NodeState, Work
  <2>3. Continue(n, u, inbox[n]) /\ asked' = asked
    BY <1>3 DEF ElectionTimeout
  <2>4. s.currentTerm \in Nat
    BY <1>1 DEF NodeState
  <2> HIDE DEF x, s
  <2>5. u \in NodeState
    BY <2>1, StartElectionType
  <2>6. Quiet(s, u)
    <3>1. CASE x.role = "leader"
      BY <2>2, <2>4, <3>1 DEF Quiet
    <3>2. CASE x.role # "leader"
      <4>1. u = StartElection(x)
        BY <3>2
      <4>2. CASE u = x /\ x.id \in x.learners
        BY <2>2, <2>4, <3>2, <4>2 DEF Quiet
      <4>3. CASE Campaigns(x, u)
        BY <2>2, <4>3 DEF Quiet, Campaigns
      <4> HIDE DEF u
      <4> QED BY <2>1, <3>2, <4>1, <4>2, <4>3, StartElectionView
    <3> QED BY <3>1, <3>2
  <2> HIDE DEF u
  <2>7. Turn(s, u)
    BY <2>6 DEF Turn, Minor
  <2> QED BY <1>2, <2>3, <2>5, <2>7
<1>4. CASE HeartbeatTick(n)
  <2>1. ReplicateToPeers(s) \in NodeState /\ View(ReplicateToPeers(s)) = View(s)
    BY <1>1, ReplicateToPeersType, ViewOfSends
  <2>2. Continue(n, ReplicateToPeers(s), inbox[n]) /\ asked' = asked
    BY <1>4 DEF HeartbeatTick
  <2>3. Turn(s, ReplicateToPeers(s))
    BY <1>1, <2>1, QuietSelf DEF Turn, Minor
  <2> HIDE DEF s
  <2> QED BY <1>2, <2>1, <2>2, <2>3
<1> QED BY <1>3, <1>4

LEMMA AcceptsView ==
  ASSUME NEW s, NEW t, NEW v, NEW r, Accepts(s, t, r) \/ Declines(s, t, r), View(v) = View(t)
  PROVE  Accepts(s, v, r) \/ Declines(s, v, r)
BY LeadsView DEF Accepts, Declines

LEMMA ClientSteps ==
  ASSUME TypeInv, NEW n \in Node, (\E r \in Request : Ask(n, r)) \/ SnapshotNow(n)
  PROVE  \E t \in NodeState : node' = [node EXCEPT ![n] = t] /\ NodeStep(n, t)
<1> DEFINE s == node[n]
<1>1. s \in NodeState /\ s.running
  BY DEF TypeInv, Ask, SnapshotNow
<1>2. CASE \E r \in Request : Ask(n, r)
  <2>1. PICK r \in Request : Ask(n, r)
    BY <1>2
  <2> DEFINE h == ClientAppend(s, r)
  <2>2. h \in NodeState /\ (Accepts(s, h, r) \/ Declines(s, h, r))
    BY <1>1, ClientAppendType, ClientAppendView
  <2>3. Continue(n, h, inbox[n]) /\ r \notin asked /\ asked' = asked \cup {r}
    BY <2>1 DEF Ask
  <2> HIDE DEF h
  <2>4. /\ node' = [node EXCEPT ![n] = Cleaned(h)]
        /\ Cleaned(h) \in NodeState /\ View(Cleaned(h)) = View(h)
    BY <2>2, <2>3, ContinueStep
  <2>5. Accepts(s, Cleaned(h), r) \/ Declines(s, Cleaned(h), r)
    BY <2>2, <2>4, AcceptsView
  <2> QED BY <1>1, <2>3, <2>4, <2>5 DEF NodeStep
<1>3. CASE SnapshotNow(n)
  <2> DEFINE h == DoSnapshot(s)
  <2>1. h \in NodeState /\ Snaps(s, h)
    BY <1>1, DoSnapshotType, DoSnapshotView
  <2>2. Continue(n, h, inbox[n]) /\ asked' = asked
    BY <1>3 DEF SnapshotNow
  <2> HIDE DEF h
  <2>3. /\ node' = [node EXCEPT ![n] = Cleaned(h)]
        /\ Cleaned(h) \in NodeState /\ View(Cleaned(h)) = View(h)
    BY <2>1, <2>2, ContinueStep
  <2>4. Snaps(s, Cleaned(h))
    BY <2>1, <2>3 DEF Snaps, View, Work, Seat
  <2> QED BY <1>1, <2>2, <2>3, <2>4 DEF NodeStep
<1> QED BY <1>2, <1>3

LEMMA StopStartNodeSteps ==
  ASSUME TypeInv, NEW n \in Node, Stop(n) \/ Start(n)
  PROVE  \E t \in NodeState : node' = [node EXCEPT ![n] = t] /\ NodeStep(n, t)
<1> DEFINE s == node[n]
<1>1. s \in NodeState /\ node \in [Node -> NodeState]
  BY DEF TypeInv
<1>2. CASE Stop(n)
  <2> DEFINE w == [s EXCEPT !.running = FALSE, !.ticker = FALSE]
  <2>1. w \in NodeState /\ w.running = FALSE
    BY <1>1 DEF NodeState
  <2>2. node' = [node EXCEPT ![n] = w]
    BY <1>1, <1>2 DEF Stop
  <2>3. s.running /\ asked' = asked
    BY <1>2 DEF Stop
  <2>4. Stops(s, w)
    BY <2>1 DEF Stops
  <2> HIDE DEF w
  <2> QED BY <2>1, <2>2, <2>3, <2>4 DEF NodeStep
<1>3. CASE Start(n)
  <2> DEFINE w == NewState(n, TRUE, s.currentTerm, s.votedFor, s.log, s.snap,
                           s.replies, s.ballots, s.elected)
  <2>1. node' = [node EXCEPT ![n] = w] /\ asked' = asked /\ ~ s.running
    BY <1>3 DEF Start
  <2>2. PICK v \in NodeState : node' = [node EXCEPT ![n] = v]
    BY <1>3, StartIs
  <2>3. w = v
    BY <1>1, <2>1, <2>2
  <2>4. Restarts(s, w)
    BY <2>1 DEF Restarts, NewState
  <2> HIDE DEF w
  <2> QED BY <2>1, <2>2, <2>3, <2>4 DEF NodeStep
<1> QED BY <1>2, <1>3

\* Every step of the system leaves all nodes alone, or all but one.
LEMMA NodeSteps ==
  ASSUME TypeInv, [Next]_vars
  PROVE  \/ node' = node /\ asked' = asked
         \/ \E n \in Node, t \in NodeState : node' = [node EXCEPT ![n] = t] /\ NodeStep(n, t)
<1>1. CASE \E n \in Node : ReceiveAny(n)
  BY <1>1, ReceiveSteps
<1>2. CASE \E n \in Node : ElectionTimeout(n) \/ HeartbeatTick(n)
  BY <1>2, TimerSteps
<1>3. CASE \E n \in Node : (\E r \in Request : Ask(n, r)) \/ SnapshotNow(n)
  BY <1>3, ClientSteps
<1>4. CASE \E n \in Node : Stop(n) \/ Start(n)
  BY <1>4, StopStartNodeSteps
<1>5. CASE \E a, b \in Node : Partition(a, b) \/ Heal(a, b)
  BY <1>5 DEF Partition, Heal
<1>6. CASE UNCHANGED vars
  BY <1>6 DEF vars
<1> QED BY <1>1, <1>2, <1>3, <1>4, <1>5, <1>6 DEF Next

(***************************************************************************)
(* What the kinds of step have in common.                                  *)
(***************************************************************************)

\* Nothing in a log lies past its last index.
LEMMA LastIndexBounds ==
  ASSUME NEW s \in NodeState
  PROVE  \A k \in DOMAIN s.log : k \in Nat /\ k <= LogLastIndex(s)
<1>1. s.log \in Log
  BY DEF NodeState
<1>2. DOMAIN s.log \in SUBSET Index /\ IsFiniteSet(DOMAIN s.log)
  BY <1>1 DEF Log, FiniteIndexSet
<1>3. DOMAIN s.log \in SUBSET Int
  BY <1>2 DEF Index
<1>4. SUFFICES ASSUME NEW k \in DOMAIN s.log PROVE k \in Nat /\ k <= LogLastIndex(s)
  OBVIOUS
<1>5. Max(DOMAIN s.log) \in DOMAIN s.log /\ Max(DOMAIN s.log) >= k
  BY <1>2, <1>3, MaxIsMember
<1> QED BY <1>2, <1>5 DEF LogLastIndex, Index

LEMMA AtCommit ==
  ASSUME NEW s \in NodeState, NEW k \in Nat
  PROVE  LET x == [s EXCEPT !.commitIndex = k]
         IN  /\ x \in NodeState /\ x.commitIndex = k
             /\ x.id = s.id /\ x.running = s.running /\ x.role = s.role
             /\ x.currentTerm = s.currentTerm /\ x.ticker = s.ticker
             /\ x.lastApplied = s.lastApplied /\ x.log = s.log /\ x.snap = s.snap
             /\ x.sm = s.sm /\ x.pending = s.pending /\ x.replies = s.replies
BY DEF NodeState

LEMMA WithLog ==
  ASSUME NEW s \in NodeState, NEW es \in Log
  PROVE  LET x == [s EXCEPT !.log = LogAppendAll(s.log, es)]
         IN  /\ x \in NodeState /\ x.log = LogAppendAll(s.log, es)
             /\ x.id = s.id /\ x.running = s.running /\ x.role = s.role
             /\ x.currentTerm = s.currentTerm /\ x.ticker = s.ticker
             /\ x.commitIndex = s.commitIndex /\ x.learners = s.learners
             /\ x.lastApplied = s.lastApplied /\ x.snap = s.snap
             /\ x.sm = s.sm /\ x.pending = s.pending /\ x.replies = s.replies
<1>1. LogAppendAll(s.log, es) \in Log
  BY LogAppendAllType DEF NodeState
<1> QED BY <1>1 DEF NodeState

\* The leader's table with a new entry, before anything is committed.
Extended(s, r) ==
  [s EXCEPT !.log = LogAppendAll(s.log, [j \in {LogLastIndex(s) + 1} |-> EntryFor(s, r)]),
            !.pending = [j \in DOMAIN s.pending \cup {LogLastIndex(s) + 1} |->
                           IF j = LogLastIndex(s) + 1 THEN r ELSE s.pending[j]]]

LEMMA ExtendedFacts ==
  ASSUME NEW s \in NodeState, NEW r \in Request
  PROVE  LET a == Extended(s, r)
             k == LogLastIndex(s) + 1
         IN  /\ a \in NodeState /\ k \in Index /\ k \notin DOMAIN s.log
             /\ a.id = s.id /\ a.running = s.running /\ a.role = s.role
             /\ a.currentTerm = s.currentTerm /\ a.ticker = s.ticker
             /\ a.commitIndex = s.commitIndex /\ a.lastApplied = s.lastApplied
             /\ a.snap = s.snap /\ a.sm = s.sm /\ a.replies = s.replies
             /\ DOMAIN a.log = DOMAIN s.log \cup {k}
             /\ a.log[k] = EntryFor(s, r)
             /\ \A j \in DOMAIN s.log : a.log[j] = s.log[j]
             /\ DOMAIN a.pending = DOMAIN s.pending \cup {k}
             /\ a.pending[k] = r
             /\ \A j \in DOMAIN s.pending : j # k => a.pending[j] = s.pending[j]
<1> DEFINE k == LogLastIndex(s) + 1
           es == [j \in {k} |-> EntryFor(s, r)]
           log == LogAppendAll(s.log, es)
           pend == [j \in DOMAIN s.pending \cup {k} |-> IF j = k THEN r ELSE s.pending[j]]
<1>1. k \in Index /\ k \notin DOMAIN s.log
  BY LogLastIndexType, LastIndexBounds DEF Index
<1>2. es \in Log
  <2>1. {k} \in FiniteIndexSet
    BY <1>1, FS_Singleton DEF FiniteIndexSet
  <2>2. es \in [{k} -> Entry]
    BY EntryForType
  <2> QED BY <2>1, <2>2 DEF Log
<1>3. s.log \in Log /\ s.pending \in Pending
  BY DEF NodeState
<1>4. log \in Log
  BY <1>2, <1>3, LogAppendAllType
<1>5. pend \in Pending
  <2>1. PICK D \in SUBSET Index : s.pending \in [D -> Request]
    BY <1>3 DEF Pending
  <2>2. D \cup {k} \in SUBSET Index
    BY <1>1
  <2>3. pend \in [D \cup {k} -> Request]
    BY <2>1
  <2> QED BY <2>2, <2>3 DEF Pending
<1>6. /\ DOMAIN log = DOMAIN s.log \cup {k} /\ log[k] = EntryFor(s, r)
      /\ \A j \in DOMAIN s.log : log[j] = s.log[j]
  <2> HIDE DEF k
  <2>1. {i \in DOMAIN es \cap DOMAIN s.log : es[i].term # s.log[i].term} = {}
    BY <1>1
  <2>2. log = [i \in DOMAIN s.log \cup {k} |-> IF i \in DOMAIN s.log THEN s.log[i] ELSE es[i]]
    BY <2>1 DEF LogAppendAll
  <2> HIDE DEF log
  <2> QED BY <1>1, <2>2
<1>7. Extended(s, r) = [s EXCEPT !.log = log, !.pending = pend]
  BY DEF Extended
<1>8. /\ DOMAIN pend = DOMAIN s.pending \cup {k} /\ pend[k] = r
      /\ \A j \in DOMAIN s.pending : j # k => pend[j] = s.pending[j]
  OBVIOUS
<1> HIDE DEF k, log, pend
<1>9. LET a == Extended(s, r)
      IN  /\ a \in NodeState /\ a.log = log /\ a.pending = pend
          /\ a.id = s.id /\ a.running = s.running /\ a.role = s.role
          /\ a.currentTerm = s.currentTerm /\ a.ticker = s.ticker
          /\ a.commitIndex = s.commitIndex /\ a.lastApplied = s.lastApplied
          /\ a.snap = s.snap /\ a.sm = s.sm /\ a.replies = s.replies
  BY ZenonT(60), <1>4, <1>5, <1>7 DEF NodeState
<1> HIDE DEF es
<1> QED BY <1>1, <1>6, <1>8, <1>9 DEF k

LEMMA AcceptsIs ==
  ASSUME NEW s, NEW t, NEW r
  PROVE  Accepts(s, t, r) <=> s.role = "leader" /\ Leads(Extended(s, r), t)
BY DEF Accepts, Extended

\* Every entry of s that t has not compacted is still there.
KeepsLog(s, t) ==
  \A k \in DOMAIN s.log : k > t.snap.index => k \in DOMAIN t.log /\ t.log[k] = s.log[k]

\* Some of what s owes is answered, once, and no longer owed.
Settles(s, t) ==
  /\ \A k \in DOMAIN t.pending : k \in DOMAIN s.pending /\ t.pending[k] = s.pending[k]
  /\ \A r \in Request :
       \/ t.replies[r] = s.replies[r]
       \/ /\ \E k \in DOMAIN s.pending \ DOMAIN t.pending : s.pending[k] = r
          /\ \E o \in Outcome : t.replies[r] = Append(s.replies[r], o)

LEMMA AppliesFacts ==
  ASSUME NEW s \in NodeState, NEW t \in NodeState, Applies(s, t)
  PROVE  /\ t.lastApplied >= s.lastApplied
         /\ t.commitIndex = s.commitIndex /\ t.commitIndex <= t.lastApplied
         /\ KeepsLog(s, t)
         /\ Settles(s, t)
         /\ \A k \in DOMAIN t.pending :
              k \in DOMAIN s.log /\ k > s.lastApplied => k > t.lastApplied
<1>1. s.lastApplied \in Nat /\ s.commitIndex \in Nat
  BY DEF NodeState
<1>2. t.lastApplied >= s.lastApplied /\ t.commitIndex = s.commitIndex
      /\ t.commitIndex <= t.lastApplied
  <2>1. /\ t.commitIndex = s.commitIndex
        /\ \/ s.commitIndex <= s.lastApplied /\ t.lastApplied = s.lastApplied
           \/ s.commitIndex > s.lastApplied /\ t.lastApplied = s.commitIndex
    BY DEF Applies
  <2> QED BY <1>1, <2>1
<1>3. KeepsLog(s, t)
  <2>1. Compacts(s, t) => KeepsLog(s, t)
    <3> DEFINE D == {j \in DOMAIN s.log : j > t.snap.index}
    <3>1. t.log = Restrict(s.log, D) => KeepsLog(s, t)
      BY DEF KeepsLog, Restrict
    <3> QED BY <3>1 DEF Compacts, KeepsLog
  <2>2. t.log = s.log => KeepsLog(s, t)
    BY DEF KeepsLog
  <2> QED BY <2>1, <2>2 DEF Applies
<1>4. CASE t.pending = s.pending /\ t.replies = s.replies /\ t.lastApplied = s.lastApplied
  BY <1>2, <1>3, <1>4 DEF Settles
<1>5. CASE /\ s.commitIndex > s.lastApplied /\ t.lastApplied = s.commitIndex
           /\ t.pending = Restrict(s.pending, DOMAIN s.pending \ Done(s))
           /\ t.replies = Answer(s, {r \in Request : \E k \in Done(s) : s.pending[k] = r}, "ok")
  <2>1. /\ DOMAIN t.pending = DOMAIN s.pending \ Done(s)
        /\ \A k \in DOMAIN t.pending : t.pending[k] = s.pending[k]
    BY <1>5 DEF Restrict
  <2>2. Done(s) \subseteq DOMAIN s.pending
    BY DEF Done
  <2>3. ASSUME NEW r \in Request
        PROVE  \/ t.replies[r] = s.replies[r]
               \/ /\ \E k \in DOMAIN s.pending \ DOMAIN t.pending : s.pending[k] = r
                  /\ \E o \in Outcome : t.replies[r] = Append(s.replies[r], o)
    <3>1. CASE \E k \in Done(s) : s.pending[k] = r
      <4>1. t.replies[r] = Append(s.replies[r], "ok")
        BY <1>5, <3>1 DEF Answer
      <4>2. \E k \in DOMAIN s.pending \ DOMAIN t.pending : s.pending[k] = r
        BY <2>1, <2>2, <3>1
      <4> QED BY <4>1, <4>2 DEF Outcome
    <3>2. CASE ~ \E k \in Done(s) : s.pending[k] = r
      BY <1>5, <3>2 DEF Answer
    <3> QED BY <3>1, <3>2
  <2>4. Settles(s, t)
    BY <2>1, <2>3 DEF Settles
  <2>5. ASSUME NEW k \in DOMAIN t.pending, k \in DOMAIN s.log, k > s.lastApplied
        PROVE  k > t.lastApplied
    <3>1. k \in DOMAIN s.pending /\ k \notin Done(s)
      BY <2>1
    <3>2. k \in Nat
      BY <2>5, LastIndexBounds
    <3> QED BY <1>1, <1>5, <2>5, <3>1, <3>2 DEF Done
  <2> QED BY <1>2, <1>3, <2>4, <2>5
<1> QED BY <1>4, <1>5 DEF Applies

LEMMA LeadsFacts ==
  ASSUME NEW s \in NodeState, NEW t \in NodeState, Leads(s, t)
  PROVE  /\ t.id = s.id /\ t.running = s.running /\ t.role = s.role
         /\ t.currentTerm = s.currentTerm /\ t.ticker = s.ticker
         /\ t.lastApplied >= s.lastApplied /\ t.commitIndex >= s.commitIndex
         /\ t.commitIndex <= t.lastApplied
         /\ KeepsLog(s, t)
         /\ Settles(s, t)
         /\ \A k \in DOMAIN t.pending :
              k \in DOMAIN s.log /\ k > s.lastApplied => k > t.lastApplied
<1>1. PICK k \in Nat : k >= s.commitIndex /\ Applies([s EXCEPT !.commitIndex = k], t)
  BY DEF Leads
<1> DEFINE x == [s EXCEPT !.commitIndex = k]
<1>2. /\ x \in NodeState /\ x.commitIndex = k
      /\ x.id = s.id /\ x.running = s.running /\ x.role = s.role
      /\ x.currentTerm = s.currentTerm /\ x.ticker = s.ticker
      /\ x.lastApplied = s.lastApplied /\ x.log = s.log /\ x.snap = s.snap
      /\ x.sm = s.sm /\ x.pending = s.pending /\ x.replies = s.replies
  BY AtCommit
<1>3. Applies(x, t)
  BY <1>1
<1> HIDE DEF x
<1>4. /\ t.lastApplied >= x.lastApplied
      /\ t.commitIndex = x.commitIndex /\ t.commitIndex <= t.lastApplied
      /\ KeepsLog(x, t)
      /\ Settles(x, t)
      /\ \A j \in DOMAIN t.pending :
           j \in DOMAIN x.log /\ j > x.lastApplied => j > t.lastApplied
  BY <1>2, <1>3, AppliesFacts
<1>5. KeepsLog(s, t) /\ Settles(s, t)
  BY <1>2, <1>4 DEF KeepsLog, Settles
<1>6. /\ t.id = x.id /\ t.running = x.running /\ t.role = x.role
      /\ t.currentTerm = x.currentTerm /\ t.ticker = x.ticker
  BY <1>3 DEF Applies
<1> QED BY <1>1, <1>2, <1>4, <1>5, <1>6

(***************************************************************************)
(* The election timer.                                                     *)
(***************************************************************************)
Ticks(s) == s.running /\ s.role = "follower" /\ s.id \notin s.learners => s.ticker

\* A follower's table after following and obeying, or installing.
LEMMA ObeysFacts ==
  ASSUME NEW s \in NodeState, NEW t \in NodeState, NEW m \in AppendEntriesMsg,
         Obeys(s, t, m.entries, m.commit)
  PROVE  /\ t.id = s.id /\ t.running = s.running /\ t.role = s.role
         /\ t.currentTerm = s.currentTerm /\ t.ticker = s.ticker
         /\ t.lastApplied >= s.lastApplied
         /\ Settles(s, t)
<1> DEFINE a == [s EXCEPT !.log = LogAppendAll(s.log, m.entries)]
           j == Smaller(m.commit, LogLastIndex(a))
           x == [a EXCEPT !.commitIndex = j]
<1>1. m.entries \in Log /\ m.commit \in Nat /\ s.lastApplied \in Nat
  BY DEF AppendEntriesMsg, NodeState
<1>2. /\ a \in NodeState /\ a.id = s.id /\ a.running = s.running /\ a.role = s.role
      /\ a.currentTerm = s.currentTerm /\ a.ticker = s.ticker
      /\ a.lastApplied = s.lastApplied /\ a.pending = s.pending /\ a.replies = s.replies
  BY <1>1, WithLog
<1>3. \/ View(t) = View(a)
      \/ Applies(x, t)
  BY DEF Obeys
<1> HIDE DEF a
<1>4. j \in Nat
  BY <1>1, <1>2, LogLastIndexType DEF Smaller
<1>5. /\ x \in NodeState /\ x.id = a.id /\ x.running = a.running /\ x.role = a.role
      /\ x.currentTerm = a.currentTerm /\ x.ticker = a.ticker
      /\ x.lastApplied = a.lastApplied /\ x.pending = a.pending /\ x.replies = a.replies
  BY <1>2, <1>4, AtCommit
<1> HIDE DEF x, j
<1>6. CASE View(t) = View(a)
  <2>1. /\ t.id = s.id /\ t.running = s.running /\ t.role = s.role
        /\ t.currentTerm = s.currentTerm /\ t.ticker = s.ticker
        /\ t.lastApplied = s.lastApplied /\ t.pending = s.pending /\ t.replies = s.replies
    BY <1>2, <1>6 DEF View, Work, Seat
  <2> QED BY <1>1, <2>1 DEF Settles
<1>7. CASE Applies(x, t)
  <2>1. /\ t.id = x.id /\ t.running = x.running /\ t.role = x.role
        /\ t.currentTerm = x.currentTerm /\ t.ticker = x.ticker
    BY <1>7 DEF Applies
  <2>2. t.lastApplied >= x.lastApplied /\ Settles(x, t)
    BY <1>5, <1>7, AppliesFacts
  <2>3. Settles(s, t)
    BY <1>2, <1>5, <2>2 DEF Settles
  <2> QED BY <1>2, <1>5, <2>1, <2>2, <2>3
<1> QED BY <1>3, <1>6, <1>7

LEMMA TurnKeepsTicks ==
  ASSUME NEW s \in NodeState, NEW t \in NodeState, Ticks(s), Turn(s, t)
  PROVE  Ticks(t)
<1>1. CASE Quiet(s, t)
  BY <1>1 DEF Ticks, Quiet, Work
<1>2. CASE Follows(s, t)
  BY <1>2 DEF Ticks, Follows
<1>3. CASE \E u \in NodeState, m \in AppendEntriesMsg :
             Follows(s, u) /\ Obeys(u, t, m.entries, m.commit)
  <2>1. PICK u \in NodeState, m \in AppendEntriesMsg :
          Follows(s, u) /\ Obeys(u, t, m.entries, m.commit)
    BY <1>3
  <2>2. t.ticker = u.ticker
    BY <2>1, ObeysFacts
  <2> QED BY <2>1, <2>2 DEF Ticks, Follows
<1>4. CASE \E u \in NodeState, m \in InstallSnapshotMsg : Follows(s, u) /\ Installs(u, t, m)
  BY <1>4 DEF Ticks, Follows, Installs
<1>5. CASE s.role = "leader" /\ Leads(s, t)
  <2>1. t.role = "leader"
    BY <1>5, LeadsFacts
  <2> QED BY <2>1 DEF Ticks
<1> QED BY <1>1, <1>2, <1>3, <1>4, <1>5 DEF Turn, Minor

LEMMA TicksStep ==
  ASSUME TypeInv, \A n \in Node : Ticks(node[n]), [Next]_vars
  PROVE  \A n \in Node : Ticks(node'[n])
<1>1. node \in [Node -> NodeState]
  BY DEF TypeInv
<1>2. ASSUME NEW n \in Node, NEW t \in NodeState, NodeStep(n, t)
      PROVE  Ticks(t)
  <2> DEFINE s == node[n]
  <2>1. s \in NodeState /\ Ticks(s)
    BY <1>1
  <2>2. CASE Turn(s, t)
    BY <2>1, <2>2, TurnKeepsTicks
  <2>3. CASE Snaps(s, t)
    BY <2>1, <2>3 DEF Snaps, Seat, Ticks
  <2>4. CASE Stops(s, t)
    BY <2>4 DEF Stops, Ticks
  <2>5. CASE Restarts(s, t)
    BY <2>5 DEF Restarts, Ticks
  <2>6. ASSUME NEW r \in Request, Accepts(s, t, r) PROVE Ticks(t)
    <3>1. s.role = "leader" /\ Leads(Extended(s, r), t)
      BY <2>6, AcceptsIs
    <3>2. Extended(s, r) \in NodeState /\ Extended(s, r).role = s.role
      BY <2>1, ExtendedFacts
    <3>3. t.role = "leader"
      BY <3>1, <3>2, LeadsFacts
    <3> QED BY <3>3 DEF Ticks
  <2>7. ASSUME NEW r \in Request, Declines(s, t, r) PROVE Ticks(t)
    <3> DEFINE d == [s.replies EXCEPT ![r] = Append(@, "not-leader")]
    <3>1. View(t) = View([s EXCEPT !.replies = d])
      BY <2>7 DEF Declines
    <3> HIDE DEF d
    <3>2. /\ t.id = s.id /\ t.running = s.running /\ t.role = s.role
          /\ t.learners = s.learners /\ t.ticker = s.ticker
      BY <2>1, <3>1 DEF NodeState, View, Work, Seat
    <3> QED BY <2>1, <3>2 DEF Ticks
  <2> HIDE DEF s
  <2> QED BY <1>2, <2>2, <2>3, <2>4, <2>5, <2>6, <2>7 DEF NodeStep, s
<1> QED BY <1>1, <1>2, NodeSteps

LEMMA TicksInit == Init => \A n \in Node : Ticks(node[n])
BY DEF Init, NewState, Ticks

\* For every cluster, workload and bound: a running voter that follows always
\* has a tick to come, whatever made it follow (a message of a later term, a
\* vote, a leader, a restart) and whatever changed the membership meanwhile.
THEOREM FollowersTick == Spec => []FollowerHasTicker
<1> DEFINE Inv == TypeInv /\ \A n \in Node : Ticks(node[n])
<1>1. Init => Inv
  BY InitType, TicksInit
<1>2. Inv /\ [Next]_vars => Inv'
  <2> SUFFICES ASSUME Inv, [Next]_vars PROVE Inv'
    OBVIOUS
  <2>1. TypeInv'
    BY NextType
  <2>2. \A n \in Node : Ticks(node'[n])
    BY TicksStep
  <2> QED BY <2>1, <2>2 DEF Ticks
<1>3. Inv => FollowerHasTicker
  BY DEF TypeInv, Ticks, FollowerHasTicker
<1> QED BY <1>1, <1>2, <1>3, PTL DEF Spec

(***************************************************************************)
(* The log of a leader.                                                    *)
(***************************************************************************)
LEMMA DeclinesFacts ==
  ASSUME NEW s \in NodeState, NEW t, NEW r \in Request, Declines(s, t, r)
  PROVE  /\ s.role # "leader"
         /\ t.id = s.id /\ t.running = s.running /\ t.role = s.role
         /\ t.currentTerm = s.currentTerm /\ t.commitIndex = s.commitIndex
         /\ t.lastApplied = s.lastApplied /\ t.log = s.log /\ t.snap = s.snap
         /\ t.sm = s.sm /\ t.pending = s.pending
         /\ t.replies[r] = Append(s.replies[r], "not-leader")
         /\ \A q \in Request : q # r => t.replies[q] = s.replies[q]
<1> DEFINE d == [s.replies EXCEPT ![r] = Append(@, "not-leader")]
<1>1. s.role # "leader" /\ View(t) = View([s EXCEPT !.replies = d])
  BY DEF Declines
<1> HIDE DEF d
<1>2. /\ t.id = s.id /\ t.running = s.running /\ t.role = s.role
      /\ t.currentTerm = s.currentTerm /\ t.commitIndex = s.commitIndex
      /\ t.lastApplied = s.lastApplied /\ t.log = s.log /\ t.snap = s.snap
      /\ t.sm = s.sm /\ t.pending = s.pending /\ t.replies = d
  BY <1>1 DEF NodeState, View, Work, Seat
<1>3. s.replies \in [Request -> Seq(Outcome)]
  BY DEF NodeState, Replies
<1>4. /\ d[r] = Append(s.replies[r], "not-leader")
      /\ \A q \in Request : q # r => d[q] = s.replies[q]
  BY <1>3 DEF d
<1> QED BY <1>1, <1>2, <1>4

LEMMA InstallsRole ==
  ASSUME NEW s, NEW t, NEW u, NEW m, Follows(s, u), Installs(u, t, m)
  PROVE  t.role = "follower"
BY DEF Follows, Installs

LEMMA ObeysRole ==
  ASSUME NEW s \in NodeState, NEW t \in NodeState, NEW u \in NodeState,
         NEW m \in AppendEntriesMsg, Follows(s, u), Obeys(u, t, m.entries, m.commit)
  PROVE  t.role = "follower"
<1>1. t.role = u.role
  BY ObeysFacts
<1> QED BY <1>1 DEF Follows

LEMMA LeaderKeepsLog ==
  ASSUME TypeInv, NEW n \in Node, NEW t \in NodeState, NodeStep(n, t), t.role = "leader"
  PROVE  node[n].role = "leader" => KeepsLog(node[n], t)
<1> DEFINE s == node[n]
<1>1. s \in NodeState
  BY DEF TypeInv
<1>2. SUFFICES ASSUME s.role = "leader" PROVE KeepsLog(s, t)
  OBVIOUS
<1>3. CASE Turn(s, t)
  <2>1. CASE Quiet(s, t)
    BY <2>1 DEF Quiet, Work, KeepsLog
  <2>2. CASE Follows(s, t)
    BY <2>2 DEF Follows
  <2>3. CASE \E u \in NodeState, m \in AppendEntriesMsg :
               Follows(s, u) /\ Obeys(u, t, m.entries, m.commit)
    BY <1>1, <2>3, ObeysRole
  <2>4. CASE \E u \in NodeState, m \in InstallSnapshotMsg :
               Follows(s, u) /\ Installs(u, t, m)
    BY <2>4, InstallsRole
  <2>5. CASE Leads(s, t)
    BY <1>1, <2>5, LeadsFacts
  <2> QED BY <1>3, <2>1, <2>2, <2>3, <2>4, <2>5 DEF Turn, Minor
<1>4. CASE Snaps(s, t)
  <2> DEFINE D == {j \in DOMAIN s.log : j > t.snap.index}
  <2>1. t.log = Restrict(s.log, D)
    BY <1>4 DEF Snaps
  <2> QED BY <2>1 DEF KeepsLog, Restrict
<1>5. CASE Stops(s, t)
  <2>1. t.log = s.log
    BY <1>1, <1>5 DEF Stops, View, Work, NodeState
  <2> QED BY <2>1 DEF KeepsLog
<1>6. CASE Restarts(s, t)
  BY <1>6 DEF Restarts
<1>7. ASSUME NEW r \in Request, Accepts(s, t, r) PROVE KeepsLog(s, t)
  <2> DEFINE a == Extended(s, r)
  <2>1. /\ a \in NodeState /\ DOMAIN s.log \subseteq DOMAIN a.log
        /\ \A j \in DOMAIN s.log : a.log[j] = s.log[j]
    BY <1>1, ExtendedFacts
  <2>2. Leads(a, t)
    BY <1>7, AcceptsIs
  <2> HIDE DEF a
  <2>3. KeepsLog(a, t)
    BY <2>1, <2>2, LeadsFacts
  <2> QED BY <2>1, <2>3 DEF KeepsLog
<1>8. ASSUME NEW r \in Request, Declines(s, t, r) PROVE KeepsLog(s, t)
  BY <1>1, <1>2, <1>8, DeclinesFacts
<1> HIDE DEF s
<1> QED BY <1>3, <1>4, <1>5, <1>6, <1>7, <1>8 DEF NodeStep, s

\* For every cluster, workload and bound: while a node leads a term, none of
\* its handlers removes or overwrites an entry that it has not compacted.
THEOREM LeadersAppend == Spec => LeaderAppendOnly
<1>1. ASSUME TypeInv, [Next]_vars
      PROVE  \A n \in Node :
               LET s == node[n]  t == node'[n] IN
               s.role = "leader" /\ t.role = "leader" /\ s.currentTerm = t.currentTerm =>
                 \A k \in DOMAIN s.log :
                   k > t.snap.index => k \in DOMAIN t.log /\ t.log[k] = s.log[k]
  <2> SUFFICES ASSUME NEW n \in Node, node[n].role = "leader", node'[n].role = "leader"
               PROVE  KeepsLog(node[n], node'[n])
    BY DEF KeepsLog
  <2>1. CASE node'[n] = node[n]
    BY <2>1 DEF KeepsLog
  <2>2. ASSUME NEW p \in Node, NEW t \in NodeState,
               node' = [node EXCEPT ![p] = t], NodeStep(p, t)
        PROVE  KeepsLog(node[n], node'[n])
    <3>1. node \in [Node -> NodeState]
      BY <1>1 DEF TypeInv
    <3>2. CASE p = n
      BY <1>1, <2>2, <3>1, <3>2, LeaderKeepsLog
    <3>3. CASE p # n
      BY <2>1, <2>2, <3>1, <3>3
    <3> QED BY <3>2, <3>3
  <2> QED BY <1>1, <2>1, <2>2, NodeSteps
<1>2. TypeInv /\ [Next]_vars => 
        [\A n \in Node :
           LET s == node[n]  t == node'[n] IN
           s.role = "leader" /\ t.role = "leader" /\ s.currentTerm = t.currentTerm =>
             \A k \in DOMAIN s.log :
               k > t.snap.index => k \in DOMAIN t.log /\ t.log[k] = s.log[k]]_vars
  BY <1>1
<1> QED BY <1>2, TypeInvariant, PTL DEF Spec, LeaderAppendOnly

(***************************************************************************)
(* One answer per request.  A node's account is in order when it owes no   *)
(* request twice and none that it has answered, and has answered none      *)
(* twice.  Who is involved in a request was asked it, and it alone.        *)
(***************************************************************************)
Involved(s, r) == Owes(s, r) \/ s.replies[r] # <<>>

AccountOK(s) ==
  /\ \A j, k \in DOMAIN s.pending : s.pending[j] = s.pending[k] => j = k
  /\ \A r \in Request : Owes(s, r) => s.replies[r] = <<>>
  /\ \A r \in Request : Len(s.replies[r]) <= 1

Ledger ==
  /\ \A n \in Node : AccountOK(node[n])
  /\ \A n \in Node, r \in Request : Involved(node[n], r) => r \in asked
  /\ \A m, n \in Node, r \in Request :
       Involved(node[m], r) /\ Involved(node[n], r) => m = n

\* The account stays in order, and nobody but the requests of S is new in it.
Books(s, t, S) ==
  AccountOK(s) => AccountOK(t) /\ \A r \in Request : Involved(t, r) => Involved(s, r) \/ r \in S

LEMMA SettlesBooks ==
  ASSUME NEW s \in NodeState, NEW t \in NodeState, Settles(s, t)
  PROVE  Books(s, t, {})
<1> SUFFICES ASSUME AccountOK(s)
             PROVE  AccountOK(t) /\ \A r \in Request : Involved(t, r) => Involved(s, r)
  BY DEF Books
<1>1. \A k \in DOMAIN t.pending : k \in DOMAIN s.pending /\ t.pending[k] = s.pending[k]
  BY DEF Settles
<1>2. \A j, k \in DOMAIN s.pending : s.pending[j] = s.pending[k] => j = k
  BY DEF AccountOK
<1>3. ASSUME NEW r \in Request
      PROVE  /\ Owes(t, r) => t.replies[r] = <<>>
             /\ Len(t.replies[r]) <= 1
             /\ Involved(t, r) => Involved(s, r)
  <2>1. Owes(t, r) => Owes(s, r)
    BY <1>1 DEF Owes
  <2>2. (Owes(s, r) => s.replies[r] = <<>>) /\ Len(s.replies[r]) <= 1
    BY DEF AccountOK
  <2>3. CASE t.replies[r] = s.replies[r]
    BY <2>1, <2>2, <2>3 DEF Involved
  <2>4. CASE /\ \E k \in DOMAIN s.pending \ DOMAIN t.pending : s.pending[k] = r
             /\ \E o \in Outcome : t.replies[r] = Append(s.replies[r], o)
    <3>1. Owes(s, r)
      BY <2>4 DEF Owes
    <3>2. ~ Owes(t, r)
      BY <1>1, <1>2, <2>4 DEF Owes
    <3>3. PICK o \in Outcome : t.replies[r] = Append(s.replies[r], o)
      BY <2>4
    <3>4. t.replies[r] = Append(<<>>, o)
      BY <2>2, <3>1, <3>3
    <3>5. Len(t.replies[r]) = 1
      BY <3>4
    <3> QED BY <3>1, <3>2, <3>5 DEF Involved
  <2> QED BY <2>3, <2>4 DEF Settles
<1>4. \A j, k \in DOMAIN t.pending : t.pending[j] = t.pending[k] => j = k
  BY <1>1, <1>2
<1> QED BY <1>3, <1>4 DEF AccountOK

LEMMA FollowsSettles ==
  ASSUME NEW s \in NodeState, NEW t \in NodeState, Follows(s, t)
  PROVE  Settles(s, t)
<1>1. CASE s.role = "follower"
  BY <1>1 DEF Follows, Settles
<1>2. CASE s.role # "follower"
  <2>1. /\ t.pending = EmptyLog
        /\ t.replies = Answer(s, {r \in Request : Owes(s, r)}, "not-leader-anymore")
    BY <1>2 DEF Follows
  <2>2. DOMAIN t.pending = {}
    BY <2>1 DEF EmptyLog
  <2>3. ASSUME NEW r \in Request
        PROVE  \/ t.replies[r] = s.replies[r]
               \/ /\ \E k \in DOMAIN s.pending \ DOMAIN t.pending : s.pending[k] = r
                  /\ \E o \in Outcome : t.replies[r] = Append(s.replies[r], o)
    <3>1. CASE Owes(s, r)
      <4>1. t.replies[r] = Append(s.replies[r], "not-leader-anymore")
        BY <2>1, <3>1 DEF Answer
      <4> QED BY <2>2, <3>1, <4>1 DEF Owes, Outcome
    <3>2. CASE ~ Owes(s, r)
      BY <2>1, <3>2 DEF Answer
    <3> QED BY <3>1, <3>2
  <2> QED BY <2>2, <2>3 DEF Settles
<1> QED BY <1>1, <1>2

LEMMA BooksTrans ==
  ASSUME NEW s, NEW u, NEW t, NEW S, Books(s, u, {}), Books(u, t, S)
  PROVE  Books(s, t, S)
BY DEF Books

LEMMA SameBooks ==
  ASSUME NEW s, NEW t, t.replies = s.replies, t.pending = s.pending \/ t.pending = EmptyLog
  PROVE  Books(s, t, {})
<1>1. CASE t.pending = s.pending
  BY <1>1 DEF Books, AccountOK, Involved, Owes
<1>2. CASE t.pending = EmptyLog
  <2>1. DOMAIN t.pending = {}
    BY <1>2 DEF EmptyLog
  <2> QED BY <2>1 DEF Books, AccountOK, Involved, Owes
<1> QED BY <1>1, <1>2

LEMMA TurnBooks ==
  ASSUME NEW s \in NodeState, NEW t \in NodeState, Turn(s, t)
  PROVE  Books(s, t, {})
<1>1. CASE Quiet(s, t)
  BY <1>1, SameBooks DEF Quiet, Work
<1>2. CASE Follows(s, t)
  BY <1>2, FollowsSettles, SettlesBooks
<1>3. CASE \E u \in NodeState, m \in AppendEntriesMsg :
             Follows(s, u) /\ Obeys(u, t, m.entries, m.commit)
  <2>1. PICK u \in NodeState, m \in AppendEntriesMsg :
          Follows(s, u) /\ Obeys(u, t, m.entries, m.commit)
    BY <1>3
  <2>2. Books(s, u, {})
    BY <2>1, FollowsSettles, SettlesBooks
  <2>3. Settles(u, t)
    BY <2>1, ObeysFacts
  <2>4. Books(u, t, {})
    BY <2>3, SettlesBooks
  <2> QED BY <2>2, <2>4, BooksTrans
<1>4. CASE \E u \in NodeState, m \in InstallSnapshotMsg : Follows(s, u) /\ Installs(u, t, m)
  <2>1. PICK u \in NodeState, m \in InstallSnapshotMsg : Follows(s, u) /\ Installs(u, t, m)
    BY <1>4
  <2>2. Books(s, u, {})
    BY <2>1, FollowsSettles, SettlesBooks
  <2>3. t.pending = u.pending /\ t.replies = u.replies
    BY <2>1 DEF Installs
  <2>4. Books(u, t, {})
    BY <2>3, SameBooks
  <2> QED BY <2>2, <2>4, BooksTrans
<1>5. CASE Leads(s, t)
  BY <1>5, LeadsFacts, SettlesBooks
<1> QED BY <1>1, <1>2, <1>3, <1>4, <1>5 DEF Turn, Minor

\* A request is new to the whole cluster when it is accepted or declined.
LEMMA AcceptsBooks ==
  ASSUME NEW s \in NodeState, NEW t \in NodeState, NEW r \in Request,
         ~ Involved(s, r), Accepts(s, t, r)
  PROVE  Books(s, t, {r})
<1> DEFINE a == Extended(s, r)
           k == LogLastIndex(s) + 1
<1>1. /\ a \in NodeState /\ a.replies = s.replies
      /\ DOMAIN a.pending = DOMAIN s.pending \cup {k} /\ a.pending[k] = r
      /\ \A j \in DOMAIN s.pending : j # k => a.pending[j] = s.pending[j]
  BY ExtendedFacts
<1>2. Leads(a, t)
  BY AcceptsIs
<1> HIDE DEF a, k
<1>3. Books(a, t, {})
  BY <1>1, <1>2, LeadsFacts, SettlesBooks
<1>4. ASSUME AccountOK(s)
      PROVE  AccountOK(a) /\ \A q \in Request : Involved(a, q) => Involved(s, q) \/ q = r
  <2>1. \A q \in Request : Owes(a, q) => Owes(s, q) \/ q = r
    BY <1>1 DEF Owes
  <2>2. \A i, j \in DOMAIN a.pending : a.pending[i] = a.pending[j] => i = j
    BY <1>1, <1>4 DEF Involved, Owes, AccountOK
  <2>3. \A q \in Request : Owes(a, q) => a.replies[q] = <<>>
    BY <1>1, <1>4, <2>1 DEF Involved, AccountOK
  <2>4. \A q \in Request : Len(a.replies[q]) <= 1
    BY <1>1, <1>4 DEF AccountOK
  <2>5. \A q \in Request : Involved(a, q) => Involved(s, q) \/ q = r
    BY <1>1, <2>1 DEF Involved
  <2> QED BY <2>2, <2>3, <2>4, <2>5 DEF AccountOK
<1> QED BY <1>3, <1>4 DEF Books

LEMMA DeclinesBooks ==
  ASSUME NEW s \in NodeState, NEW t \in NodeState, NEW r \in Request,
         ~ Involved(s, r), Declines(s, t, r)
  PROVE  Books(s, t, {r})
<1>1. t.pending = s.pending
  BY DeclinesFacts
<1>2. t.replies[r] = Append(s.replies[r], "not-leader")
  BY DeclinesFacts
<1>3. s.replies[r] = <<>> /\ ~ Owes(s, r)
  BY DEF Involved
<1>4. t.replies[r] = Append(<<>>, "not-leader")
  BY <1>2, <1>3
<1>5. Len(t.replies[r]) <= 1
  BY <1>4
<1>6. \A q \in Request : q # r => t.replies[q] = s.replies[q]
  BY DeclinesFacts
<1>7. \A q \in Request : Owes(t, q) <=> Owes(s, q)
  BY <1>1 DEF Owes
<1> SUFFICES ASSUME AccountOK(s)
             PROVE  /\ AccountOK(t)
                    /\ \A q \in Request : Involved(t, q) => Involved(s, q) \/ q \in {r}
  BY DEF Books
<1>8. \A j, k \in DOMAIN t.pending : t.pending[j] = t.pending[k] => j = k
  BY <1>1 DEF AccountOK
<1>9. ASSUME NEW q \in Request
      PROVE  /\ Owes(t, q) => t.replies[q] = <<>>
             /\ Len(t.replies[q]) <= 1
             /\ Involved(t, q) => Involved(s, q) \/ q = r
  <2>1. CASE q = r
    <3>1. ~ Owes(t, r)
      BY <1>3, <1>7
    <3> QED BY <1>5, <2>1, <3>1
  <2>2. CASE q # r
    BY <1>6, <1>7, <2>2 DEF AccountOK, Involved
  <2> QED BY <2>1, <2>2
<1> QED BY <1>8, <1>9 DEF AccountOK

LEMMA LedgerStep ==
  ASSUME TypeInv, Ledger, [Next]_vars
  PROVE  Ledger'
<1>1. node \in [Node -> NodeState]
  BY DEF TypeInv
<1>2. ASSUME NEW n \in Node, NEW t \in NodeState, node' = [node EXCEPT ![n] = t],
             NEW S \in SUBSET Request, S \cap asked = {}, asked' = asked \cup S,
             Books(node[n], t, S)
      PROVE  Ledger'
  <2>1. AccountOK(node[n])
    BY DEF Ledger
  <2>2. AccountOK(t) /\ \A r \in Request : Involved(t, r) => Involved(node[n], r) \/ r \in S
    BY <1>2, <2>1 DEF Books
  <2>3. \A m \in Node : node'[m] = IF m = n THEN t ELSE node[m]
    BY <1>1, <1>2
  <2>4. \A m \in Node : AccountOK(node'[m])
    BY <2>2, <2>3 DEF Ledger
  <2>5. \A m \in Node, r \in Request :
          Involved(node'[m], r) => Involved(node[m], r) \/ (m = n /\ r \in S)
    BY <2>2, <2>3
  <2>6. \A m \in Node, r \in Request : Involved(node[m], r) => r \in asked /\ r \notin S
    BY <1>2 DEF Ledger
  <2>7. \A m \in Node, r \in Request : Involved(node'[m], r) => r \in asked'
    BY <1>2, <2>5, <2>6
  <2>8. \A l, m \in Node, r \in Request :
          Involved(node'[l], r) /\ Involved(node'[m], r) => l = m
    <3> SUFFICES ASSUME NEW l \in Node, NEW m \in Node, NEW r \in Request,
                        Involved(node'[l], r), Involved(node'[m], r)
                 PROVE  l = m
      OBVIOUS
    <3>1. CASE r \in S
      BY <2>5, <2>6, <3>1
    <3>2. CASE r \notin S
      BY <2>5, <3>2 DEF Ledger
    <3> QED BY <3>1, <3>2
  <2> QED BY <2>4, <2>7, <2>8 DEF Ledger, AccountOK, Involved, Owes
<1>3. ASSUME NEW n \in Node, NEW t \in NodeState, node' = [node EXCEPT ![n] = t],
             NodeStep(n, t)
      PROVE  Ledger'
  <2> DEFINE s == node[n]
  <2>1. s \in NodeState
    BY <1>1
  <2>2. CASE asked' = asked /\ Books(s, t, {})
    <3>1. {} \in SUBSET Request /\ {} \cap asked = {} /\ asked' = asked \cup {}
      BY <2>2
    <3> QED BY <1>2, <1>3, <2>2, <3>1
  <2>3. CASE asked' = asked /\ Turn(s, t)
    BY <2>1, <2>2, <2>3, TurnBooks
  <2>4. CASE asked' = asked /\ Snaps(s, t)
    BY <2>2, <2>4, SameBooks DEF Snaps
  <2>5. CASE asked' = asked /\ Stops(s, t)
    <3>1. t.pending = s.pending /\ t.replies = s.replies
      BY <2>1, <2>5 DEF Stops, View, Work, NodeState
    <3> QED BY <2>2, <2>5, <3>1, SameBooks
  <2>6. CASE asked' = asked /\ Restarts(s, t)
    BY <2>2, <2>6, SameBooks DEF Restarts
  <2>7. ASSUME NEW r \in Request \ asked, asked' = asked \cup {r},
               Accepts(s, t, r) \/ Declines(s, t, r)
        PROVE  Ledger'
    <3>1. ~ Involved(s, r)
      BY <2>7 DEF Ledger
    <3>2. Books(s, t, {r})
      BY <2>1, <2>7, <3>1, AcceptsBooks, DeclinesBooks
    <3>3. {r} \in SUBSET Request /\ {r} \cap asked = {}
      OBVIOUS
    <3> QED BY <1>2, <1>3, <2>7, <3>2, <3>3
  <2> HIDE DEF s
  <2> QED BY <1>3, <2>3, <2>4, <2>5, <2>6, <2>7 DEF NodeStep, s
<1>4. CASE node' = node /\ asked' = asked
  BY <1>4 DEF Ledger, AccountOK, Involved, Owes
<1> QED BY <1>3, <1>4, NodeSteps

LEMMA LedgerInit == Init => Ledger
<1> SUFFICES ASSUME Init PROVE Ledger
  OBVIOUS
<1>1. \A n \in Node : DOMAIN node[n].pending = {}
  BY DEF Init, NewState, EmptyLog
<1>2. \A n \in Node, r \in Request : node[n].replies[r] = <<>>
  BY DEF Init, NewState
<1>3. Len(<<>>) <= 1
  OBVIOUS
<1> QED BY <1>1, <1>2, <1>3 DEF Ledger, AccountOK, Involved, Owes

LEMMA LedgerAnswers ==
  ASSUME Ledger
  PROVE  OneReply
<1>1. ASSUME NEW r \in Request
      PROVE  Cardinality({n \in Node : node[n].replies[r] # <<>>}) <= 1
  <2> DEFINE S == {n \in Node : node[n].replies[r] # <<>>}
  <2>1. \A m, n \in S : m = n
    BY DEF Ledger, Involved
  <2>2. S = {} \/ \E n \in S : S = {n}
    BY <2>1
  <2>3. Cardinality(S) = 0 \/ Cardinality(S) = 1
    <3> HIDE DEF S
    <3>1. CASE S = {}
      BY <3>1, FS_EmptySet
    <3>2. CASE \E n \in S : S = {n}
      BY <3>2, FS_Singleton
    <3> QED BY <2>2, <3>1, <3>2
  <2> HIDE DEF S
  <2>4. Cardinality(S) <= 1
    BY <2>3
  <2> QED BY <2>4 DEF S
<1>2. \A r \in Request, n \in Node : Len(node[n].replies[r]) <= 1
  BY DEF Ledger, AccountOK
<1> QED BY <1>1, <1>2 DEF OneReply

\* For every cluster, workload and bound: no request is answered twice, by one
\* node or by two, although raft-apply-one-entry! and raft-fail-pending! both
\* answer what is pending and a node may lead, lose and lead again.
THEOREM AnswerOnce == Spec => []OneReply
<1>1. Init => TypeInv /\ Ledger
  BY InitType, LedgerInit
<1>2. TypeInv /\ Ledger /\ [Next]_vars => (TypeInv /\ Ledger)'
  BY NextType, LedgerStep
<1>3. Ledger => OneReply
  BY LedgerAnswers
<1> QED BY <1>1, <1>2, <1>3, PTL DEF Spec

(***************************************************************************)
(* Whose entry is answered for.  Only a leader owes answers, and what it   *)
(* owes at an index that is still to be applied is the entry of that very  *)
(* request.                                                                *)
(***************************************************************************)
Own(s) ==
  \A k \in DOMAIN s.pending :
    /\ s.role = "leader"
    /\ k > s.lastApplied => k \in DOMAIN s.log /\ s.log[k] = EntryFor(s, s.pending[k])

\* An "ok" is new only together with the entry that it is for, applied.
Credits(s, t) ==
  \A r \in Request :
    \/ t.replies[r] = s.replies[r]
    \/ \E o \in Outcome \ {"ok"} : t.replies[r] = Append(s.replies[r], o)
    \/ \E k \in DOMAIN t.sm : k > Len(s.sm) /\ t.sm[k] = EntryFor(s, r).data

LEMMA EntryForTerm ==
  ASSUME NEW s, NEW t, s.currentTerm = t.currentTerm, NEW r
  PROVE  EntryFor(s, r) = EntryFor(t, r)
BY DEF EntryFor

LEMMA OwesNothing ==
  ASSUME NEW s, Own(s), s.role # "leader"
  PROVE  DOMAIN s.pending = {}
BY DEF Own

LEMMA NothingOwned ==
  ASSUME NEW s, DOMAIN s.pending = {}
  PROVE  Own(s)
BY DEF Own

LEMMA AppliesOwn ==
  ASSUME NEW s \in NodeState, NEW t \in NodeState, Applies(s, t), Own(s)
  PROVE  Own(t) /\ Credits(s, t)
<1>1. /\ s.lastApplied \in Nat /\ s.commitIndex \in Nat /\ t.lastApplied \in Nat
      /\ t.lastApplied >= s.lastApplied
  BY AppliesFacts DEF NodeState
<1>2. t.role = s.role /\ t.currentTerm = s.currentTerm
  BY DEF Applies
<1>3. \A k \in DOMAIN t.pending : k \in DOMAIN s.pending /\ t.pending[k] = s.pending[k]
  BY AppliesFacts DEF Settles
<1>4. \A k \in DOMAIN s.log : k > t.lastApplied => k \in DOMAIN t.log /\ t.log[k] = s.log[k]
  <2>1. t.log = s.log \/ Compacts(s, t)
    BY DEF Applies
  <2>2. t.snap.index \in Nat
    BY DEF NodeState, Snapshot
  <2>3. CASE t.log = s.log
    BY <2>3
  <2>4. CASE t.snap.index <= t.lastApplied
    <3>1. \A k \in DOMAIN s.log : k \in Nat
      BY LastIndexBounds
    <3>2. KeepsLog(s, t)
      BY AppliesFacts
    <3> QED BY <1>1, <2>2, <2>4, <3>1, <3>2 DEF KeepsLog
  <2> QED BY <2>1, <2>3, <2>4 DEF Compacts
<1>5. Own(t)
  <2> SUFFICES ASSUME NEW k \in DOMAIN t.pending
               PROVE  /\ t.role = "leader"
                      /\ k > t.lastApplied =>
                           k \in DOMAIN t.log /\ t.log[k] = EntryFor(t, t.pending[k])
    BY DEF Own
  <2>1. k \in DOMAIN s.pending /\ t.pending[k] = s.pending[k]
    BY <1>3
  <2>2. k \in Nat
    <3>1. PICK D \in SUBSET Index : s.pending \in [D -> Request]
      BY DEF NodeState, Pending
    <3> QED BY <2>1, <3>1 DEF Index
  <2>3. s.role = "leader"
    BY <2>1 DEF Own
  <2>4. ASSUME k > t.lastApplied
        PROVE  k \in DOMAIN t.log /\ t.log[k] = EntryFor(t, t.pending[k])
    <3>1. k > s.lastApplied
      BY <1>1, <2>2, <2>4
    <3>2. k \in DOMAIN s.log /\ s.log[k] = EntryFor(s, s.pending[k])
      BY <2>1, <3>1 DEF Own
    <3>3. EntryFor(s, s.pending[k]) = EntryFor(t, s.pending[k])
      BY <1>2, EntryForTerm
    <3> QED BY <1>4, <2>1, <2>4, <3>2, <3>3
  <2> QED BY <1>2, <2>3, <2>4
<1>6. Credits(s, t)
  <2>1. CASE t.replies = s.replies
    BY <2>1 DEF Credits
  <2>2. CASE /\ s.commitIndex > s.lastApplied
             /\ t.sm = s.sm \o Applied(s, s.lastApplied + 1, s.commitIndex)
             /\ t.replies = Answer(s, {r \in Request : \E k \in Done(s) : s.pending[k] = r}, "ok")
    <3> SUFFICES ASSUME NEW r \in Request
                 PROVE  \/ t.replies[r] = s.replies[r]
                        \/ \E k \in DOMAIN t.sm :
                             k > Len(s.sm) /\ t.sm[k] = EntryFor(s, r).data
      BY DEF Credits
    <3>1. CASE ~ \E k \in Done(s) : s.pending[k] = r
      BY <2>2, <3>1 DEF Answer
    <3>2. CASE \E k \in Done(s) : s.pending[k] = r
      <4>1. PICK k \in Done(s) : s.pending[k] = r
        BY <3>2
      <4>2. /\ k \in DOMAIN s.log /\ k \in DOMAIN s.pending
            /\ k \in Nat /\ k > s.lastApplied /\ k <= s.commitIndex
        BY <1>1, <4>1 DEF Done
      <4>3. s.log[k] = EntryFor(s, r)
        BY <4>1, <4>2 DEF Own
      <4> DEFINE q == Applied(s, s.lastApplied + 1, s.commitIndex)
                 i == k - s.lastApplied
      <4>4. i \in 1 .. s.commitIndex - (s.lastApplied + 1) + 1
            /\ s.lastApplied + 1 + i - 1 = k
        BY <1>1, <4>2
      <4>5. q[i] = EntryFor(s, r).data
        BY <4>2, <4>3, <4>4 DEF Applied
      <4>6. s.sm \in Seq(Data \cup {Skipped}) /\ q \in Seq(Data \cup {Skipped})
        <5>1. s.sm \in History
          BY DEF NodeState
        <5>2. s.lastApplied + 1 \in Nat
          BY <1>1
        <5>3. q \in History
          BY <1>1, <5>2, AppliedType
        <5> QED BY <5>1, <5>3 DEF History
      <4>7. Len(q) = s.commitIndex - s.lastApplied
        BY <1>1, <2>2 DEF Applied
      <4> HIDE DEF q
      <4>8. i \in 1 .. Len(q)
        BY <1>1, <4>2, <4>7
      <4>9. /\ Len(s.sm) + i \in DOMAIN (s.sm \o q) /\ (s.sm \o q)[Len(s.sm) + i] = q[i]
            /\ Len(s.sm) + i > Len(s.sm)
        BY <4>6, <4>8
      <4>10. t.sm = s.sm \o q
        BY <2>2 DEF q
      <4> QED BY <4>5, <4>9, <4>10
    <3> QED BY <3>1, <3>2
  <2> QED BY <2>1, <2>2 DEF Applies
<1> QED BY <1>5, <1>6

LEMMA LeadsOwn ==
  ASSUME NEW s \in NodeState, NEW t \in NodeState, Leads(s, t), Own(s)
  PROVE  Own(t) /\ Credits(s, t)
<1>1. PICK k \in Nat : k >= s.commitIndex /\ Applies([s EXCEPT !.commitIndex = k], t)
  BY DEF Leads
<1> DEFINE x == [s EXCEPT !.commitIndex = k]
<1>2. /\ x \in NodeState /\ x.role = s.role /\ x.currentTerm = s.currentTerm
      /\ x.lastApplied = s.lastApplied /\ x.log = s.log
      /\ x.sm = s.sm /\ x.pending = s.pending /\ x.replies = s.replies
  BY AtCommit
<1> HIDE DEF x
<1>3. \A r : EntryFor(x, r) = EntryFor(s, r)
  BY <1>2, EntryForTerm
<1>4. Own(x)
  BY <1>2, <1>3 DEF Own
<1>5. Own(t) /\ Credits(x, t)
  BY <1>1, <1>2, <1>4, AppliesOwn DEF x
<1> QED BY <1>2, <1>3, <1>5 DEF Credits

LEMMA AcceptsOwn ==
  ASSUME NEW s \in NodeState, NEW t \in NodeState, NEW r \in Request, Accepts(s, t, r), Own(s)
  PROVE  Own(t) /\ Credits(s, t)
<1> DEFINE a == Extended(s, r)
           k == LogLastIndex(s) + 1
<1>1. /\ a \in NodeState /\ a.role = s.role /\ a.currentTerm = s.currentTerm
      /\ a.lastApplied = s.lastApplied /\ a.sm = s.sm /\ a.replies = s.replies
      /\ DOMAIN a.log = DOMAIN s.log \cup {k} /\ a.log[k] = EntryFor(s, r)
      /\ \A j \in DOMAIN s.log : a.log[j] = s.log[j]
      /\ DOMAIN a.pending = DOMAIN s.pending \cup {k} /\ a.pending[k] = r
      /\ \A j \in DOMAIN s.pending : j # k => a.pending[j] = s.pending[j]
  BY ExtendedFacts
<1>2. s.role = "leader" /\ Leads(a, t)
  BY AcceptsIs
<1> HIDE DEF a, k
<1>3. \A q : EntryFor(a, q) = EntryFor(s, q)
  BY <1>1, EntryForTerm
<1>4. Own(a)
  BY <1>1, <1>2, <1>3 DEF Own
<1>5. Own(t) /\ Credits(a, t)
  BY <1>1, <1>2, <1>4, LeadsOwn
<1> QED BY <1>1, <1>3, <1>5 DEF Credits

LEMMA SameAnswers ==
  ASSUME NEW s, NEW t, t.replies = s.replies
  PROVE  Credits(s, t)
BY DEF Credits

\* A former leader answers "not-leader-anymore", and owes nothing any more.
LEMMA FollowsOwn ==
  ASSUME NEW s \in NodeState, NEW t \in NodeState, Follows(s, t), Own(s)
  PROVE  Credits(s, t) /\ DOMAIN t.pending = {}
<1>1. CASE s.role = "follower"
  BY <1>1, OwesNothing, SameAnswers DEF Follows
<1>2. CASE s.role # "follower"
  <2>1. /\ t.pending = EmptyLog
        /\ t.replies = Answer(s, {r \in Request : Owes(s, r)}, "not-leader-anymore")
    BY <1>2 DEF Follows
  <2>2. "not-leader-anymore" \in Outcome \ {"ok"}
    BY DEF Outcome
  <2>3. Credits(s, t)
    BY <2>1, <2>2 DEF Credits, Answer
  <2> QED BY <2>1, <2>3 DEF EmptyLog
<1> QED BY <1>1, <1>2

LEMMA TurnOwn ==
  ASSUME NEW s \in NodeState, NEW t \in NodeState, Turn(s, t), Own(s)
  PROVE  Own(t) /\ Credits(s, t)
<1>1. CASE Quiet(s, t)
  <2>1. /\ t.pending = s.pending /\ t.log = s.log /\ t.lastApplied = s.lastApplied
        /\ t.replies = s.replies
        /\ s.role = "leader" => t.role = "leader" /\ t.currentTerm = s.currentTerm
    BY <1>1 DEF Quiet, Work
  <2>2. CASE s.role = "leader"
    <3>1. \A r : EntryFor(s, r) = EntryFor(t, r)
      BY <2>1, <2>2, EntryForTerm
    <3> QED BY <2>1, <2>2, <3>1, SameAnswers DEF Own
  <2>3. CASE s.role # "leader"
    BY <2>1, <2>3, OwesNothing, NothingOwned, SameAnswers
  <2> QED BY <2>2, <2>3
<1>2. CASE Follows(s, t)
  BY <1>2, FollowsOwn, NothingOwned
<1>3. CASE \E u \in NodeState, m \in AppendEntriesMsg :
             Follows(s, u) /\ Obeys(u, t, m.entries, m.commit)
  <2>1. PICK u \in NodeState, m \in AppendEntriesMsg :
          Follows(s, u) /\ Obeys(u, t, m.entries, m.commit)
    BY <1>3
  <2>2. DOMAIN u.pending = {}
    BY <2>1, FollowsOwn
  <2>3. Settles(u, t)
    BY <2>1, ObeysFacts
  <2>4. DOMAIN t.pending = {} /\ \A r \in Request : t.replies[r] = u.replies[r]
    BY <2>2, <2>3 DEF Settles
  <2>5. Credits(s, t)
    <3>1. \A r \in Request :
            \/ u.replies[r] = s.replies[r]
            \/ \E o \in Outcome \ {"ok"} : u.replies[r] = Append(s.replies[r], o)
      BY <2>1 DEF Follows, Answer, Outcome
    <3> QED BY <2>4, <3>1 DEF Credits
  <2> QED BY <2>4, <2>5, NothingOwned
<1>4. CASE \E u \in NodeState, m \in InstallSnapshotMsg : Follows(s, u) /\ Installs(u, t, m)
  <2>1. PICK u \in NodeState, m \in InstallSnapshotMsg : Follows(s, u) /\ Installs(u, t, m)
    BY <1>4
  <2>2. DOMAIN u.pending = {}
    BY <2>1, FollowsOwn
  <2>3. t.pending = u.pending /\ t.replies = u.replies
    BY <2>1 DEF Installs
  <2>4. Credits(s, t)
    <3>1. \A r \in Request :
            \/ u.replies[r] = s.replies[r]
            \/ \E o \in Outcome \ {"ok"} : u.replies[r] = Append(s.replies[r], o)
      BY <2>1 DEF Follows, Answer, Outcome
    <3> QED BY <2>3, <3>1 DEF Credits
  <2> QED BY <2>2, <2>3, <2>4, NothingOwned
<1>5. CASE Leads(s, t)
  BY <1>5, LeadsOwn
<1> QED BY <1>1, <1>2, <1>3, <1>4, <1>5 DEF Turn, Minor

LEMMA NodeStepOwn ==
  ASSUME TypeInv, NEW n \in Node, NEW t \in NodeState, NodeStep(n, t), Own(node[n])
  PROVE  Own(t) /\ Credits(node[n], t)
<1> DEFINE s == node[n]
<1>1. s \in NodeState
  BY DEF TypeInv
<1>2. CASE Turn(s, t)
  BY <1>1, <1>2, TurnOwn
<1>3. CASE Snaps(s, t)
  <2>1. /\ t.pending = s.pending /\ t.replies = s.replies /\ t.lastApplied = s.lastApplied
        /\ t.role = s.role /\ t.currentTerm = s.currentTerm
        /\ t.log = Restrict(s.log, {j \in DOMAIN s.log : j > s.lastApplied})
    BY <1>3 DEF Snaps, Seat
  <2>2. \A k \in DOMAIN s.log : k > s.lastApplied => k \in DOMAIN t.log /\ t.log[k] = s.log[k]
    BY <2>1 DEF Restrict
  <2>3. \A r : EntryFor(s, r) = EntryFor(t, r)
    BY <2>1, EntryForTerm
  <2> QED BY <2>1, <2>2, <2>3, SameAnswers DEF Own
<1>4. CASE Stops(s, t)
  <2>1. /\ t.pending = s.pending /\ t.replies = s.replies /\ t.lastApplied = s.lastApplied
        /\ t.role = s.role /\ t.currentTerm = s.currentTerm /\ t.log = s.log
    BY <1>1, <1>4 DEF Stops, View, Work, Seat, NodeState
  <2>2. \A r : EntryFor(s, r) = EntryFor(t, r)
    BY <2>1, EntryForTerm
  <2> QED BY <2>1, <2>2, SameAnswers DEF Own
<1>5. CASE Restarts(s, t)
  <2>1. DOMAIN t.pending = {} /\ t.replies = s.replies
    BY <1>5 DEF Restarts, EmptyLog
  <2> QED BY <2>1, NothingOwned, SameAnswers
<1>6. ASSUME NEW r \in Request, Accepts(s, t, r) PROVE Own(t) /\ Credits(s, t)
  BY <1>1, <1>6, AcceptsOwn
<1>7. ASSUME NEW r \in Request, Declines(s, t, r) PROVE Own(t) /\ Credits(s, t)
  <2>1. /\ s.role # "leader" /\ t.pending = s.pending
        /\ t.replies[r] = Append(s.replies[r], "not-leader")
        /\ \A q \in Request : q # r => t.replies[q] = s.replies[q]
    BY <1>1, <1>7, DeclinesFacts
  <2>2. DOMAIN t.pending = {}
    BY <2>1, OwesNothing
  <2>3. "not-leader" \in Outcome \ {"ok"}
    BY DEF Outcome
  <2>4. Credits(s, t)
    BY <2>1, <2>3 DEF Credits
  <2> QED BY <2>2, <2>4, NothingOwned
<1> HIDE DEF s
<1> QED BY <1>2, <1>3, <1>4, <1>5, <1>6, <1>7 DEF NodeStep, s

OwnInv == TypeInv /\ \A n \in Node : Own(node[n])

LEMMA OwnInit == Init => OwnInv
<1>1. Init => \A n \in Node : DOMAIN node[n].pending = {}
  BY DEF Init, NewState, EmptyLog
<1> QED BY <1>1, InitType, NothingOwned DEF OwnInv

LEMMA OwnNext ==
  ASSUME OwnInv, [Next]_vars
  PROVE  OwnInv' /\ \A n \in Node : Credits(node[n], node'[n])
<1>1. TypeInv'
  BY NextType DEF OwnInv
<1>2. node \in [Node -> NodeState]
  BY DEF OwnInv, TypeInv
<1>3. \A n \in Node : Own(node'[n]) /\ Credits(node[n], node'[n])
  <2>1. CASE node' = node
    BY <2>1, SameAnswers DEF OwnInv
  <2>2. ASSUME NEW n \in Node, NEW t \in NodeState,
               node' = [node EXCEPT ![n] = t], NodeStep(n, t)
        PROVE  \A m \in Node : Own(node'[m]) /\ Credits(node[m], node'[m])
    <3>1. Own(t) /\ Credits(node[n], t)
      BY <2>2, NodeStepOwn DEF OwnInv
    <3>2. \A m \in Node : node'[m] = IF m = n THEN t ELSE node[m]
      BY <1>2, <2>2
    <3> QED BY <3>1, <3>2, SameAnswers DEF OwnInv
  <2> QED BY <2>1, <2>2, NodeSteps DEF OwnInv
<1> QED BY <1>1, <1>3 DEF OwnInv, Own, EntryFor

\* A client is told "ok" only in a step that applies the entry of its own
\* request: the raft-propose-reply of raft-apply-one-entry! goes to whoever
\* pending names at the index, and that is the author of the entry.
OkIsApplied ==
  [][\A n \in Node, r \in Request :
       node'[n].replies[r] = Append(node[n].replies[r], "ok") =>
         \E k \in DOMAIN node'[n].sm :
           /\ k > Len(node[n].sm)
           /\ node'[n].sm[k] = EntryFor(node[n], r).data]_vars

\* For every cluster, membership change, workload and bound: raft-propose-reply
\* says "ok" only to the author of an entry that the same step applies.
THEOREM AnswersAreEarned == Spec => OkIsApplied
<1>1. ASSUME OwnInv, [Next]_vars
      PROVE  \A n \in Node, r \in Request :
               node'[n].replies[r] = Append(node[n].replies[r], "ok") =>
                 \E k \in DOMAIN node'[n].sm :
                   /\ k > Len(node[n].sm)
                   /\ node'[n].sm[k] = EntryFor(node[n], r).data
  <2> SUFFICES ASSUME NEW n \in Node, NEW r \in Request,
                      node'[n].replies[r] = Append(node[n].replies[r], "ok")
               PROVE  \E k \in DOMAIN node'[n].sm :
                        /\ k > Len(node[n].sm)
                        /\ node'[n].sm[k] = EntryFor(node[n], r).data
    OBVIOUS
  <2> DEFINE q == node[n].replies[r]
  <2>1. q \in Seq(Outcome)
    BY <1>1 DEF OwnInv, TypeInv, NodeState, Replies
  <2>2. Append(q, "ok") # q
    <3>1. Len(Append(q, "ok")) = Len(q) + 1 /\ Len(q) \in Nat
      BY <2>1
    <3> QED BY <3>1
  <2>3. ASSUME NEW o \in Outcome \ {"ok"} PROVE Append(q, "ok") # Append(q, o)
    <3>1. Append(q, "ok")[Len(q) + 1] = "ok" /\ Append(q, o)[Len(q) + 1] = o
      BY <2>1
    <3> QED BY <3>1
  <2>4. Credits(node[n], node'[n])
    BY <1>1, OwnNext
  <2> QED BY <2>2, <2>3, <2>4 DEF Credits
<1>2. Init => OwnInv
  BY OwnInit
<1>3. OwnInv /\ [Next]_vars => OwnInv'
  BY OwnNext
<1>4. OwnInv /\ [Next]_vars =>
        [\A n \in Node, r \in Request :
           node'[n].replies[r] = Append(node[n].replies[r], "ok") =>
             \E k \in DOMAIN node'[n].sm :
               /\ k > Len(node[n].sm)
               /\ node'[n].sm[k] = EntryFor(node[n], r).data]_vars
  BY <1>1
<1> QED BY <1>2, <1>3, <1>4, PTL DEF Spec, OkIsApplied

(***************************************************************************)
(* What is owed is still to be applied.  A new entry goes to the end of    *)
(* the log, and that is past lastApplied as long as no node has applied    *)
(* more than its log holds.  A snapshot older than what the follower has   *)
(* applied, or the loss of a committed tail, can break that, so it is a    *)
(* hypothesis here.                                                        *)
(***************************************************************************)
AppliedIsLogged == \A n \in Node : node[n].lastApplied <= LogLastIndex(node[n])

Waits(s) == \A k \in DOMAIN s.pending : k > s.lastApplied

LEMMA NothingWaits ==
  ASSUME NEW s, DOMAIN s.pending = {}
  PROVE  Waits(s)
BY DEF Waits

LEMMA LeadsWaits ==
  ASSUME NEW s \in NodeState, NEW t \in NodeState, Leads(s, t), Own(s), Waits(s)
  PROVE  Waits(t)
<1>1. \A k \in DOMAIN s.pending : k > s.lastApplied /\ k \in DOMAIN s.log
  BY DEF Own, Waits
<1>2. \A k \in DOMAIN t.pending : k \in DOMAIN s.pending
  BY LeadsFacts DEF Settles
<1>3. \A k \in DOMAIN t.pending : k \in DOMAIN s.log /\ k > s.lastApplied => k > t.lastApplied
  BY LeadsFacts
<1> QED BY <1>1, <1>2, <1>3 DEF Waits

LEMMA NodeStepWaits ==
  ASSUME TypeInv, NEW n \in Node, NEW t \in NodeState, NodeStep(n, t),
         Own(node[n]), Waits(node[n]), node[n].lastApplied <= LogLastIndex(node[n])
  PROVE  Waits(t)
<1> DEFINE s == node[n]
<1>1. s \in NodeState /\ Own(t)
  BY NodeStepOwn DEF TypeInv
<1>2. CASE t.role # "leader"
  BY <1>1, <1>2, OwesNothing, NothingWaits
<1>3. CASE t.pending = s.pending /\ t.lastApplied = s.lastApplied
  BY <1>3 DEF Waits
<1>4. ASSUME Turn(s, t), t.role = "leader" PROVE Waits(t)
  <2>1. CASE Quiet(s, t)
    BY <1>3, <2>1 DEF Quiet, Work
  <2>2. CASE Follows(s, t)
    BY <1>4, <2>2 DEF Follows
  <2>3. CASE \E u \in NodeState, m \in AppendEntriesMsg :
               Follows(s, u) /\ Obeys(u, t, m.entries, m.commit)
    BY <1>1, <1>4, <2>3, ObeysRole
  <2>4. CASE \E u \in NodeState, m \in InstallSnapshotMsg :
               Follows(s, u) /\ Installs(u, t, m)
    BY <1>4, <2>4, InstallsRole
  <2>5. CASE Leads(s, t)
    BY <1>1, <2>5, LeadsWaits
  <2> QED BY <1>4, <2>1, <2>2, <2>3, <2>4, <2>5 DEF Turn, Minor
<1>5. CASE Snaps(s, t)
  BY <1>3, <1>5 DEF Snaps
<1>6. CASE Stops(s, t)
  <2>1. t.pending = s.pending /\ t.lastApplied = s.lastApplied
    BY <1>1, <1>6 DEF Stops, View, Work, NodeState
  <2> QED BY <1>3, <2>1
<1>7. CASE Restarts(s, t)
  BY <1>2, <1>7 DEF Restarts
<1>8. ASSUME NEW r \in Request, Accepts(s, t, r) PROVE Waits(t)
  <2> DEFINE a == Extended(s, r)
             k == LogLastIndex(s) + 1
  <2>1. /\ a \in NodeState /\ a.role = s.role /\ a.currentTerm = s.currentTerm
        /\ a.lastApplied = s.lastApplied
        /\ DOMAIN a.log = DOMAIN s.log \cup {k} /\ a.log[k] = EntryFor(s, r)
        /\ \A j \in DOMAIN s.log : a.log[j] = s.log[j]
        /\ DOMAIN a.pending = DOMAIN s.pending \cup {k} /\ a.pending[k] = r
        /\ \A j \in DOMAIN s.pending : j # k => a.pending[j] = s.pending[j]
    BY <1>1, ExtendedFacts
  <2>2. s.role = "leader" /\ Leads(a, t)
    BY <1>8, AcceptsIs
  <2>3. k > s.lastApplied
    BY <1>1, LogLastIndexType DEF NodeState
  <2> HIDE DEF a, k
  <2>4. \A q : EntryFor(a, q) = EntryFor(s, q)
    BY <2>1, EntryForTerm
  <2>5. Own(a) /\ Waits(a)
    BY <2>1, <2>2, <2>3, <2>4 DEF Own, Waits
  <2> QED BY <2>1, <2>2, <2>5, LeadsWaits
<1>9. ASSUME NEW r \in Request, Declines(s, t, r) PROVE Waits(t)
  BY <1>1, <1>3, <1>9, DeclinesFacts
<1> HIDE DEF s
<1> QED BY <1>2, <1>4, <1>5, <1>6, <1>7, <1>8, <1>9 DEF NodeStep, s

WaitInv == OwnInv /\ \A n \in Node : Waits(node[n])

LEMMA WaitNext ==
  ASSUME WaitInv, AppliedIsLogged, [Next]_vars
  PROVE  WaitInv'
<1>1. OwnInv'
  BY OwnNext DEF WaitInv
<1>2. TypeInv /\ node \in [Node -> NodeState]
  BY DEF WaitInv, OwnInv, TypeInv
<1>3. \A n \in Node : Waits(node'[n])
  <2>1. CASE node' = node
    BY <2>1 DEF WaitInv
  <2>2. ASSUME NEW n \in Node, NEW t \in NodeState,
               node' = [node EXCEPT ![n] = t], NodeStep(n, t)
        PROVE  \A m \in Node : Waits(node'[m])
    <3>1. Waits(t)
      BY <1>2, <2>2, NodeStepWaits DEF WaitInv, OwnInv, AppliedIsLogged
    <3>2. \A m \in Node : node'[m] = IF m = n THEN t ELSE node[m]
      BY <1>2, <2>2
    <3> QED BY <3>1, <3>2 DEF WaitInv
  <2> QED BY <1>2, <2>1, <2>2, NodeSteps
<1> QED BY <1>1, <1>3 DEF WaitInv, Waits

\* For every cluster, membership change, workload and bound, along every
\* behaviour in which no node applies more than its log holds: only a leader
\* owes answers, each to the author of an entry of its term that it has not
\* applied yet.  Whom it owes them needs no hypothesis (OwedAreOwn).
THEOREM PendingsOwn == Spec /\ []AppliedIsLogged => []PendingIsOwn
<1>1. Init => WaitInv
  <2>1. Init => \A n \in Node : DOMAIN node[n].pending = {}
    BY DEF Init, NewState, EmptyLog
  <2> QED BY <2>1, OwnInit, NothingWaits DEF WaitInv
<1>2. WaitInv /\ AppliedIsLogged /\ [Next]_vars => WaitInv'
  BY WaitNext
<1>3. WaitInv => PendingIsOwn
  BY DEF WaitInv, OwnInv, Own, Waits, PendingIsOwn
<1> QED BY <1>1, <1>2, <1>3, PTL DEF Spec

\* The part of PendingIsOwn that needs no hypothesis: only a leader owes answers,
\* and what it owes for an index it has not applied is for its own log's entry.
OwedAreOwn ==
  \A n \in Node : LET s == node[n] IN
    \A k \in DOMAIN s.pending :
      /\ s.role = "leader"
      /\ k > s.lastApplied => k \in DOMAIN s.log /\ s.log[k] = EntryFor(s, s.pending[k])

\* For every cluster, membership change, workload and bound: pending never names
\* somebody else's entry, whatever log it was truncated or compacted to.
THEOREM DebtsAreOwn == Spec => []OwedAreOwn
<1>1. Init => OwnInv
  BY OwnInit
<1>2. OwnInv /\ [Next]_vars => OwnInv'
  BY OwnNext
<1>3. OwnInv => OwedAreOwn
  BY DEF OwnInv, Own, OwedAreOwn
<1> QED BY <1>1, <1>2, <1>3, PTL DEF Spec

(***************************************************************************)
(* What never goes back.                                                   *)
(***************************************************************************)

\* While a node runs.
Onward(s, t) ==
  /\ t.currentTerm >= s.currentTerm
  /\ s.running /\ t.running => t.lastApplied >= s.lastApplied
  /\ s.commitIndex <= s.lastApplied => t.commitIndex <= t.lastApplied

\* So does the commit index, if nothing is applied that is not in the log.
CommitsOnward(s, t) ==
  /\ s.running /\ t.running
  /\ s.commitIndex <= s.lastApplied
  /\ t.lastApplied <= LogLastIndex(t)
  => t.commitIndex >= s.commitIndex

LEMMA StandsStill ==
  ASSUME NEW s \in NodeState, NEW t \in NodeState, t.currentTerm >= s.currentTerm,
         t.commitIndex = s.commitIndex, t.lastApplied = s.lastApplied
  PROVE  Onward(s, t) /\ CommitsOnward(s, t)
<1>1. s.commitIndex \in Nat /\ s.lastApplied \in Nat
  BY DEF NodeState
<1> QED BY <1>1 DEF Onward, CommitsOnward

LEMMA ObeysOnward ==
  ASSUME NEW s \in NodeState, NEW t \in NodeState, NEW m \in AppendEntriesMsg,
         Obeys(s, t, m.entries, m.commit)
  PROVE  /\ s.commitIndex <= s.lastApplied => t.commitIndex <= t.lastApplied
         /\ CommitsOnward(s, t)
<1> DEFINE a == [s EXCEPT !.log = LogAppendAll(s.log, m.entries)]
           j == Smaller(m.commit, LogLastIndex(a))
           x == [a EXCEPT !.commitIndex = j]
<1>1. m.entries \in Log /\ m.commit \in Nat
  BY DEF AppendEntriesMsg
<1>2. /\ a \in NodeState /\ a.commitIndex = s.commitIndex /\ a.lastApplied = s.lastApplied
  BY <1>1, WithLog
<1>3. \/ View(t) = View(a)
      \/ m.commit > s.commitIndex /\ Applies(x, t)
  BY DEF Obeys
<1> HIDE DEF a
<1>4. j \in Nat /\ LogLastIndex(a) \in Nat
  BY <1>1, <1>2, LogLastIndexType DEF Smaller
<1>5. m.commit > s.commitIndex => j > s.commitIndex \/ j = LogLastIndex(a)
  BY DEF Smaller
<1>6. /\ x \in NodeState /\ x.commitIndex = j /\ x.lastApplied = a.lastApplied
      /\ x.log = a.log /\ x.snap = a.snap
  BY <1>2, <1>4, AtCommit
<1> HIDE DEF x, j
<1>7. /\ s.commitIndex \in Nat /\ s.lastApplied \in Nat
      /\ t.commitIndex \in Nat /\ t.lastApplied \in Nat
  BY DEF NodeState
<1>8. CASE View(t) = View(a)
  <2>1. t.commitIndex = s.commitIndex /\ t.lastApplied = s.lastApplied
    BY <1>2, <1>8 DEF View, Work
  <2> QED BY <1>7, <2>1 DEF CommitsOnward
<1>9. CASE m.commit > s.commitIndex /\ Applies(x, t)
  <2>1. t.commitIndex = j /\ t.commitIndex <= t.lastApplied
    BY <1>6, <1>9, AppliesFacts
  <2>2. CASE j > s.commitIndex
    BY <1>4, <1>7, <2>1, <2>2 DEF CommitsOnward
  <2>3. CASE j = LogLastIndex(a) /\ j <= s.lastApplied
    <3>1. t.lastApplied = s.lastApplied /\ t.log = a.log /\ t.snap = a.snap
      <4>1. ~ x.commitIndex > x.lastApplied
        BY <1>2, <1>4, <1>6, <1>7, <2>3
      <4> QED BY <1>2, <1>6, <1>9, <4>1 DEF Applies
    <3>2. LogLastIndex(t) = LogLastIndex(a)
      BY <3>1 DEF LogLastIndex
    <3> QED BY <1>4, <1>7, <2>1, <2>3, <3>1, <3>2 DEF CommitsOnward
  <2>4. CASE j = LogLastIndex(a) /\ j > s.lastApplied
    BY <1>4, <1>7, <2>1, <2>4 DEF CommitsOnward
  <2> QED BY <1>4, <1>5, <1>7, <1>9, <2>1, <2>2, <2>3, <2>4
<1> QED BY <1>3, <1>8, <1>9

LEMMA TurnOnward ==
  ASSUME NEW s \in NodeState, NEW t \in NodeState, Turn(s, t)
  PROVE  Onward(s, t) /\ CommitsOnward(s, t)
<1>1. CASE Quiet(s, t)
  BY <1>1, StandsStill DEF Quiet, Work
<1>2. CASE Follows(s, t)
  BY <1>2, StandsStill DEF Follows
<1>3. CASE \E u \in NodeState, m \in AppendEntriesMsg :
             Follows(s, u) /\ Obeys(u, t, m.entries, m.commit)
  <2>1. PICK u \in NodeState, m \in AppendEntriesMsg :
          Follows(s, u) /\ Obeys(u, t, m.entries, m.commit)
    BY <1>3
  <2>2. /\ u.currentTerm >= s.currentTerm /\ u.running = s.running
        /\ u.commitIndex = s.commitIndex /\ u.lastApplied = s.lastApplied
    BY <2>1 DEF Follows
  <2>3. /\ t.currentTerm = u.currentTerm /\ t.lastApplied >= u.lastApplied
        /\ t.running = u.running
    BY <2>1, ObeysFacts
  <2>4. /\ u.commitIndex <= u.lastApplied => t.commitIndex <= t.lastApplied
        /\ CommitsOnward(u, t)
    BY <2>1, ObeysOnward
  <2> QED BY <2>2, <2>3, <2>4 DEF Onward, CommitsOnward
<1>4. CASE \E u \in NodeState, m \in InstallSnapshotMsg : Follows(s, u) /\ Installs(u, t, m)
  <2>1. PICK u \in NodeState, m \in InstallSnapshotMsg : Follows(s, u) /\ Installs(u, t, m)
    BY <1>4
  <2>2. /\ u.currentTerm >= s.currentTerm /\ t.currentTerm = u.currentTerm
        /\ u.commitIndex = s.commitIndex /\ u.lastApplied = s.lastApplied
        /\ t.commitIndex = Larger(u.commitIndex, m.lastIndex)
        /\ t.lastApplied = Larger(u.lastApplied, m.lastIndex)
    BY <2>1 DEF Follows, Installs
  <2>3. m.lastIndex \in Nat /\ s.commitIndex \in Nat /\ s.lastApplied \in Nat
    BY DEF InstallSnapshotMsg, NodeState
  <2> QED BY <2>2, <2>3 DEF Onward, CommitsOnward, Larger
<1>5. CASE Leads(s, t)
  <2>1. /\ t.currentTerm = s.currentTerm /\ t.lastApplied >= s.lastApplied
        /\ t.commitIndex >= s.commitIndex /\ t.commitIndex <= t.lastApplied
    BY <1>5, LeadsFacts
  <2>2. s.currentTerm \in Nat
    BY DEF NodeState
  <2> QED BY <2>1, <2>2 DEF Onward, CommitsOnward
<1> QED BY <1>1, <1>2, <1>3, <1>4, <1>5 DEF Turn, Minor

LEMMA NodeStepOnward ==
  ASSUME TypeInv, NEW n \in Node, NEW t \in NodeState, NodeStep(n, t)
  PROVE  Onward(node[n], t) /\ CommitsOnward(node[n], t)
<1> DEFINE s == node[n]
<1>1. s \in NodeState
  BY DEF TypeInv
<1>2. s.currentTerm \in Nat /\ s.snap.index \in Nat
  BY <1>1 DEF NodeState, Snapshot
<1> SUFFICES Onward(s, t) /\ CommitsOnward(s, t)
  OBVIOUS
<1> HIDE DEF s
<1>3. CASE Turn(s, t)
  BY <1>1, <1>3, TurnOnward
<1>4. CASE Snaps(s, t)
  BY <1>1, <1>2, <1>4, StandsStill DEF Snaps, Seat
<1>5. CASE Stops(s, t)
  <2>1. t.currentTerm = s.currentTerm /\ t.commitIndex = s.commitIndex
        /\ t.lastApplied = s.lastApplied
    BY <1>1, <1>5 DEF Stops, View, Work, Seat, NodeState
  <2> QED BY <1>1, <1>2, <2>1, StandsStill
<1>6. CASE Restarts(s, t)
  BY <1>2, <1>6 DEF Restarts, Onward, CommitsOnward
<1>7. ASSUME NEW r \in Request, Accepts(s, t, r)
      PROVE  Onward(s, t) /\ CommitsOnward(s, t)
  <2> DEFINE a == Extended(s, r)
  <2>1. /\ a \in NodeState /\ a.currentTerm = s.currentTerm
        /\ a.commitIndex = s.commitIndex /\ a.lastApplied = s.lastApplied
    BY <1>1, ExtendedFacts
  <2>2. Leads(a, t)
    BY <1>7, AcceptsIs
  <2> HIDE DEF a
  <2>3. /\ t.currentTerm = a.currentTerm /\ t.lastApplied >= a.lastApplied
        /\ t.commitIndex >= a.commitIndex /\ t.commitIndex <= t.lastApplied
    BY <2>1, <2>2, LeadsFacts
  <2> QED BY <1>2, <2>1, <2>3 DEF Onward, CommitsOnward
<1>8. ASSUME NEW r \in Request, Declines(s, t, r)
      PROVE  Onward(s, t) /\ CommitsOnward(s, t)
  <2>1. t.currentTerm = s.currentTerm /\ t.commitIndex = s.commitIndex
        /\ t.lastApplied = s.lastApplied
    BY <1>1, <1>8, DeclinesFacts
  <2> QED BY <1>1, <1>2, <2>1, StandsStill
<1> QED BY <1>3, <1>4, <1>5, <1>6, <1>7, <1>8 DEF NodeStep, s

\* Every handler that moves the commit index applies what it passes before it
\* returns: no entry is committed and left for a later message.
CommittedIsApplied == \A n \in Node : node[n].commitIndex <= node[n].lastApplied

LEMMA OnwardNext ==
  ASSUME TypeInv, [Next]_vars
  PROVE  \A n \in Node : Onward(node[n], node'[n]) /\ CommitsOnward(node[n], node'[n])
<1>1. node \in [Node -> NodeState]
  BY DEF TypeInv
<1>2. \A n \in Node : Onward(node[n], node[n]) /\ CommitsOnward(node[n], node[n])
  <2> SUFFICES ASSUME NEW n \in Node
               PROVE  Onward(node[n], node[n]) /\ CommitsOnward(node[n], node[n])
    OBVIOUS
  <2>1. node[n] \in NodeState /\ node[n].currentTerm \in Nat
    BY <1>1 DEF NodeState
  <2> QED BY <2>1, StandsStill
<1>3. CASE node' = node
  BY <1>2, <1>3
<1>4. ASSUME NEW n \in Node, NEW t \in NodeState,
             node' = [node EXCEPT ![n] = t], NodeStep(n, t)
      PROVE  \A m \in Node : Onward(node[m], node'[m]) /\ CommitsOnward(node[m], node'[m])
  <2>1. Onward(node[n], t) /\ CommitsOnward(node[n], t)
    BY <1>4, NodeStepOnward
  <2>2. \A m \in Node : node'[m] = IF m = n THEN t ELSE node[m]
    BY <1>1, <1>4
  <2> QED BY <1>2, <2>1, <2>2
<1> QED BY <1>3, <1>4, NodeSteps

\* For every cluster, membership change, workload and bound: every handler that
\* advances the commit index has called raft-apply-committed! when it returns.
THEOREM AllApplied == Spec => []CommittedIsApplied
<1>1. Init => CommittedIsApplied
  BY DEF Init, NewState, NoSnapshot, CommittedIsApplied
<1>2. TypeInv /\ CommittedIsApplied /\ [Next]_vars => CommittedIsApplied'
  BY OnwardNext DEF CommittedIsApplied, Onward
<1> QED BY <1>1, <1>2, TypeInvariant, PTL DEF Spec

\* Terms survive restarts, and a running node never takes back what it has
\* applied.
TermsAndStateAdvance ==
  [][\A n \in Node :
       /\ node'[n].currentTerm >= node[n].currentTerm
       /\ node[n].running /\ node'[n].running =>
            node'[n].lastApplied >= node[n].lastApplied]_vars

\* For every cluster, membership change, workload and bound: not even
\* raft-log-install-snapshot!, with a snapshot older than the state, makes a
\* running node apply less than it has.
THEOREM AppliedNeverBack == Spec => TermsAndStateAdvance
<1>1. TypeInv /\ [Next]_vars =>
        [\A n \in Node :
           /\ node'[n].currentTerm >= node[n].currentTerm
           /\ node[n].running /\ node'[n].running =>
                node'[n].lastApplied >= node[n].lastApplied]_vars
  BY OnwardNext DEF Onward
<1> QED BY <1>1, TypeInvariant, PTL DEF Spec, TermsAndStateAdvance

\* Along every behaviour in which no node applies more than its log holds, the
\* commit index of a running node does not move back either.
THEOREM CommitNeverBack == Spec /\ []AppliedIsLogged => NeverBack
<1>1. TypeInv /\ CommittedIsApplied /\ AppliedIsLogged /\ AppliedIsLogged' /\ [Next]_vars =>
        [\A n \in Node :
           /\ node'[n].currentTerm >= node[n].currentTerm
           /\ node[n].running /\ node'[n].running =>
                /\ node'[n].commitIndex >= node[n].commitIndex
                /\ node'[n].lastApplied >= node[n].lastApplied]_vars
  <2> SUFFICES ASSUME TypeInv, CommittedIsApplied, AppliedIsLogged', [Next]_vars,
                      NEW n \in Node
               PROVE  /\ node'[n].currentTerm >= node[n].currentTerm
                      /\ node[n].running /\ node'[n].running =>
                           /\ node'[n].commitIndex >= node[n].commitIndex
                           /\ node'[n].lastApplied >= node[n].lastApplied
    OBVIOUS
  <2>1. Onward(node[n], node'[n]) /\ CommitsOnward(node[n], node'[n])
    BY OnwardNext
  <2>2. node'[n].lastApplied <= LogLastIndex(node'[n])
    BY DEF AppliedIsLogged, LogLastIndex
  <2> QED BY <2>1, <2>2 DEF CommittedIsApplied, Onward, CommitsOnward
<1> QED BY <1>1, AllApplied, TypeInvariant, PTL DEF Spec, NeverBack

-----------------------------------------------------------------------------
(***************************************************************************)
(* The messages of a sequence.                                             *)
(***************************************************************************)
LEMMA RangeOfAppend ==
  ASSUME NEW S, NEW q \in Seq(S), NEW m \in S
  PROVE  \A x \in Range(Append(q, m)) : x \in Range(q) \/ x = m
<1>1. /\ Append(q, m) \in Seq(S) /\ Len(Append(q, m)) = Len(q) + 1 /\ Len(q) \in Nat
      /\ \A i \in 1 .. Len(q) : Append(q, m)[i] = q[i]
      /\ Append(q, m)[Len(q) + 1] = m
  BY AppendProperties, LenProperties
<1>2. DOMAIN Append(q, m) = 1 .. Len(q) + 1 /\ DOMAIN q = 1 .. Len(q)
  BY <1>1, LenProperties
<1>3. SUFFICES ASSUME NEW i \in DOMAIN Append(q, m)
               PROVE  Append(q, m)[i] \in Range(q) \/ Append(q, m)[i] = m
  BY DEF Range
<1>4. i \in 1 .. Len(q) \/ i = Len(q) + 1
  BY <1>1, <1>2
<1> QED BY <1>1, <1>2, <1>4 DEF Range

LEMMA RangeOfConcat ==
  ASSUME NEW S, NEW q \in Seq(S), NEW r \in Seq(S)
  PROVE  \A x \in Range(q \o r) : x \in Range(q) \/ x \in Range(r)
<1>1. /\ q \o r \in Seq(S) /\ Len(q \o r) = Len(q) + Len(r)
      /\ Len(q) \in Nat /\ Len(r) \in Nat
      /\ \A i \in 1 .. Len(q) + Len(r) :
           (q \o r)[i] = IF i <= Len(q) THEN q[i] ELSE r[i - Len(q)]
  BY ConcatProperties, LenProperties
<1>2. /\ DOMAIN (q \o r) = 1 .. Len(q) + Len(r)
      /\ DOMAIN q = 1 .. Len(q) /\ DOMAIN r = 1 .. Len(r)
  BY <1>1, LenProperties
<1>3. SUFFICES ASSUME NEW i \in DOMAIN (q \o r)
               PROVE  (q \o r)[i] \in Range(q) \/ (q \o r)[i] \in Range(r)
  BY DEF Range
<1>4. CASE i <= Len(q)
  <2>1. (q \o r)[i] = q[i] /\ i \in DOMAIN q
    BY <1>1, <1>2, <1>4
  <2> QED BY <2>1 DEF Range
<1>5. CASE ~ (i <= Len(q))
  <2>1. (q \o r)[i] = r[i - Len(q)] /\ i - Len(q) \in DOMAIN r
    BY <1>1, <1>2, <1>5
  <2> QED BY <2>1 DEF Range
<1> QED BY <1>4, <1>5

LEMMA RangeOfTail ==
  ASSUME NEW S, NEW q \in Seq(S), q # <<>>
  PROVE  Range(Tail(q)) \subseteq Range(q) /\ Head(q) \in Range(q)
<1>1. /\ Tail(q) \in Seq(S) /\ Len(Tail(q)) = Len(q) - 1 /\ Len(q) \in Nat
      /\ \A i \in 1 .. Len(Tail(q)) : Tail(q)[i] = q[i + 1]
      /\ DOMAIN q = 1 .. Len(q)
  BY HeadTailProperties, LenProperties
<1>2. DOMAIN Tail(q) = 1 .. Len(Tail(q))
  BY <1>1, LenProperties
<1>3. Head(q) = q[1] /\ Len(q) >= 1
  BY <1>1, EmptySeq, LenProperties
<1>4. \A i \in 1 .. Len(Tail(q)) : i + 1 \in 1 .. Len(q)
  BY <1>1
<1>5. 1 \in DOMAIN q
  BY <1>1, <1>3
<1> QED BY <1>1, <1>2, <1>3, <1>4, <1>5 DEF Range

LEMMA RangeOfSubSeq ==
  ASSUME NEW S, NEW q \in Seq(S), NEW k \in 1 .. Len(q) + 1
  PROVE  Range(SubSeq(q, k, Len(q))) \subseteq Range(q)
<1> DEFINE r == SubSeq(q, k, Len(q))
<1>1. Len(q) \in Nat /\ k \in Int /\ DOMAIN q = 1 .. Len(q)
  BY LenProperties
<1>2. \A i \in k .. Len(q) : q[i] \in S
  BY <1>1, ElementOfSeq
<1>3. /\ r \in Seq(S) /\ Len(r) = IF k <= Len(q) THEN Len(q) - k + 1 ELSE 0
      /\ \A i \in 1 .. Len(q) - k + 1 : r[i] = q[k + i - 1]
  BY <1>1, <1>2, SubSeqProperties
<1> HIDE DEF r
<1>4. DOMAIN r = 1 .. Len(r)
  BY <1>3, LenProperties
<1>5. \A i \in DOMAIN r : r[i] = q[k + i - 1] /\ k + i - 1 \in DOMAIN q
  BY <1>1, <1>3, <1>4
<1>6. Range(r) \subseteq Range(q)
  BY <1>5 DEF Range
<1> QED BY <1>6 DEF r

LEMMA RangeOfEmpty == Range(<<>>) = {}
BY DEF Range

(***************************************************************************)
(* What a handler may leave to be sent.                                    *)
(***************************************************************************)
EntryMail == {"append-entries", "install-snapshot"}

\* A message that carries no entries.  Votes are asked of peers only.
Plain(t, p, m) ==
  m.type \notin EntryMail /\ (m.type = "request-vote" => p \in t.peers /\ m.from = t.id)

\* A message to p that the table t answers for.
Letter(t, p, m) ==
  \/ Plain(t, p, m)
  \/ t.role = "leader" /\ p \in t.peers \cup t.learners /\ m = AppendEntriesMessage(t, p)

Chatter(h) == \A p \in Node : \A m \in Range(h.out[p]) : Plain(h, p, m)
Letters(h) == \A p \in Node : \A m \in Range(h.out[p]) : Letter(h, p, m)

LEMMA ChatterIsLetters ==
  ASSUME NEW h, Chatter(h)
  PROVE  Letters(h)
BY DEF Chatter, Letters, Letter

\* What is sent depends on these fields alone.
LEMMA CopyOfSame ==
  ASSUME NEW s, NEW t, NEW p,
         t.nextIndex = s.nextIndex, t.snap = s.snap, t.currentTerm = s.currentTerm,
         t.id = s.id, t.sm = s.sm, t.log = s.log, t.commitIndex = s.commitIndex
  PROVE  AppendEntriesMessage(t, p) = AppendEntriesMessage(s, p)
<1>1. LogLastIndex(t) = LogLastIndex(s)
  BY DEF LogLastIndex
<1>2. \A k : LogTermAt(t, k) = LogTermAt(s, k)
  BY DEF LogTermAt
<1>3. \A j, k : LogSlice(t, j, k) = LogSlice(s, j, k)
  BY DEF LogSlice
<1> QED BY <1>1, <1>2, <1>3 DEF AppendEntriesMessage

LEMMA NothingIsChatter ==
  ASSUME NEW h, h.out = Nothing
  PROVE  Chatter(h)
<1>1. \A p \in Node : Range(h.out[p]) = {}
  BY RangeOfEmpty DEF Nothing
<1> QED BY <1>1 DEF Chatter

LEMMA ChatterOfSame ==
  ASSUME NEW s, NEW t, Chatter(s), t.out = s.out, t.peers = s.peers, t.id = s.id
  PROVE  Chatter(t)
BY DEF Chatter, Plain

LEMMA SendChatter ==
  ASSUME NEW s \in NodeState, Chatter(s), NEW to \in Node, NEW m \in Message,
         m.type \notin EntryMail, m.type # "request-vote"
  PROVE  Chatter(Send(s, to, m))
<1> DEFINE o == [s.out EXCEPT ![to] = Append(@, m)]
           t == [s EXCEPT !.out = o]
<1>1. Send(s, to, m) = t
  BY DEF Send, NodeState
<1>2. s.out \in [Node -> Seq(Message)]
  BY OutType
<1>3. \A p \in Node : o[p] = IF p = to THEN Append(s.out[p], m) ELSE s.out[p]
  BY <1>2
<1> HIDE DEF o
<1>4. t.out = o /\ t.peers = s.peers /\ t.id = s.id
  BY DEF NodeState
<1> HIDE DEF t
<1>5. SUFFICES ASSUME NEW p \in Node, NEW x \in Range(o[p]) PROVE Plain(t, p, x)
  BY <1>1, <1>4 DEF Chatter
<1>6. x \in Range(s.out[p]) \/ x = m
  BY <1>2, <1>3, RangeOfAppend
<1> QED BY <1>4, <1>6 DEF Chatter, Plain

LEMMA SendToPeersChatter ==
  ASSUME NEW s \in NodeState, Chatter(s), NEW m \in PlainMsg,
         m.type \notin EntryMail, m.from = s.id
  PROVE  Chatter(SendToPeers(s, m))
<1> DEFINE o == [p \in Node |-> IF p \in s.peers THEN Append(s.out[p], m) ELSE s.out[p]]
           t == [s EXCEPT !.out = o]
<1>1. SendToPeers(s, m) = t
  BY DEF SendToPeers, NodeState
<1>2. s.out \in [Node -> Seq(PlainMsg)]
  BY OutType
<1>3. \A p \in Node : o[p] = IF p \in s.peers THEN Append(s.out[p], m) ELSE s.out[p]
  OBVIOUS
<1> HIDE DEF o
<1>4. t.out = o /\ t.peers = s.peers /\ t.id = s.id
  BY DEF NodeState
<1> HIDE DEF t
<1>5. SUFFICES ASSUME NEW p \in Node, NEW x \in Range(o[p]) PROVE Plain(t, p, x)
  BY <1>1, <1>4 DEF Chatter
<1>6. x \in Range(s.out[p]) \/ (x = m /\ p \in s.peers)
  BY <1>2, <1>3, RangeOfAppend
<1> QED BY <1>4, <1>6 DEF Chatter, Plain

\* A leader sends copies of its log to its peers and learners.
LEMMA ReplicateLetters ==
  ASSUME NEW s \in NodeState, s.role = "leader", Chatter(s)
  PROVE  Letters(ReplicateToPeers(s))
<1> DEFINE Copies(p, L) == IF p \in L THEN <<AppendEntriesMessage(s, p)>> ELSE <<>>
           o == [p \in Node |-> s.out[p] \o Copies(p, s.peers) \o Copies(p, s.learners)]
           t == [s EXCEPT !.out = o]
<1>1. ReplicateToPeers(s) = t
  BY DEF ReplicateToPeers, NodeState
<1>2. s.out \in [Node -> Seq(PlainMsg)]
  BY OutType
<1>3. \A p \in Node, L \in SUBSET Node : Copies(p, L) \in Seq(PlainMsg)
  BY AppendEntriesMessageType
<1>4. \A p \in Node, L \in SUBSET Node :
        \A x \in Range(Copies(p, L)) : p \in L /\ x = AppendEntriesMessage(s, p)
  BY DEF Range
<1>5. s.peers \in SUBSET Node /\ s.learners \in SUBSET Node
  BY DEF NodeState
<1>6. \A p \in Node : o[p] = s.out[p] \o Copies(p, s.peers) \o Copies(p, s.learners)
  OBVIOUS
<1> HIDE DEF o, Copies
<1>7. /\ t.out = o /\ t.peers = s.peers /\ t.learners = s.learners /\ t.id = s.id
      /\ t.nextIndex = s.nextIndex /\ t.snap = s.snap /\ t.currentTerm = s.currentTerm
      /\ t.sm = s.sm /\ t.log = s.log /\ t.commitIndex = s.commitIndex /\ t.role = s.role
  BY DEF NodeState
<1> HIDE DEF t
<1>8. \A p \in Node : AppendEntriesMessage(t, p) = AppendEntriesMessage(s, p)
  BY <1>7, CopyOfSame
<1>9. SUFFICES ASSUME NEW p \in Node, NEW x \in Range(o[p]) PROVE Letter(t, p, x)
  BY <1>1, <1>7 DEF Letters
<1>10. s.out[p] \in Seq(PlainMsg) /\ s.out[p] \o Copies(p, s.peers) \in Seq(PlainMsg)
       /\ Copies(p, s.peers) \in Seq(PlainMsg) /\ Copies(p, s.learners) \in Seq(PlainMsg)
  BY <1>2, <1>3, <1>5, ConcatProperties
<1>11. \/ x \in Range(s.out[p] \o Copies(p, s.peers))
       \/ x \in Range(Copies(p, s.learners))
  BY <1>6, <1>10, RangeOfConcat
<1>12. \/ x \in Range(s.out[p])
       \/ x \in Range(Copies(p, s.peers))
       \/ x \in Range(Copies(p, s.learners))
  BY <1>10, <1>11, RangeOfConcat
<1>13. CASE x \in Range(s.out[p])
  BY <1>7, <1>13 DEF Chatter, Letter, Plain
<1>14. CASE x \in Range(Copies(p, s.peers)) \/ x \in Range(Copies(p, s.learners))
  BY <1>4, <1>5, <1>7, <1>8, <1>14 DEF Letter
<1> QED BY <1>12, <1>13, <1>14

(***************************************************************************)
(* What the operators of a handler keep of roles, terms and nextIndex.     *)
(***************************************************************************)

\* A candidate has voted for itself and never led its term; elected is the
\* record of the terms led, none of them to come.
SeatOK(s) ==
  /\ s.role \in {"candidate", "leader"} => s.votedFor = s.id
  /\ s.role = "leader" => s.currentTerm \in s.elected
  /\ s.role = "candidate" => s.currentTerm \notin s.elected
  /\ \A e \in s.elected : e <= s.currentTerm

\* A leader does not start over: it leads on, or leads a term it never led.
Fresh(s, t) ==
  t.role = "leader" =>
    \/ s.role = "leader" /\ t.currentTerm = s.currentTerm
    \/ t.currentTerm \notin s.elected

\* No leader is without a next index for a node that it replicates to.
NextOK(s) == s.role = "leader" => \A p \in s.peers \cup s.learners : s.nextIndex[p] >= 1

VoterSeat(s) == s.role # "follower" => s.id \notin s.learners

Hop(s, t) ==
  /\ t.id = s.id /\ s.elected \subseteq t.elected
  /\ SeatOK(s) => SeatOK(t) /\ Fresh(s, t)
  /\ NextOK(s) => NextOK(t)
  /\ Change = {} /\ VoterSeat(s) => VoterSeat(t)

LEMMA HopSelf ==
  ASSUME NEW s
  PROVE  Hop(s, s)
BY DEF Hop, Fresh

LEMMA HopTrans ==
  ASSUME NEW s, NEW t, NEW u, Hop(s, t), Hop(t, u)
  PROVE  Hop(s, u)
<1>1. Fresh(s, t) /\ Fresh(t, u) => Fresh(s, u)
  BY DEF Fresh, Hop
<1> QED BY <1>1 DEF Hop

LEMMA HopCore ==
  ASSUME NEW s, NEW t, VoteCore(t) = VoteCore(s),
         Change = {} => Core(t) = Core(s), NextOK(s) => NextOK(t)
  PROVE  Hop(s, t)
<1>1. /\ t.id = s.id /\ t.role = s.role /\ t.currentTerm = s.currentTerm
      /\ t.votedFor = s.votedFor /\ t.elected = s.elected
  BY DEF VoteCore
<1>2. Change = {} => t.learners = s.learners
  BY DEF Core
<1> QED BY <1>1, <1>2 DEF Hop, SeatOK, Fresh, VoterSeat

LEMMA HopSame ==
  ASSUME NEW s, NEW t, Core(t) = Core(s), t.nextIndex = s.nextIndex
  PROVE  Hop(s, t)
<1>1. VoteCore(t) = VoteCore(s)
  BY DEF Core, VoteCore
<1>2. NextOK(s) => NextOK(t)
  BY DEF Core, NextOK
<1> QED BY <1>1, <1>2, HopCore

\* Falling back, or starting over, as a follower.
LEMMA HopDown ==
  ASSUME NEW s \in NodeState, NEW t \in NodeState, t.role = "follower", t.id = s.id,
         t.elected = s.elected, t.currentTerm >= s.currentTerm
  PROVE  Hop(s, t)
<1>1. s.currentTerm \in Nat /\ t.currentTerm \in Nat /\ s.elected \in SUBSET Nat
  BY DEF NodeState
<1>2. SeatOK(s) => SeatOK(t)
  BY <1>1 DEF SeatOK
<1>3. Fresh(s, t) /\ NextOK(t) /\ VoterSeat(t)
  BY DEF Fresh, NextOK, VoterSeat
<1> QED BY <1>2, <1>3 DEF Hop

LEMMA HopBecomeFollower ==
  ASSUME NEW s \in NodeState, NEW k \in Nat
  PROVE  Hop(s, BecomeFollower(s, k))
<1> DEFINE t == BecomeFollower(s, k)
<1>1. s.currentTerm \in Nat
  BY DEF NodeState
<1>2. /\ t \in NodeState /\ t.id = s.id /\ t.role = "follower" /\ t.elected = s.elected
      /\ t.currentTerm = IF k > s.currentTerm THEN k ELSE s.currentTerm
  BY BecomeFollowerType
<1> HIDE DEF t
<1>3. Hop(s, t)
  BY <1>1, <1>2, HopDown
<1> QED BY <1>3 DEF t

LEMMA HopFollowLeader ==
  ASSUME NEW s \in NodeState, NEW m, m.term \in Nat, m.from \in Node
  PROVE  /\ Hop(s, FollowLeader(s, m))
         /\ FollowLeader(s, m).role = "follower" \/ FollowLeader(s, m) = s
         /\ FollowLeader(s, m).out = s.out
<1> DEFINE f == BecomeFollower(s, m.term)
           t == FollowLeader(s, m)
<1>1. f \in NodeState /\ f.role = "follower" /\ f.out = s.out /\ Hop(s, f)
  BY BecomeFollowerType, HopBecomeFollower
<1>2. t = s \/ t = [f EXCEPT !.leaderId = m.from]
  BY DEF FollowLeader
<1> HIDE DEF f, t
<1>3. CASE t = [f EXCEPT !.leaderId = m.from]
  <2>1. Core(t) = Core(f) /\ t.nextIndex = f.nextIndex /\ t.role = f.role /\ t.out = f.out
    BY <1>1, <1>3 DEF NodeState, Core
  <2>2. Hop(s, t)
    BY <1>1, <2>1, HopSame, HopTrans
  <2> QED BY <1>1, <2>1, <2>2 DEF t
<1>4. CASE t = s
  BY <1>4, HopSelf DEF t
<1> QED BY <1>2, <1>3, <1>4

LEMMA HopVoted ==
  ASSUME NEW s \in NodeState, NEW m \in RequestVoteMsg
  PROVE  Hop(s, Voted(s, m)) /\ Voted(s, m).out = s.out
<1> DEFINE u == Updated(s, m)
           f == BecomeFollower(u, u.currentTerm)
           v == LogSaveMetadata(f, u.currentTerm, m.from)
<1>1. m.term \in Nat /\ m.from \in NodeOrNone
  BY DEF RequestVoteMsg, NodeOrNone
<1>2. u \in NodeState /\ Hop(s, u) /\ u.out = s.out
  BY <1>1, BecomeFollowerType, HopBecomeFollower, HopSelf DEF Updated
<1>3. Voted(s, m) = u \/ Voted(s, m) = v
  BY DEF Voted
<1> HIDE DEF u
<1>4. u.currentTerm \in Nat
  BY <1>2 DEF NodeState
<1>5. /\ f \in NodeState /\ f.id = u.id /\ f.role = "follower" /\ f.elected = u.elected
      /\ f.out = u.out /\ f.currentTerm = u.currentTerm
  BY <1>2, <1>4, BecomeFollowerType
<1> HIDE DEF f
<1>6. v \in NodeState
  BY <1>1, <1>4, <1>5, LogSaveMetadataType
<1>7. /\ v.id = f.id /\ v.role = f.role /\ v.elected = f.elected /\ v.out = f.out
      /\ v.currentTerm = u.currentTerm
  BY <1>5 DEF LogSaveMetadata, NodeState
<1> HIDE DEF v
<1>8. Hop(u, v)
  BY <1>2, <1>4, <1>5, <1>6, <1>7, HopDown
<1>9. Hop(s, v)
  BY <1>2, <1>8, HopTrans
<1> QED BY <1>2, <1>3, <1>5, <1>7, <1>9

LEMMA HopPreCandidate ==
  ASSUME NEW s \in NodeState, ~ IsLearner(s)
  PROVE  Hop(s, PreCandidate(s))
<1> DEFINE c == PreCandidate(s)
<1>1. /\ c.id = s.id /\ c.learners = s.learners /\ c.role = "pre-candidate"
      /\ c.elected = s.elected /\ c.currentTerm = s.currentTerm
  BY PreCandidateType
<1> HIDE DEF c
<1>2. SeatOK(s) => SeatOK(c)
  BY <1>1 DEF SeatOK
<1>3. Fresh(s, c) /\ NextOK(c) /\ VoterSeat(c)
  BY <1>1 DEF Fresh, NextOK, VoterSeat, IsLearner
<1>4. Hop(s, c)
  BY <1>1, <1>2, <1>3 DEF Hop
<1> QED BY <1>4 DEF c

LEMMA HopCandidate ==
  ASSUME NEW s \in NodeState, s.role = "pre-candidate"
  PROVE  Hop(s, Candidate(s))
<1> DEFINE c == Candidate(s)
<1>1. /\ c.id = s.id /\ c.learners = s.learners /\ c.role = "candidate"
      /\ c.elected = s.elected /\ c.currentTerm = s.currentTerm + 1 /\ c.votedFor = s.id
  BY CandidateType
<1>2. s.currentTerm \in Nat /\ s.elected \in SUBSET Nat
  BY DEF NodeState
<1> HIDE DEF c
<1>3. SeatOK(s) => SeatOK(c)
  BY <1>1, <1>2 DEF SeatOK
<1>4. Fresh(s, c) /\ NextOK(c) /\ (VoterSeat(s) => VoterSeat(c))
  BY <1>1 DEF Fresh, NextOK, VoterSeat
<1>5. Hop(s, c)
  BY <1>1, <1>3, <1>4 DEF Hop
<1> QED BY <1>5 DEF c

LEMMA HopReplicate ==
  ASSUME NEW s \in NodeState
  PROVE  Hop(s, ReplicateToPeers(s))
<1>1. Core(ReplicateToPeers(s)) = Core(s)
  BY ReplicateToPeersType
<1>2. ReplicateToPeers(s).nextIndex = s.nextIndex
  BY DEF ReplicateToPeers, NodeState
<1> QED BY <1>1, <1>2, HopSame

\* Winning: the terms led grow, and everybody gets a next index and a copy.
LEMMA BecomeLeaderEffect ==
  ASSUME NEW s \in NodeState, s.role = "candidate", Chatter(s)
  PROVE  Hop(s, BecomeLeader(s)) /\ Letters(BecomeLeader(s))
<1> DEFINE next == [p \in Node |-> IF p \in s.peers \cup s.learners
                                   THEN LogLastIndex(s) + 1 ELSE 0]
           zero == [p \in Node |-> 0]
           el == s.elected \cup {s.currentTerm}
           l == [s EXCEPT !.role = "leader", !.leaderId = s.id, !.nextIndex = next,
                          !.matchIndex = zero, !.elected = el]
<1>1. next \in Progress /\ zero \in Progress /\ LogLastIndex(s) \in Nat
  BY LogLastIndexType DEF Progress
<1>2. /\ el \in SUBSET Nat /\ s.id \in NodeOrNone /\ "leader" \in Role
      /\ s.peers \in SUBSET Node /\ s.learners \in SUBSET Node
      /\ s.currentTerm \in Nat /\ s.elected \in SUBSET Nat
  BY DEF NodeState, NodeOrNone, Role
<1>3. BecomeLeader(s) = ReplicateToPeers(l)
  BY DEF BecomeLeader, NodeState
<1>4. \A p \in s.peers \cup s.learners : next[p] >= 1
  BY <1>1, <1>2
<1> HIDE DEF next, zero
<1>5. /\ l \in NodeState /\ l.role = "leader" /\ l.id = s.id /\ l.nextIndex = next
      /\ l.peers = s.peers /\ l.learners = s.learners /\ l.elected = el /\ l.out = s.out
      /\ l.currentTerm = s.currentTerm /\ l.votedFor = s.votedFor
  BY <1>1, <1>2 DEF NodeState
<1> HIDE DEF l
<1>6. SeatOK(s) => SeatOK(l) /\ Fresh(s, l)
  BY <1>2, <1>5 DEF SeatOK, Fresh
<1>7. NextOK(l) /\ (VoterSeat(s) => VoterSeat(l))
  BY <1>4, <1>5 DEF NextOK, VoterSeat
<1>8. Hop(s, l)
  BY <1>5, <1>6, <1>7 DEF Hop
<1>9. Chatter(l)
  BY <1>5, ChatterOfSame
<1>10. Hop(l, ReplicateToPeers(l)) /\ Letters(ReplicateToPeers(l))
  BY <1>5, <1>9, HopReplicate, ReplicateLetters
<1> QED BY <1>3, <1>8, <1>10, HopTrans

(***************************************************************************)
(* What the handlers do to a table whose mail is out: one by one.          *)
(***************************************************************************)
Reaches(s, h) == Hop(s, h) /\ Letters(h)

LEMMA ReachesOn ==
  ASSUME NEW s, NEW t, NEW h, Hop(s, t), Reaches(t, h)
  PROVE  Reaches(s, h)
BY HopTrans DEF Reaches

LEMMA MaybeWinReaches ==
  ASSUME NEW s \in NodeState, Chatter(s)
  PROVE  Reaches(s, MaybeWinElection(s))
<1>1. CASE s.role = "candidate" /\ MaybeWinElection(s) = BecomeLeader(s)
  BY <1>1, BecomeLeaderEffect DEF Reaches
<1>2. CASE MaybeWinElection(s) = s
  BY <1>2, HopSelf, ChatterIsLetters DEF Reaches
<1> QED BY <1>1, <1>2 DEF MaybeWinElection

LEMMA MaybeStartReaches ==
  ASSUME NEW s \in NodeState, Chatter(s)
  PROVE  Reaches(s, MaybeStartRealElection(s))
<1>1. CASE s.role = "pre-candidate" /\ MaybeStartRealElection(s) = BecomeCandidateForReal(s)
  <2>1. PICK m \in PlainMsg :
          /\ m.type = "request-vote" /\ m.from = s.id
          /\ BecomeCandidateForReal(s) = MaybeWinElection(SendToPeers(Candidate(s), m))
    BY BecomeCandidateForRealIs
  <2> DEFINE c == Candidate(s)
             d == SendToPeers(c, m)
  <2>2. /\ c \in NodeState /\ c.id = s.id /\ c.peers = s.peers /\ Hop(s, c)
    BY <1>1, CandidateType, HopCandidate
  <2>3. c.out = s.out
    BY DEF Candidate, LogSaveMetadata, NodeState
  <2>4. d \in NodeState /\ Core(d) = Core(c) /\ d.nextIndex = c.nextIndex
    BY <2>2, SendToPeersType DEF SendToPeers, NodeState
  <2> HIDE DEF c
  <2>5. Chatter(c)
    BY <2>2, <2>3, ChatterOfSame
  <2>6. Chatter(d)
    BY <2>1, <2>2, <2>5, SendToPeersChatter DEF EntryMail
  <2>7. Hop(s, d)
    BY <2>2, <2>4, HopSame, HopTrans
  <2>8. Reaches(d, MaybeWinElection(d))
    BY <2>4, <2>6, MaybeWinReaches
  <2> QED BY <1>1, <2>1, <2>7, <2>8, ReachesOn DEF c
<1>2. CASE MaybeStartRealElection(s) = s
  BY <1>2, HopSelf, ChatterIsLetters DEF Reaches
<1> QED BY <1>1, <1>2 DEF MaybeStartRealElection

LEMMA StartElectionReaches ==
  ASSUME NEW s \in NodeState, Chatter(s)
  PROVE  Reaches(s, StartElection(s))
<1>1. PICK m \in PlainMsg :
        /\ m.type = "pre-vote" /\ m.from = s.id
        /\ StartElection(s) = IF IsLearner(s) THEN s
                ELSE MaybeStartRealElection(SendToPeers(PreCandidate(s), m))
  BY StartElectionIs
<1>2. CASE ~ IsLearner(s)
  <2> DEFINE c == PreCandidate(s)
             d == SendToPeers(c, m)
  <2>2. /\ c \in NodeState /\ c.id = s.id /\ c.peers = s.peers /\ Hop(s, c)
    BY <1>2, PreCandidateType, HopPreCandidate
  <2>3. c.out = s.out
    BY DEF PreCandidate, NodeState
  <2>4. d \in NodeState /\ Core(d) = Core(c) /\ d.nextIndex = c.nextIndex
    BY <2>2, SendToPeersType DEF SendToPeers, NodeState
  <2> HIDE DEF c
  <2>5. Chatter(c)
    BY <2>2, <2>3, ChatterOfSame
  <2>6. Chatter(d)
    BY <1>1, <2>2, <2>5, SendToPeersChatter DEF EntryMail
  <2>7. Hop(s, d)
    BY <2>2, <2>4, HopSame, HopTrans
  <2>8. Reaches(d, MaybeStartRealElection(d))
    BY <2>4, <2>6, MaybeStartReaches
  <2> QED BY <1>1, <1>2, <2>7, <2>8, ReachesOn DEF c
<1>3. CASE IsLearner(s)
  BY <1>1, <1>3, HopSelf, ChatterIsLetters DEF Reaches
<1> QED BY <1>2, <1>3

\* A node that a committed change makes a peer or a learner of the leader gets
\* a next index from it.
LEMMA ConfigNext ==
  ASSUME NEW s \in NodeState, NEW from, NEW to
  PROVE  /\ NextOK(s) => NextOK(ApplyConfigChanges(s, from, to))
         /\ ApplyConfigChanges(s, from, to).out = s.out
<1> DEFINE Seats(p)  == Changes(s, from, to, Action \ {"add-learner"}, p)
           All(p)    == Changes(s, from, to, Action, p)
           Joins(p)  == Changes(s, from, to, Action \ {"remove-peer"}, p)
           LastAct(K) == ActionOf[s.log[Max(K)].data]
           ps == {p \in Node : IF Seats(p) = {} THEN p \in s.peers
                               ELSE LastAct(Seats(p)) # "remove-peer"}
           ls == {p \in Node : IF All(p) = {} THEN p \in s.learners
                               ELSE LastAct(All(p)) = "add-learner"}
           next == [p \in Node |-> IF s.role = "leader" /\ Joins(p) # {} /\ s.nextIndex[p] = 0
                                   THEN LogLastIndex(s) + 1 ELSE s.nextIndex[p]]
           c == ApplyConfigChanges(s, from, to)
<1>1. c = [s EXCEPT !.peers = ps, !.learners = ls, !.nextIndex = next]
  BY DEF ApplyConfigChanges, NodeState
<1>2. s.log \in Log /\ LogLastIndex(s) \in Nat /\ s.nextIndex \in [Node -> Nat]
  BY LogLastIndexType DEF NodeState, Progress
<1>3. DOMAIN s.log \in SUBSET Int /\ IsFiniteSet(DOMAIN s.log)
  BY <1>2 DEF Log, FiniteIndexSet, Index
<1>4. \A K : K \subseteq DOMAIN s.log /\ K # {} => Max(K) \in K
  <2> SUFFICES ASSUME NEW K, K \subseteq DOMAIN s.log, K # {} PROVE Max(K) \in K
    OBVIOUS
  <2>1. IsFiniteSet(K) /\ K \in SUBSET Int
    BY <1>3, FS_Subset
  <2> QED BY <2>1, MaxIsMember
<1>5. \A p : Seats(p) \subseteq DOMAIN s.log /\ All(p) \subseteq DOMAIN s.log
  BY DEF Changes
<1>6. ASSUME NEW p \in Node, NEW k, k \in Seats(p) \/ k \in All(p),
             ActionOf[s.log[k].data] # "remove-peer"
      PROVE  k \in Joins(p)
  BY <1>6 DEF Changes
<1>7. ASSUME NEW p \in ps PROVE p \in s.peers \/ Joins(p) # {}
  <2>1. CASE Seats(p) # {}
    <3>1. Max(Seats(p)) \in Seats(p) /\ LastAct(Seats(p)) # "remove-peer"
      BY <1>4, <1>5, <2>1
    <3> QED BY <1>6, <3>1
  <2> QED BY <2>1
<1>8. ASSUME NEW p \in ls PROVE p \in s.learners \/ Joins(p) # {}
  <2>1. CASE All(p) # {}
    <3>1. Max(All(p)) \in All(p) /\ LastAct(All(p)) = "add-learner"
      BY <1>4, <1>5, <2>1
    <3> QED BY <1>6, <3>1
  <2> QED BY <2>1
<1>9. ASSUME NextOK(s), s.role = "leader", NEW p \in Node,
             p \in s.peers \cup s.learners \/ Joins(p) # {}
      PROVE  next[p] >= 1
  <2>1. s.nextIndex[p] \in Nat
    BY <1>2
  <2>2. CASE Joins(p) # {}
    <3>1. next[p] = IF s.nextIndex[p] = 0 THEN LogLastIndex(s) + 1 ELSE s.nextIndex[p]
      BY <1>9, <2>2
    <3> HIDE DEF next
    <3> QED BY <1>2, <2>1, <3>1
  <2>3. CASE p \in s.peers \cup s.learners
    <3>1. s.nextIndex[p] >= 1
      BY <1>9, <2>3 DEF NextOK
    <3> QED BY <1>2, <2>1, <3>1
  <2> QED BY <1>9, <2>2, <2>3
<1>10. NextOK(s) /\ s.role = "leader" => \A p \in ps \cup ls : next[p] >= 1
  BY <1>7, <1>8, <1>9
<1> HIDE DEF ps, ls, next, c
<1>11. /\ c.role = s.role /\ c.out = s.out /\ c.peers = ps /\ c.learners = ls
       /\ c.nextIndex = next
  BY <1>1 DEF NodeState
<1> QED BY <1>10, <1>11 DEF NextOK, c

LEMMA ApplyCommittedNext ==
  ASSUME NEW s \in NodeState
  PROVE  /\ NextOK(s) => NextOK(ApplyCommitted(s))
         /\ ApplyCommitted(s).out = s.out
<1> DEFINE from == s.lastApplied + 1
           to   == s.commitIndex
           done == DOMAIN s.log \cap DOMAIN s.pending \cap (from .. to)
           p    == AutoSnapshotPoint(s, from, to)
           c    == ApplyConfigChanges(s, from, to)
           a    == [c EXCEPT
                     !.sm = @ \o Applied(s, from, to),
                     !.lastApplied = to,
                     !.pending = Restrict(@, DOMAIN @ \ done),
                     !.replies = [r \in Request |->
                        IF \E k \in done : s.pending[k] = r THEN Append(@[r], "ok") ELSE @[r]]]
           b    == LogSaveSnapshot(a, p, LogTermAt(s, p), s.sm \o Applied(s, from, p))
           z    == [b EXCEPT !.lastSnapshotIndex = p]
           Same(x) == /\ x.role = c.role /\ x.peers = c.peers /\ x.learners = c.learners
                      /\ x.nextIndex = c.nextIndex /\ x.out = c.out
<1>1. ApplyCommitted(s) \in {s, a, z}
  BY DEF ApplyCommitted
<1>2. c \in NodeState /\ (NextOK(s) => NextOK(c)) /\ c.out = s.out
  BY ApplyConfigChangesType, ConfigNext
<1> HIDE DEF c
<1>3. Same(a)
  BY <1>2 DEF NodeState
<1>4. DOMAIN a = DOMAIN c
  OBVIOUS
<1> HIDE DEF a
<1>5. DOMAIN a = {"id", "running", "peers", "learners", "role", "currentTerm", "votedFor",
        "leaderId", "commitIndex", "lastApplied", "lastSnapshotIndex", "nextIndex",
        "matchIndex", "votes", "prevotes", "electionEpoch", "ticker", "pending", "log",
        "snap", "sm", "out", "replies", "ballots", "elected"}
  BY <1>2, <1>4 DEF NodeState
<1>6. Same(z)
  BY <1>3, <1>5 DEF LogSaveSnapshot
<1> HIDE DEF z
<1>7. \A x : Same(x) => (NextOK(s) => NextOK(x)) /\ x.out = s.out
  BY <1>2 DEF NextOK
<1> QED BY <1>1, <1>3, <1>6, <1>7

LEMMA RecomputeNext ==
  ASSUME NEW s \in NodeState
  PROVE  LET c == RecomputeCommitIndex(s)
         IN  c.nextIndex = s.nextIndex /\ c.out = s.out
BY DEF RecomputeCommitIndex, NodeState

LEMMA AcknowledgeNext ==
  ASSUME NEW s \in NodeState, NEW p \in Node, NEW k \in Nat
  PROVE  /\ NextOK(s) => NextOK(Acknowledge(s, p, k))
         /\ Acknowledge(s, p, k).out = s.out
<1> DEFINE match == [s.matchIndex EXCEPT ![p] = Larger(k, @)]
           next == [s.nextIndex EXCEPT ![p] = k + 1]
           t == [s EXCEPT !.matchIndex = match, !.nextIndex = next]
           c == RecomputeCommitIndex(t)
<1>1. s.matchIndex \in [Node -> Nat] /\ s.nextIndex \in [Node -> Nat]
  BY DEF NodeState, Progress
<1>2. match \in Progress /\ next \in Progress
  BY <1>1 DEF Larger, Progress
<1>3. t = [s EXCEPT !.matchIndex[p] = Larger(k, @), !.nextIndex[p] = k + 1]
  BY DEF NodeState
<1>4. Acknowledge(s, p, k) = IF c.commitIndex > t.commitIndex THEN ApplyCommitted(c) ELSE t
  BY <1>3 DEF Acknowledge
<1>5. \A q \in Node : next[q] = IF q = p THEN k + 1 ELSE s.nextIndex[q]
  BY <1>1
<1> HIDE DEF match, next
<1>6. /\ t \in NodeState /\ t.role = s.role /\ t.peers = s.peers /\ t.learners = s.learners
      /\ t.nextIndex = next /\ t.out = s.out
  BY <1>2 DEF NodeState
<1> HIDE DEF t
<1>7. s.peers \in SUBSET Node /\ s.learners \in SUBSET Node
  BY DEF NodeState
<1>8. NextOK(s) => NextOK(t)
  BY <1>5, <1>6, <1>7 DEF NextOK
<1>9. c \in NodeState /\ Core(c) = Core(t) /\ c.nextIndex = t.nextIndex /\ c.out = t.out
  BY <1>6, RecomputeCommitIndexType, RecomputeNext
<1> HIDE DEF c
<1>10. NextOK(t) => NextOK(c)
  BY <1>9 DEF NextOK, Core
<1>11. (NextOK(c) => NextOK(ApplyCommitted(c))) /\ ApplyCommitted(c).out = c.out
  BY <1>9, <1>10, ApplyCommittedNext
<1> QED BY <1>4, <1>6, <1>8, <1>9, <1>10, <1>11

\* Why a candidate or a leader falls back: a later term, a leader's mail of its
\* own term, or a vote that it is asked to give to itself.
Yields(s, t, m) ==
  SeatOK(s) /\ s.role \in {"candidate", "leader"} /\ t.role = "follower" =>
    \/ t.currentTerm > s.currentTerm
    \/ m.type \in EntryMail /\ m.term = s.currentTerm
    \/ m.type = "request-vote" /\ m.from = s.id

LEMMA YieldsSameRole ==
  ASSUME NEW s, NEW t, NEW m, t.role = s.role \/ t.role # "follower"
  PROVE  Yields(s, t, m)
BY DEF Yields

LEMMA YieldsToTerm ==
  ASSUME NEW s \in NodeState, NEW m, m.term \in Nat, m.term > s.currentTerm
  PROVE  Yields(s, BecomeFollower(s, m.term), m)
BY BecomeFollowerType DEF Yields

\* A refusal or an election result, on a table whose mail is out.
LEMMA BecomeFollowerReaches ==
  ASSUME NEW s \in NodeState, s.out = Nothing, NEW k \in Nat
  PROVE  Reaches(s, BecomeFollower(s, k))
<1>1. BecomeFollower(s, k).out = Nothing
  BY BecomeFollowerType
<1> QED BY <1>1, HopBecomeFollower, NothingIsChatter, ChatterIsLetters DEF Reaches

LEMMA SelfReaches ==
  ASSUME NEW s, s.out = Nothing
  PROVE  Reaches(s, s)
BY HopSelf, NothingIsChatter, ChatterIsLetters DEF Reaches

LEMMA VoteHandled ==
  ASSUME NEW s \in NodeState, s.out = Nothing, NEW m \in RequestVoteMsg
  PROVE  LET v == Voted(s, m)
         IN  /\ Hop(s, v) /\ Yields(s, v, m)
             /\ Chatter(Send(v, m.from, VoteAnswer(s, m)))
<1> DEFINE v == Voted(s, m)
           u == Updated(s, m)
           f == BecomeFollower(u, u.currentTerm)
           w == LogSaveMetadata(f, u.currentTerm, m.from)
<1>1. /\ m.term \in Nat /\ m.from \in Node /\ m.type = "request-vote"
      /\ s.currentTerm \in Nat /\ s.id \in Node
  BY DEF RequestVoteMsg, NodeState
<1>2. /\ v \in NodeState /\ VoteAnswer(s, m) \in RequestVoteResponseMsg
      /\ Hop(s, v) /\ v.out = s.out
  BY VotedType, HopVoted
<1>3. Chatter(v)
  BY <1>2, NothingIsChatter
<1>4. Chatter(Send(v, m.from, VoteAnswer(s, m)))
  <2>1. VoteAnswer(s, m) \in Message /\ VoteAnswer(s, m).type = "request-vote-response"
    BY <1>2 DEF Message, RequestVoteResponseMsg
  <2> HIDE DEF v
  <2>2. VoteAnswer(s, m).type \notin EntryMail /\ VoteAnswer(s, m).type # "request-vote"
    BY <2>1 DEF EntryMail
  <2> QED BY <1>1, <1>2, <1>3, <2>1, <2>2, SendChatter
<1>5. CASE m.term > s.currentTerm
  <2>1. u = BecomeFollower(s, m.term)
    BY <1>5 DEF Updated
  <2>2. u \in NodeState /\ u.currentTerm = m.term
    BY <1>1, <1>5, <2>1, BecomeFollowerType
  <2> HIDE DEF u
  <2>3. f \in NodeState
    BY <1>1, <2>2, BecomeFollowerType
  <2> HIDE DEF f
  <2>4. w.currentTerm = u.currentTerm
    BY <2>3 DEF LogSaveMetadata, NodeState
  <2>5. v = u \/ v = w
    BY DEF Voted, u, f
  <2>6. v.currentTerm > s.currentTerm
    BY <1>5, <2>2, <2>4, <2>5
  <2>7. Yields(s, v, m)
    BY <2>6 DEF Yields
  <2> QED BY <1>2, <1>4, <2>7
<1>6. CASE ~ (m.term > s.currentTerm)
  <2>1. u = s
    BY <1>6 DEF Updated
  <2>2. CASE ~ Granted(u, m)
    <3>1. v = s
      BY <2>1, <2>2 DEF Voted
    <3>2. Yields(s, v, m)
      BY <3>1, YieldsSameRole
    <3> QED BY <1>2, <1>4, <3>2
  <2>3. CASE Granted(u, m)
    <3>1. s.votedFor \in {None, m.from}
      BY <2>1, <2>3 DEF Granted
    <3>2. SeatOK(s) /\ s.role \in {"candidate", "leader"} => m.from = s.id
      BY <1>1, <3>1, NodeAssumption DEF SeatOK
    <3>3. Yields(s, v, m)
      BY <1>1, <3>2 DEF Yields
    <3> QED BY <1>2, <1>4, <3>3
  <2> QED BY <2>2, <2>3
<1> QED BY <1>5, <1>6

LEMMA ElectionMailHandled ==
  ASSUME NEW s \in NodeState, s.out = Nothing
  PROVE  /\ \A m \in RequestVoteResponseMsg :
              LET h == HandleRequestVoteResponse(s, m) IN Reaches(s, h) /\ Yields(s, h, m)
         /\ \A m \in PreVoteMsg :
              LET h == HandlePreVote(s, m) IN Reaches(s, h) /\ Yields(s, h, m)
         /\ \A m \in PreVoteResponseMsg :
              LET h == HandlePreVoteResponse(s, m) IN Reaches(s, h) /\ Yields(s, h, m)
<1>0. Chatter(s) /\ Reaches(s, s)
  BY NothingIsChatter, SelfReaches
<1>1. ASSUME NEW m \in RequestVoteResponseMsg
      PROVE  LET h == HandleRequestVoteResponse(s, m) IN Reaches(s, h) /\ Yields(s, h, m)
  <2> DEFINE v == s.votes \cup {m.from}
             w == [s EXCEPT !.votes = v]
             h == HandleRequestVoteResponse(s, m)
  <2>1. m.term \in Nat /\ v \in SUBSET Node /\ s.currentTerm \in Nat
    BY DEF RequestVoteResponseMsg, NodeState
  <2>2. w = [s EXCEPT !.votes = @ \cup {m.from}]
    BY DEF NodeState
  <2>3. \/ m.term > s.currentTerm /\ h = BecomeFollower(s, m.term)
        \/ h = MaybeWinElection(w)
        \/ h = s
    BY <2>2 DEF HandleRequestVoteResponse
  <2> HIDE DEF v, h
  <2>4. /\ w \in NodeState /\ w.out = Nothing /\ w.role = s.role /\ w.peers = s.peers
        /\ w.id = s.id /\ w.learners = s.learners /\ w.currentTerm = s.currentTerm
        /\ w.votedFor = s.votedFor /\ w.elected = s.elected /\ w.nextIndex = s.nextIndex
    BY <2>1 DEF NodeState
  <2> HIDE DEF w
  <2>5. Hop(s, w)
    BY <2>4 DEF Hop, SeatOK, Fresh, NextOK, VoterSeat
  <2>6. Reaches(s, MaybeWinElection(w))
    BY <2>4, <2>5, NothingIsChatter, MaybeWinReaches, ReachesOn
  <2>7. MaybeWinElection(w).role = s.role \/ MaybeWinElection(w).role = "leader"
    BY <2>4, BecomeLeaderType DEF MaybeWinElection
  <2>8. Yields(s, MaybeWinElection(w), m)
    BY <2>7, YieldsSameRole
  <2>9. CASE m.term > s.currentTerm /\ h = BecomeFollower(s, m.term)
    BY <2>1, <2>9, YieldsToTerm, BecomeFollowerReaches DEF h
  <2>10. CASE h = s
    BY <1>0, <2>10, YieldsSameRole DEF h
  <2> QED BY <2>3, <2>6, <2>8, <2>9, <2>10 DEF h
<1>2. ASSUME NEW m \in PreVoteMsg
      PROVE  LET h == HandlePreVote(s, m) IN Reaches(s, h) /\ Yields(s, h, m)
  <2> DEFINE a == [type |-> "pre-vote-response", term |-> s.currentTerm,
                   granted |-> /\ ~ IsLearner(s)
                               /\ m.term >= s.currentTerm
                               /\ LogUpToDate(s, m),
                   from |-> s.id, epoch |-> m.epoch]
  <2>1. HandlePreVote(s, m) = Send(s, m.from, a)
    BY DEF HandlePreVote
  <2>2. m.from \in Node /\ m.epoch \in Nat /\ s.currentTerm \in Nat /\ s.id \in Node
    BY DEF PreVoteMsg, NodeState
  <2>3. a \in PreVoteResponseMsg
    BY <2>2 DEF PreVoteResponseMsg
  <2>4. a \in Message /\ a \in PlainMsg /\ a.type = "pre-vote-response"
    BY <2>3 DEF Message, PlainMsg
  <2> HIDE DEF a
  <2>5. a.type \notin EntryMail /\ a.type # "request-vote"
    BY <2>4 DEF EntryMail
  <2>6. Chatter(Send(s, m.from, a))
    BY <1>0, <2>2, <2>4, <2>5, SendChatter
  <2>7. Core(Send(s, m.from, a)) = Core(s)
    BY <2>2, <2>4, SendType
  <2>8. Send(s, m.from, a).nextIndex = s.nextIndex
    BY DEF Send, NodeState
  <2>9. Hop(s, Send(s, m.from, a))
    BY <2>7, <2>8, HopSame
  <2>10. Yields(s, Send(s, m.from, a), m)
    BY <2>7, YieldsSameRole DEF Core
  <2> QED BY <2>1, <2>6, <2>9, <2>10, ChatterIsLetters DEF Reaches
<1>3. ASSUME NEW m \in PreVoteResponseMsg
      PROVE  LET h == HandlePreVoteResponse(s, m) IN Reaches(s, h) /\ Yields(s, h, m)
  <2> DEFINE w == [s EXCEPT !.prevotes = @ \cup {m.from}]
             h == HandlePreVoteResponse(s, m)
  <2>1. m.term \in Nat /\ m.from \in Node /\ s.currentTerm \in Nat
    BY DEF PreVoteResponseMsg, NodeState
  <2>2. \/ m.term > s.currentTerm /\ h = BecomeFollower(s, m.term)
        \/ h = MaybeStartRealElection(w)
        \/ h = s
    BY DEF HandlePreVoteResponse
  <2> HIDE DEF h
  <2>3. w \in NodeState /\ Core(w) = Core(s)
    BY <2>1, PrevoteCounted
  <2>4. w.out = Nothing /\ w.nextIndex = s.nextIndex /\ w.role = s.role
    BY DEF NodeState
  <2> HIDE DEF w
  <2>5. Hop(s, w)
    BY <2>3, <2>4, HopSame
  <2>6. Reaches(s, MaybeStartRealElection(w))
    BY <2>3, <2>4, <2>5, NothingIsChatter, MaybeStartReaches, ReachesOn
  <2>7. \/ MaybeStartRealElection(w).role = s.role
        \/ MaybeStartRealElection(w).role # "follower"
    BY <2>3, <2>4, MaybeStartRealElectionView DEF Campaigns
  <2>8. Yields(s, MaybeStartRealElection(w), m)
    BY <2>7, YieldsSameRole
  <2>9. CASE m.term > s.currentTerm /\ h = BecomeFollower(s, m.term)
    BY <2>1, <2>9, YieldsToTerm, BecomeFollowerReaches DEF h
  <2>10. CASE h = s
    BY <1>0, <2>10, YieldsSameRole DEF h
  <2> QED BY <2>2, <2>6, <2>8, <2>9, <2>10 DEF h
<1> QED BY <1>1, <1>2, <1>3

LEMMA AnswerChatter ==
  ASSUME NEW s \in NodeState, s.out = Nothing, NEW p \in Node, NEW ok \in BOOLEAN,
         NEW k \in Nat, NEW id \in Node
  PROVE  /\ Chatter(AppendAnswer(s, p, ok, k, id))
         /\ AppendAnswer(s, p, ok, k, id).nextIndex = s.nextIndex
<1> DEFINE a == [type |-> "append-entries-response", term |-> s.currentTerm,
                 success |-> ok, match |-> k, from |-> id]
<1>1. s.currentTerm \in Nat
  BY DEF NodeState
<1>2. a \in AppendEntriesResponseMsg
  BY <1>1 DEF AppendEntriesResponseMsg
<1>3. a \in Message
  BY <1>2 DEF Message, PlainMsg
<1>4. a.type \notin EntryMail /\ a.type # "request-vote"
  BY DEF EntryMail
<1>5. AppendAnswer(s, p, ok, k, id) = Send(s, p, a)
  BY DEF AppendAnswer
<1> HIDE DEF a
<1>6. Chatter(Send(s, p, a))
  BY <1>3, <1>4, NothingIsChatter, SendChatter
<1>7. Send(s, p, a).nextIndex = s.nextIndex
  BY DEF Send, NodeState
<1> QED BY <1>5, <1>6, <1>7

LEMMA SnapshotChatter ==
  ASSUME NEW s \in NodeState, s.out = Nothing, NEW p \in Node, NEW k \in Nat,
         NEW id \in Node
  PROVE  /\ Chatter(SnapshotAnswer(s, p, k, id))
         /\ SnapshotAnswer(s, p, k, id).nextIndex = s.nextIndex
<1> DEFINE a == [type |-> "install-snapshot-response", term |-> s.currentTerm,
                 lastIndex |-> k, from |-> id]
<1>1. s.currentTerm \in Nat
  BY DEF NodeState
<1>2. a \in InstallSnapshotResponseMsg
  BY <1>1 DEF InstallSnapshotResponseMsg
<1>3. a \in Message
  BY <1>2 DEF Message, PlainMsg
<1>4. a.type \notin EntryMail /\ a.type # "request-vote"
  BY DEF EntryMail
<1>5. SnapshotAnswer(s, p, k, id) = Send(s, p, a)
  BY DEF SnapshotAnswer
<1> HIDE DEF a
<1>6. Chatter(Send(s, p, a))
  BY <1>3, <1>4, NothingIsChatter, SendChatter
<1>7. Send(s, p, a).nextIndex = s.nextIndex
  BY DEF Send, NodeState
<1> QED BY <1>5, <1>6, <1>7

LEMMA AppendEntriesHandled ==
  ASSUME NEW s \in NodeState, s.out = Nothing, NEW m \in AppendEntriesMsg
  PROVE  LET h == HandleAppendEntries(s, m) IN Reaches(s, h) /\ Yields(s, h, m)
<1> DEFINE u == FollowLeader(s, m)
           log == LogAppendAll(u.log, m.entries)
           a == [u EXCEPT !.log = log]
           k == Smaller(m.commit, LogLastIndex(a))
           b == [a EXCEPT !.commitIndex = k]
           c == IF m.commit > a.commitIndex THEN ApplyCommitted(b) ELSE a
           h == HandleAppendEntries(s, m)
<1>1. /\ m.term \in Nat /\ m.from \in Node /\ m.entries \in Log /\ m.commit \in Nat
      /\ s.currentTerm \in Nat /\ s.id \in Node /\ m.type = "append-entries"
  BY DEF AppendEntriesMsg, NodeState
<1>2. /\ u \in NodeState /\ Hop(s, u) /\ (u.role = "follower" \/ u = s) /\ u.out = Nothing
      /\ u.currentTerm = IF m.term >= s.currentTerm THEN m.term ELSE s.currentTerm
      /\ m.term < s.currentTerm => u = s
      /\ m.term >= s.currentTerm => u.role = "follower"
  BY <1>1, FollowLeaderView, HopFollowLeader DEF Follows
<1>3. log \in Log
  BY <1>1, <1>2, LogAppendAllType DEF NodeState
<1>4. \/ h = AppendAnswer(u, m.from, FALSE, 0, s.id)
      \/ h = AppendAnswer(u, m.from, FALSE, LogLastIndex(u), s.id)
      \/ m.term >= u.currentTerm /\ h = AppendAnswer(c, m.from, TRUE, LogLastIndex(c), s.id)
  <2>1. a = [u EXCEPT !.log = LogAppendAll(@, m.entries)]
    BY <1>2 DEF NodeState
  <2>2. ~ (m.term < u.currentTerm) => m.term >= u.currentTerm
    BY <1>1, <1>2
  <2> QED BY <2>1, <2>2 DEF HandleAppendEntries, AppendAnswer, CommitUpTo
<1>5. h \in NodeState /\ VoteCore(h) = VoteCore(u) /\ (Change = {} => Core(h) = Core(u))
  BY HandleAppendEntriesType
<1> HIDE DEF u, log, h
<1>6. a \in NodeState /\ a.out = Nothing /\ a.role = u.role
  BY <1>2, <1>3 DEF NodeState
<1> HIDE DEF a
<1>7. k \in Nat
  BY <1>1, <1>6, LogLastIndexType DEF Smaller
<1> HIDE DEF k
<1>8. b \in NodeState /\ b.out = Nothing /\ b.role = u.role
  BY <1>6, <1>7 DEF NodeState
<1> HIDE DEF b
<1>9. ASSUME m.term >= u.currentTerm, h = AppendAnswer(c, m.from, TRUE, LogLastIndex(c), s.id)
      PROVE  Chatter(h) /\ NextOK(h)
  <2>1. u.role = "follower"
    BY <1>1, <1>2, <1>9
  <2>2. c \in NodeState /\ c.out = Nothing
    BY <1>6, <1>8, <2>1, ApplyCommittedType, ApplyCommittedNext DEF NextOK
  <2> HIDE DEF c
  <2>5. \A j \in Nat : Chatter(AppendAnswer(c, m.from, TRUE, j, s.id))
    BY <1>1, <2>2, AnswerChatter
  <2>3. Chatter(h)
    BY <1>9, <2>2, <2>5, LogLastIndexType
  <2>4. NextOK(h)
    BY <1>5, <2>1 DEF NextOK, VoteCore
  <2> QED BY <2>3, <2>4
<1>10. ASSUME \/ h = AppendAnswer(u, m.from, FALSE, 0, s.id)
              \/ h = AppendAnswer(u, m.from, FALSE, LogLastIndex(u), s.id)
       PROVE  Chatter(h) /\ (NextOK(u) => NextOK(h))
  <2>1. LogLastIndex(u) \in Nat
    BY <1>2, LogLastIndexType
  <2>2. \A j \in Nat : Chatter(AppendAnswer(u, m.from, FALSE, j, s.id))
    BY <1>1, <1>2, AnswerChatter
  <2>5. \A j \in Nat : AppendAnswer(u, m.from, FALSE, j, s.id).nextIndex = u.nextIndex
    BY ZenonT(60), <1>1, <1>2, AnswerChatter
  <2>6. \A j \in Nat : Core(AppendAnswer(u, m.from, FALSE, j, s.id)) = Core(u)
    BY ZenonT(60), <1>1, <1>2, AppendAnswerType
  <2>3. PICK j \in Nat : h = AppendAnswer(u, m.from, FALSE, j, s.id)
    BY <1>10, <2>1
  <2>4. Chatter(h)
    BY <2>2, <2>3
  <2>7. h.nextIndex = u.nextIndex
    BY <2>3, <2>5
  <2>8. Core(h) = Core(u)
    BY <2>3, <2>6
  <2>9. NextOK(u) => NextOK(h)
    BY <2>7, <2>8 DEF NextOK, Core
  <2> QED BY <2>4, <2>9
<1>11. Chatter(h) /\ (NextOK(u) => NextOK(h))
  BY <1>4, <1>9, <1>10
<1>12. Hop(s, h)
  BY <1>2, <1>5, <1>11, HopCore, HopTrans
<1>13. h.role = u.role /\ h.currentTerm = u.currentTerm
  BY <1>5 DEF VoteCore
<1>14. Yields(s, h, m)
  <2>1. CASE m.term < s.currentTerm
    BY <1>2, <1>13, <2>1, YieldsSameRole
  <2>2. CASE m.term >= s.currentTerm
    BY <1>1, <1>2, <1>13, <2>2 DEF Yields, EntryMail
  <2> QED BY <1>1, <2>1, <2>2
<1> QED BY <1>11, <1>12, <1>14, ChatterIsLetters DEF Reaches, h

LEMMA InstallSnapshotHandled ==
  ASSUME NEW s \in NodeState, s.out = Nothing, NEW m \in InstallSnapshotMsg
  PROVE  LET h == HandleInstallSnapshot(s, m) IN Reaches(s, h) /\ Yields(s, h, m)
<1> DEFINE u == FollowLeader(s, m)
           b == LogSaveSnapshot(u, m.lastIndex, m.lastTerm, m.data)
           i == [b EXCEPT !.sm = m.data, !.lastSnapshotIndex = m.lastIndex,
                          !.commitIndex = Larger(b.commitIndex, m.lastIndex),
                          !.lastApplied = Larger(b.lastApplied, m.lastIndex)]
           h == HandleInstallSnapshot(s, m)
<1>1. /\ m.term \in Nat /\ m.from \in Node /\ m.lastIndex \in Nat
      /\ m.lastTerm \in Nat \cup {NoTerm} /\ m.data \in History
      /\ s.currentTerm \in Nat /\ s.id \in Node /\ m.type = "install-snapshot"
  BY DEF InstallSnapshotMsg, NodeState
<1>2. /\ u \in NodeState /\ Hop(s, u) /\ (u.role = "follower" \/ u = s) /\ u.out = Nothing
      /\ u.currentTerm = IF m.term >= s.currentTerm THEN m.term ELSE s.currentTerm
      /\ m.term < s.currentTerm => u = s
  BY <1>1, FollowLeaderView, HopFollowLeader
<1>3. b \in NodeState /\ b.out = Nothing
  BY <1>1, <1>2, LogSaveSnapshotType
<1>4. b.nextIndex = u.nextIndex
  BY <1>2 DEF LogSaveSnapshot, NodeState
<1>5. h = SnapshotAnswer(u, m.from, 0, s.id) \/ h = SnapshotAnswer(i, m.from, m.lastIndex, s.id)
  <2>1. i = [b EXCEPT !.sm = m.data, !.lastSnapshotIndex = m.lastIndex,
                      !.commitIndex = Larger(@, m.lastIndex),
                      !.lastApplied = Larger(@, m.lastIndex)]
    BY <1>3 DEF NodeState
  <2> QED BY <2>1 DEF HandleInstallSnapshot, SnapshotAnswer
<1>6. h \in NodeState /\ Core(h) = Core(u)
  BY HandleInstallSnapshotType
<1> HIDE DEF u, b, h
<1>7. b.commitIndex \in Nat /\ b.lastApplied \in Nat
  BY <1>3 DEF NodeState
<1>8. Larger(b.commitIndex, m.lastIndex) \in Nat /\ Larger(b.lastApplied, m.lastIndex) \in Nat
  BY <1>1, <1>7 DEF Larger
<1>9. i \in NodeState /\ i.out = Nothing /\ i.nextIndex = b.nextIndex
  BY <1>1, <1>3, <1>8 DEF NodeState
<1> HIDE DEF i
<1>10. Chatter(h) /\ h.nextIndex = u.nextIndex
  BY <1>1, <1>2, <1>4, <1>5, <1>9, SnapshotChatter
<1>11. Hop(s, h)
  BY <1>2, <1>6, <1>10, HopSame, HopTrans
<1>12. h.role = u.role /\ h.currentTerm = u.currentTerm
  BY <1>6 DEF Core
<1>13. Yields(s, h, m)
  <2>1. CASE m.term < s.currentTerm
    BY <1>2, <1>12, <2>1, YieldsSameRole
  <2>2. CASE m.term >= s.currentTerm
    BY <1>1, <1>2, <1>12, <2>2 DEF Yields, EntryMail
  <2> QED BY <1>1, <2>1, <2>2
<1> QED BY <1>10, <1>11, <1>13, ChatterIsLetters DEF Reaches, h

\* A follower's progress, counted by the leader.
LEMMA AcknowledgeReaches ==
  ASSUME NEW s \in NodeState, s.out = Nothing, NEW p \in Node, NEW k \in Nat
  PROVE  Reaches(s, Acknowledge(s, p, k))
<1>1. /\ VoteCore(Acknowledge(s, p, k)) = VoteCore(s)
      /\ Change = {} => Core(Acknowledge(s, p, k)) = Core(s)
  BY AcknowledgeType
<1>2. /\ NextOK(s) => NextOK(Acknowledge(s, p, k))
      /\ Acknowledge(s, p, k).out = Nothing
  BY AcknowledgeNext
<1> QED BY <1>1, <1>2, HopCore, NothingIsChatter, ChatterIsLetters DEF Reaches

LEMMA ResponsesHandled ==
  ASSUME NEW s \in NodeState, s.out = Nothing
  PROVE  /\ \A m \in AppendEntriesResponseMsg :
              LET h == HandleAppendEntriesResponse(s, m) IN Reaches(s, h) /\ Yields(s, h, m)
         /\ \A m \in InstallSnapshotResponseMsg :
              LET h == HandleInstallSnapshotResponse(s, m) IN Reaches(s, h) /\ Yields(s, h, m)
<1>0. Reaches(s, s)
  BY SelfReaches
<1>1. \A p \in Node, k \in Nat : Acknowledge(s, p, k).role = s.role
  BY AcknowledgeType DEF VoteCore
<1>2. ASSUME NEW m \in AppendEntriesResponseMsg
      PROVE  LET h == HandleAppendEntriesResponse(s, m) IN Reaches(s, h) /\ Yields(s, h, m)
  <2> DEFINE next == [s.nextIndex EXCEPT ![m.from] = Larger(1, @ - 1)]
             w == [s EXCEPT !.nextIndex = next]
             h == HandleAppendEntriesResponse(s, m)
  <2>1. m.term \in Nat /\ m.from \in Node /\ m.match \in Nat /\ s.nextIndex \in [Node -> Nat]
    BY DEF AppendEntriesResponseMsg, NodeState, Progress
  <2>2. w = [s EXCEPT !.nextIndex[m.from] = Larger(1, @ - 1)]
    BY DEF NodeState
  <2>3. \/ m.term > s.currentTerm /\ h = BecomeFollower(s, m.term)
        \/ h = Acknowledge(s, m.from, m.match)
        \/ h = w
        \/ h = s
    BY <2>2 DEF HandleAppendEntriesResponse
  <2>4. \A q \in Node : next[q] >= 1 \/ next[q] = s.nextIndex[q]
    BY <2>1 DEF Larger
  <2>5. next \in Progress
    BY <2>1 DEF Larger, Progress
  <2> HIDE DEF next, h
  <2>6. /\ w.out = Nothing /\ w.role = s.role /\ w.peers = s.peers /\ w.nextIndex = next
        /\ w.learners = s.learners /\ Core(w) = Core(s) /\ VoteCore(w) = VoteCore(s)
    BY <2>5 DEF NodeState, Core, VoteCore
  <2> HIDE DEF w
  <2>7. NextOK(s) => NextOK(w)
    <3>1. s.peers \in SUBSET Node /\ s.learners \in SUBSET Node
      BY DEF NodeState
    <3> QED BY <2>4, <2>6, <3>1 DEF NextOK
  <2>8. Reaches(s, w) /\ Yields(s, w, m)
    BY <2>6, <2>7, HopCore, NothingIsChatter, ChatterIsLetters, YieldsSameRole DEF Reaches
  <2>9. CASE m.term > s.currentTerm /\ h = BecomeFollower(s, m.term)
    BY <2>1, <2>9, YieldsToTerm, BecomeFollowerReaches DEF h
  <2>10. CASE h = Acknowledge(s, m.from, m.match)
    BY <1>1, <2>1, <2>10, AcknowledgeReaches, YieldsSameRole DEF h
  <2>11. CASE h = w
    BY <2>8, <2>11 DEF h
  <2>12. CASE h = s
    BY <1>0, <2>12, YieldsSameRole DEF h
  <2> QED BY <2>3, <2>9, <2>10, <2>11, <2>12
<1>3. ASSUME NEW m \in InstallSnapshotResponseMsg
      PROVE  LET h == HandleInstallSnapshotResponse(s, m) IN Reaches(s, h) /\ Yields(s, h, m)
  <2> DEFINE h == HandleInstallSnapshotResponse(s, m)
  <2>1. m.term \in Nat /\ m.from \in Node /\ m.lastIndex \in Nat
    BY DEF InstallSnapshotResponseMsg
  <2>2. \/ m.term > s.currentTerm /\ h = BecomeFollower(s, m.term)
        \/ h = Acknowledge(s, m.from, m.lastIndex)
        \/ h = s
    BY DEF HandleInstallSnapshotResponse
  <2> HIDE DEF h
  <2>3. CASE m.term > s.currentTerm /\ h = BecomeFollower(s, m.term)
    BY <2>1, <2>3, YieldsToTerm, BecomeFollowerReaches DEF h
  <2>4. CASE h = Acknowledge(s, m.from, m.lastIndex)
    BY <1>1, <2>1, <2>4, AcknowledgeReaches, YieldsSameRole DEF h
  <2>5. CASE h = s
    BY <1>0, <2>5, YieldsSameRole DEF h
  <2> QED BY <2>2, <2>3, <2>4, <2>5
<1> QED BY <1>2, <1>3

\* A request, a heartbeat, a snapshot, a tick: nobody steps down.
LEMMA ClientAppendReaches ==
  ASSUME NEW s \in NodeState, s.out = Nothing, NEW r \in Request
  PROVE  Reaches(s, ClientAppend(s, r)) /\ ClientAppend(s, r).role = s.role
<1> DEFINE h == ClientAppend(s, r)
<1>1. CASE s.role # "leader"
  <2>1. h = [s EXCEPT !.replies[r] = Append(@, "not-leader")]
    BY <1>1 DEF ClientAppend
  <2>2. Core(h) = Core(s) /\ h.nextIndex = s.nextIndex /\ h.out = Nothing
    BY <2>1 DEF NodeState, Core
  <2> HIDE DEF h
  <2>3. Hop(s, h) /\ h.role = s.role
    BY <2>2, HopSame DEF Core
  <2> QED BY <2>2, <2>3, NothingIsChatter, ChatterIsLetters DEF Reaches, h
<1>2. CASE s.role = "leader"
  <2> DEFINE k == LogLastIndex(s) + 1
             log == LogAppendAll(s.log, [j \in {k} |-> EntryFor(s, r)])
             pend == [j \in DOMAIN s.pending \cup {k} |-> IF j = k THEN r ELSE s.pending[j]]
             a == [s EXCEPT !.log = log, !.pending = pend]
             c == RecomputeCommitIndex(a)
             d == ApplyCommitted(c)
  <2>1. h = ReplicateToPeers(d)
    BY <1>2 DEF ClientAppend, NodeState
  <2>2. log \in Log /\ pend \in Pending
    <3>1. LogLastIndex(s) \in Nat /\ s.log \in Log /\ s.pending \in Pending
      BY LogLastIndexType DEF NodeState
    <3>2. k \in Index
      BY <3>1 DEF Index
    <3>3. EntryFor(s, r) \in Entry
      BY EntryForType
    <3> HIDE DEF k
    <3>4. IsFiniteSet({k}) /\ {k} \in SUBSET Index
      BY <3>2, FS_Singleton
    <3>5. [j \in {k} |-> EntryFor(s, r)] \in Log
      BY <3>3, <3>4 DEF Log, FiniteIndexSet
    <3>6. log \in Log
      BY <3>1, <3>5, LogAppendAllType
    <3>7. DOMAIN s.pending \in SUBSET Index /\ \A j \in DOMAIN s.pending : s.pending[j] \in Request
      BY <3>1 DEF Pending
    <3>8. pend \in [DOMAIN s.pending \cup {k} -> Request]
      BY <3>7
    <3> QED BY <3>2, <3>6, <3>7, <3>8 DEF Pending
  <2> HIDE DEF log, pend
  <2>3. /\ a \in NodeState /\ Core(a) = Core(s) /\ a.nextIndex = s.nextIndex
        /\ a.out = Nothing
    BY <2>2 DEF NodeState, Core
  <2> HIDE DEF a
  <2>4. /\ c \in NodeState /\ Core(c) = Core(a) /\ c.nextIndex = a.nextIndex
        /\ c.out = Nothing
    BY <2>3, RecomputeCommitIndexType, RecomputeNext
  <2> HIDE DEF c
  <2>5. /\ d \in NodeState /\ VoteCore(d) = VoteCore(c) /\ (Change = {} => Core(d) = Core(c))
        /\ (NextOK(c) => NextOK(d)) /\ d.out = Nothing
    BY <2>4, ApplyCommittedType, ApplyCommittedNext
  <2> HIDE DEF d
  <2>6. Hop(s, d)
    BY <2>3, <2>4, <2>5, HopSame, HopCore, HopTrans
  <2>7. d.role = s.role
    BY <2>3, <2>4, <2>5 DEF Core, VoteCore
  <2>8. Letters(ReplicateToPeers(d)) /\ Hop(d, ReplicateToPeers(d))
    BY <1>2, <2>5, <2>7, NothingIsChatter, ReplicateLetters, HopReplicate
  <2>9. ReplicateToPeers(d).role = d.role
    BY <2>5, ReplicateToPeersType DEF Core
  <2> QED BY <2>1, <2>6, <2>7, <2>8, <2>9, HopTrans DEF Reaches
<1> QED BY <1>1, <1>2

LEMMA OwnWillReaches ==
  ASSUME NEW s \in NodeState, s.out = Nothing
  PROVE  /\ s.role = "leader" => Reaches(s, ReplicateToPeers(s))
         /\ ReplicateToPeers(s).role = s.role
         /\ Reaches(s, DoSnapshot(s)) /\ DoSnapshot(s).role = s.role
         /\ LET x == [s EXCEPT !.ticker = FALSE]
                h == IF x.role = "leader" THEN x ELSE StartElection(x)
            IN  Reaches(s, h) /\ (h.role = s.role \/ h.role # "follower")
<1>1. Chatter(s)
  BY NothingIsChatter
<1>2. /\ s.role = "leader" => Reaches(s, ReplicateToPeers(s))
      /\ ReplicateToPeers(s).role = s.role
  BY <1>1, HopReplicate, ReplicateLetters, ReplicateToPeersType DEF Reaches, Core
<1>3. Reaches(s, DoSnapshot(s)) /\ DoSnapshot(s).role = s.role
  <2>1. Core(DoSnapshot(s)) = Core(s)
    BY DoSnapshotType
  <2>2. DoSnapshot(s).nextIndex = s.nextIndex /\ DoSnapshot(s).out = s.out
    BY DEF DoSnapshot, LogSaveSnapshot, NodeState
  <2>3. DoSnapshot(s).role = s.role
    BY <2>1 DEF Core
  <2> QED BY <2>1, <2>2, <2>3, HopSame, NothingIsChatter, ChatterIsLetters DEF Reaches
<1> DEFINE x == [s EXCEPT !.ticker = FALSE]
           h == IF x.role = "leader" THEN x ELSE StartElection(x)
<1>4. x \in NodeState /\ Core(x) = Core(s) /\ x.nextIndex = s.nextIndex /\ x.out = Nothing
  BY TickUsed DEF NodeState
<1> HIDE DEF x
<1>5. x.role = s.role /\ Hop(s, x) /\ Chatter(x)
  BY <1>4, HopSame, NothingIsChatter DEF Core
<1>6. Reaches(s, x)
  BY <1>5, ChatterIsLetters DEF Reaches
<1>7. Reaches(s, StartElection(x))
  BY <1>4, <1>5, StartElectionReaches, ReachesOn
<1>8. x.role # "leader" => StartElection(x).role = x.role \/ StartElection(x).role # "follower"
  <2>1. x.role # "leader" => \/ StartElection(x) = x /\ x.id \in x.learners
                             \/ Campaigns(x, StartElection(x))
    BY <1>4, StartElectionView
  <2> QED BY <2>1 DEF Campaigns
<1>9. Reaches(s, h) /\ (h.role = s.role \/ h.role # "follower")
  BY <1>5, <1>6, <1>7, <1>8
<1> QED BY <1>2, <1>3, <1>9 DEF x

(***************************************************************************)
(* A step of the system, node and mail together.                           *)
(***************************************************************************)

\* What a node does to its own log and state machine, with the mail q it has.
Deed(s, t, q) ==
  \/ Minor(s, t)
  \/ \E u \in NodeState, m \in q \cap AppendEntriesMsg :
       /\ Follows(s, u) /\ u.currentTerm = m.term /\ PrevMatches(u, m)
       /\ Obeys(u, t, m.entries, m.commit)
  \/ \E u \in NodeState, m \in q \cap InstallSnapshotMsg : Follows(s, u) /\ Installs(u, t, m)
  \/ Snaps(s, t) \/ Stops(s, t) \/ Restarts(s, t)
  \/ \E r \in Request : Accepts(s, t, r) \/ Declines(s, t, r)

\* Mail is as it was, or a letter of the node that took the step.
Post(t) ==
  \A p \in Node : \A x \in Range(inbox'[p]) : x \in Range(inbox[p]) \/ Letter(t, p, x)

\* A node steps down for the message it has just received, if at all.
Cause(n, t) ==
  \/ ~ node[n].running \/ t.role = node[n].role \/ t.role # "follower"
  \/ inbox[n] # <<>> /\ Yields(node[n], t, Head(inbox[n]))

Move(n, t) ==
  /\ Hop(node[n], t) /\ Cause(n, t) /\ Post(t)
  /\ Deed(node[n], t, Range(inbox[n]))

LEMMA DeedView ==
  ASSUME NEW s, NEW t, NEW v, NEW q, Deed(s, t, q), View(v) = View(t)
  PROVE  Deed(s, v, q)
<1>1. Minor(s, t) => Minor(s, v)
  BY QuietView, FollowsView, LeadsView DEF Minor
<1>2. \A u, es, k : Obeys(u, t, es, k) => Obeys(u, v, es, k)
  BY ObeysView
<1>3. \A u, m : Installs(u, t, m) => Installs(u, v, m)
  BY InstallsView
<1>4. Snaps(s, t) => Snaps(s, v)
  BY DEF Snaps, View, Work, Seat
<1>5. Stops(s, t) => Stops(s, v)
  BY DEF Stops, View, Work
<1>6. Restarts(s, t) => Restarts(s, v)
  BY DEF Restarts, View, Work, Seat
<1>7. \A r : Accepts(s, t, r) \/ Declines(s, t, r) => Accepts(s, v, r) \/ Declines(s, v, r)
  BY AcceptsView
<1> QED BY <1>1, <1>2, <1>3, <1>4, <1>5, <1>6, <1>7 DEF Deed

LEMMA CleanedIs ==
  ASSUME NEW h \in NodeState
  PROVE  /\ Cleaned(h) \in NodeState /\ View(Cleaned(h)) = View(h)
         /\ Core(Cleaned(h)) = Core(h) /\ Cleaned(h).nextIndex = h.nextIndex
         /\ \A p, x : Letter(h, p, x) => Letter(Cleaned(h), p, x)
<1> DEFINE t == Cleaned(h)
<1>1. t \in NodeState /\ Core(t) = Core(h) /\ View(t) = View(h)
  BY CleanedType, ViewOfSends DEF Cleaned
<1>2. /\ t.nextIndex = h.nextIndex /\ t.snap = h.snap /\ t.currentTerm = h.currentTerm
      /\ t.id = h.id /\ t.sm = h.sm /\ t.log = h.log /\ t.commitIndex = h.commitIndex
      /\ t.role = h.role /\ t.peers = h.peers /\ t.learners = h.learners
  BY DEF Cleaned, NodeState
<1> HIDE DEF t
<1>3. \A p : AppendEntriesMessage(t, p) = AppendEntriesMessage(h, p)
  BY <1>2, CopyOfSame
<1>4. \A p, x : Letter(h, p, x) => Letter(t, p, x)
  BY <1>2, <1>3 DEF Letter, Plain
<1> QED BY <1>1, <1>2, <1>4 DEF t

\* The transport adds to the mail what the handler sent, or drops it.
LEMMA PostOfContinue ==
  ASSUME TypeInv, NEW n \in Node, NEW h, NEW t,
         NEW rest \in Seq(Message), Range(rest) \subseteq Range(inbox[n]),
         h.out \in [Node -> Seq(Message)], Continue(n, h, rest),
         \A p \in Node : \A m \in Range(h.out[p]) : Letter(t, p, m)
  PROVE  Post(t)
<1>1. inbox' = [p \in Node |-> (IF p = n THEN rest ELSE inbox[p])
                                  \o (IF Partitioned(n, p) THEN <<>> ELSE h.out[p])]
  BY DEF Continue
<1>2. SUFFICES ASSUME NEW p \in Node, NEW x \in Range(inbox'[p])
               PROVE  x \in Range(inbox[p]) \/ Letter(t, p, x)
  BY DEF Post
<1> DEFINE a == IF p = n THEN rest ELSE inbox[p]
           b == IF Partitioned(n, p) THEN <<>> ELSE h.out[p]
<1>3. a \in Seq(Message) /\ Range(a) \subseteq Range(inbox[p])
  BY DEF TypeInv
<1>4. b \in Seq(Message) /\ \A m \in Range(b) : Letter(t, p, m)
  BY RangeOfEmpty, EmptySeq
<1>5. inbox'[p] = a \o b
  BY <1>1
<1> HIDE DEF a, b
<1> QED BY <1>3, <1>4, <1>5, RangeOfConcat

\* What there is to show of a handler.
LEMMA ContinueMoves ==
  ASSUME TypeInv, NEW n \in Node, NEW h \in NodeState, Reaches(node[n], h), Cause(n, h),
         Deed(node[n], h, Range(inbox[n])),
         NEW rest \in Seq(Message), Range(rest) \subseteq Range(inbox[n]),
         Continue(n, h, rest)
  PROVE  \E t \in NodeState : node' = [node EXCEPT ![n] = t] /\ Move(n, t)
<1> DEFINE t == Cleaned(h)
<1>1. /\ t \in NodeState /\ View(t) = View(h) /\ Core(t) = Core(h)
      /\ t.nextIndex = h.nextIndex /\ \A p, x : Letter(h, p, x) => Letter(t, p, x)
  BY CleanedIs
<1>2. node' = [node EXCEPT ![n] = t]
  BY DEF Continue, Cleaned
<1> HIDE DEF t
<1>3. Hop(node[n], t)
  BY <1>1, HopSame, HopTrans DEF Reaches
<1>4. Cause(n, t)
  BY <1>1 DEF Cause, Yields, Core
<1>5. Deed(node[n], t, Range(inbox[n]))
  BY <1>1, DeedView
<1>6. h.out \in [Node -> Seq(Message)]
  BY OutType
<1>7. \A p \in Node : \A m \in Range(h.out[p]) : Letter(t, p, m)
  BY <1>1 DEF Reaches, Letters
<1>8. Post(t)
  BY <1>6, <1>7, PostOfContinue
<1> QED BY <1>1, <1>2, <1>3, <1>4, <1>5, <1>8 DEF Move

LEMMA HandledMoves ==
  ASSUME TypeInv, NEW n \in Node, inbox[n] # <<>>, NEW h \in NodeState,
         Reaches(node[n], h), Yields(node[n], h, Head(inbox[n])),
         Deed(node[n], h, Range(inbox[n])), Handled(n, h)
  PROVE  \E t \in NodeState : node' = [node EXCEPT ![n] = t] /\ Move(n, t)
<1>1. Continue(n, h, Tail(inbox[n])) /\ Cause(n, h)
  BY DEF Handled, Cause
<1>2. inbox[n] \in Seq(Message)
  BY DEF TypeInv
<1>3. Tail(inbox[n]) \in Seq(Message) /\ Range(Tail(inbox[n])) \subseteq Range(inbox[n])
  BY <1>2, RangeOfTail, HeadTailProperties
<1> QED BY <1>1, <1>3, ContinueMoves

LEMMA ReceiveMoves ==
  ASSUME TypeInv, NEW n \in Node, ReceiveAny(n)
  PROVE  \E t \in NodeState : node' = [node EXCEPT ![n] = t] /\ Move(n, t)
<1> DEFINE s == node[n]
           m == Head(inbox[n])
           q == Range(inbox[n])
<1>1. s \in NodeState /\ s.out = Nothing
  BY DEF TypeInv
<1>2. inbox[n] # <<>>
  BY DEF ReceiveAny, Receives, ReceiveRequestVote, ReceiveRequestVoteResponse,
         ReceivePreVote, ReceivePreVoteResponse, ReceiveAppendEntries,
         ReceiveAppendEntriesResponse, ReceiveInstallSnapshot, ReceiveInstallSnapshotResponse
<1>3. m \in Message /\ m \in q
  <2>1. inbox[n] \in Seq(Message)
    BY DEF TypeInv
  <2> QED BY <1>2, <2>1, ReceivedType, RangeOfTail
<1>4. ASSUME NEW h \in NodeState, Reaches(s, h) /\ Yields(s, h, m), Deed(s, h, q), Handled(n, h)
      PROVE  \E t \in NodeState : node' = [node EXCEPT ![n] = t] /\ Move(n, t)
  BY <1>2, <1>4, HandledMoves
<1>5. CASE ReceiveRequestVote(n)
  <2>1. m \in RequestVoteMsg
    BY <1>3, <1>5, MessageFields DEF ReceiveRequestVote, Receives
  <2> DEFINE v == Voted(s, m)
             r == VoteAnswer(s, m)
             h == Send(v, m.from, r)
             t == Cleaned(v)
  <2>2. v \in NodeState /\ r \in RequestVoteResponseMsg /\ m.from \in Node
    BY <1>1, <2>1, VotedType DEF RequestVoteMsg
  <2>3. Handled(n, h)
    BY <1>5, HandleRequestVoteIs DEF ReceiveRequestVote
  <2>4. Minor(s, v) /\ Hop(s, v) /\ Yields(s, v, m) /\ Chatter(h)
    BY <1>1, <2>1, VotedTurn, VoteHandled
  <2>5. Cleaned(h) = t /\ h.out \in [Node -> Seq(Message)]
    BY <2>2, VotedOut
  <2>6. h.peers = v.peers /\ h.id = v.id
    BY <2>2 DEF Send, NodeState
  <2> HIDE DEF v, r, h
  <2>7. t \in NodeState /\ View(t) = View(v) /\ Core(t) = Core(v) /\ t.nextIndex = v.nextIndex
    BY <2>2, CleanedIs
  <2>8. node' = [node EXCEPT ![n] = t] /\ Continue(n, h, Tail(inbox[n]))
    BY <2>3, <2>5 DEF Handled, Continue, Cleaned
  <2> HIDE DEF t
  <2>9. Hop(s, t) /\ Deed(s, t, q)
    BY <2>4, <2>7, HopSame, HopTrans, DeedView DEF Deed
  <2>10. Yields(s, t, m)
    BY <2>4, <2>7 DEF Yields, Core
  <2>11. \A p \in Node : \A x \in Range(h.out[p]) : Letter(t, p, x)
    BY <2>4, <2>6, <2>7 DEF Chatter, Letter, Plain, Core
  <2>12. Tail(inbox[n]) \in Seq(Message) /\ Range(Tail(inbox[n])) \subseteq Range(inbox[n])
    <3>1. inbox[n] \in Seq(Message)
      BY DEF TypeInv
    <3> QED BY <1>2, <3>1, RangeOfTail, HeadTailProperties
  <2>13. Post(t)
    BY <2>5, <2>8, <2>11, <2>12, PostOfContinue
  <2> QED BY <1>2, <2>7, <2>8, <2>9, <2>10, <2>13 DEF Move, Cause
<1>6. CASE ReceiveRequestVoteResponse(n)
  <2>1. m \in RequestVoteResponseMsg
    BY <1>3, <1>6, MessageFields DEF ReceiveRequestVoteResponse, Receives
  <2> QED BY <1>1, <1>4, <1>6, <2>1, HandlersKeepIdentity, ElectionTurns, ElectionMailHandled
          DEF Deed, ReceiveRequestVoteResponse
<1>7. CASE ReceivePreVote(n)
  <2>1. m \in PreVoteMsg
    BY <1>3, <1>7, MessageFields DEF ReceivePreVote, Receives
  <2> QED BY <1>1, <1>4, <1>7, <2>1, HandlersKeepIdentity, ElectionTurns, ElectionMailHandled
          DEF Deed, ReceivePreVote
<1>8. CASE ReceivePreVoteResponse(n)
  <2>1. m \in PreVoteResponseMsg
    BY <1>3, <1>8, MessageFields DEF ReceivePreVoteResponse, Receives
  <2> QED BY <1>1, <1>4, <1>8, <2>1, HandlersKeepIdentity, ElectionTurns, ElectionMailHandled
          DEF Deed, ReceivePreVoteResponse
<1>9. CASE ReceiveAppendEntries(n)
  <2>1. m \in AppendEntriesMsg
    BY <1>3, <1>9, MessageFields DEF ReceiveAppendEntries, Receives
  <2> DEFINE h == HandleAppendEntries(s, m)
             u == FollowLeader(s, m)
  <2>2. h \in NodeState /\ Reaches(s, h) /\ Yields(s, h, m)
    BY <1>1, <2>1, HandlersKeepIdentity, AppendEntriesHandled
  <2>3. u \in NodeState
    BY <1>1, <2>1, FollowLeaderView DEF AppendEntriesMsg
  <2>4. \/ View(h) = View(u) /\ (u = s \/ Follows(s, u))
        \/ /\ Follows(s, u) /\ u.currentTerm = m.term /\ PrevMatches(u, m)
           /\ Obeys(u, h, m.entries, m.commit)
    BY <1>1, <2>1, AppendEntriesTurn
  <2>5. Handled(n, h)
    BY <1>9 DEF ReceiveAppendEntries
  <2> HIDE DEF h, u
  <2>6. Deed(s, h, q)
    <3>1. CASE View(h) = View(u) /\ u = s
      BY <1>1, <3>1, QuietSelf DEF Deed, Minor
    <3>2. CASE View(h) = View(u) /\ Follows(s, u)
      BY <3>2, FollowsView DEF Deed, Minor
    <3>3. CASE /\ Follows(s, u) /\ u.currentTerm = m.term /\ PrevMatches(u, m)
               /\ Obeys(u, h, m.entries, m.commit)
      BY <1>3, <2>1, <2>3, <3>3 DEF Deed
    <3> QED BY <2>4, <3>1, <3>2, <3>3
  <2> QED BY <1>4, <2>2, <2>5, <2>6
<1>10. CASE ReceiveAppendEntriesResponse(n)
  <2>1. m \in AppendEntriesResponseMsg
    BY <1>3, <1>10, MessageFields DEF ReceiveAppendEntriesResponse, Receives
  <2> QED BY <1>1, <1>4, <1>10, <2>1, HandlersKeepIdentity, ResponseTurns, ResponsesHandled
          DEF Deed, ReceiveAppendEntriesResponse
<1>11. CASE ReceiveInstallSnapshot(n)
  <2>1. m \in InstallSnapshotMsg
    BY <1>3, <1>11, MessageFields DEF ReceiveInstallSnapshot, Receives
  <2> DEFINE h == HandleInstallSnapshot(s, m)
             u == FollowLeader(s, m)
  <2>2. h \in NodeState /\ Reaches(s, h) /\ Yields(s, h, m)
    BY <1>1, <2>1, HandlersKeepIdentity, InstallSnapshotHandled
  <2>3. u \in NodeState
    BY <1>1, <2>1, FollowLeaderView DEF InstallSnapshotMsg
  <2>4. View(h) = View(s) \/ (Follows(s, u) /\ Installs(u, h, m))
    BY <1>1, <2>1, InstallSnapshotTurn
  <2>5. Handled(n, h)
    BY <1>11 DEF ReceiveInstallSnapshot
  <2> HIDE DEF h, u
  <2>6. Deed(s, h, q)
    <3>1. CASE View(h) = View(s)
      BY <1>1, <3>1, QuietSelf DEF Deed, Minor
    <3>2. CASE Follows(s, u) /\ Installs(u, h, m)
      BY <1>3, <2>1, <2>3, <3>2 DEF Deed
    <3> QED BY <2>4, <3>1, <3>2
  <2> QED BY <1>4, <2>2, <2>5, <2>6
<1>12. CASE ReceiveInstallSnapshotResponse(n)
  <2>1. m \in InstallSnapshotResponseMsg
    BY <1>3, <1>12, MessageFields DEF ReceiveInstallSnapshotResponse, Receives
  <2> QED BY <1>1, <1>4, <1>12, <2>1, HandlersKeepIdentity, ResponseTurns, ResponsesHandled
          DEF Deed, ReceiveInstallSnapshotResponse
<1> QED BY <1>5, <1>6, <1>7, <1>8, <1>9, <1>10, <1>11, <1>12 DEF ReceiveAny

\* Steps a running node takes of itself.
LEMMA OwnMoves ==
  ASSUME TypeInv, NEW n \in Node,
         \/ ElectionTimeout(n) \/ HeartbeatTick(n)
         \/ \E r \in Request : Ask(n, r)
         \/ SnapshotNow(n)
  PROVE  \E t \in NodeState : node' = [node EXCEPT ![n] = t] /\ Move(n, t)
<1> DEFINE s == node[n]
           q == Range(inbox[n])
<1>1. s \in NodeState /\ s.out = Nothing /\ inbox[n] \in Seq(Message)
  BY DEF TypeInv
<1>2. ASSUME NEW h \in NodeState, Reaches(s, h), h.role = s.role \/ h.role # "follower",
             Deed(s, h, q), Continue(n, h, inbox[n])
      PROVE  \E t \in NodeState : node' = [node EXCEPT ![n] = t] /\ Move(n, t)
  <2>1. Cause(n, h)
    BY <1>2 DEF Cause
  <2> QED BY <1>1, <1>2, <2>1, ContinueMoves
<1>3. CASE ElectionTimeout(n)
  <2> DEFINE x == [s EXCEPT !.ticker = FALSE]
             u == IF x.role = "leader" THEN x ELSE StartElection(x)
  <2>1. x \in NodeState
    BY <1>1, TickUsed
  <2>2. /\ Work(x) = Work(s) /\ x.learners = s.learners /\ x.role = s.role
        /\ x.currentTerm = s.currentTerm /\ x.id = s.id
    BY <1>1 DEF NodeState, Work
  <2>3. Continue(n, u, inbox[n])
    BY <1>3 DEF ElectionTimeout
  <2>4. s.currentTerm \in Nat
    BY <1>1 DEF NodeState
  <2>5. Reaches(s, u) /\ (u.role = s.role \/ u.role # "follower")
    BY <1>1, OwnWillReaches
  <2> HIDE DEF x
  <2>6. u \in NodeState
    BY <2>1, StartElectionType
  <2>7. Quiet(s, u)
    <3>1. CASE x.role = "leader"
      BY <2>2, <2>4, <3>1 DEF Quiet
    <3>2. CASE x.role # "leader"
      <4>1. u = StartElection(x)
        BY <3>2
      <4>2. CASE u = x /\ x.id \in x.learners
        BY <2>2, <2>4, <3>2, <4>2 DEF Quiet
      <4>3. CASE Campaigns(x, u)
        BY <2>2, <4>3 DEF Quiet, Campaigns
      <4> HIDE DEF u
      <4> QED BY <2>1, <3>2, <4>1, <4>2, <4>3, StartElectionView
    <3> QED BY <3>1, <3>2
  <2> HIDE DEF u
  <2>8. Deed(s, u, q)
    BY <2>7 DEF Deed, Minor
  <2> QED BY <1>2, <2>3, <2>5, <2>6, <2>8
<1>4. CASE HeartbeatTick(n)
  <2> DEFINE h == ReplicateToPeers(s)
  <2>1. h \in NodeState /\ View(h) = View(s)
    BY <1>1, ReplicateToPeersType, ViewOfSends
  <2>2. Continue(n, h, inbox[n]) /\ s.role = "leader"
    BY <1>4 DEF HeartbeatTick
  <2>3. Reaches(s, h) /\ h.role = s.role
    BY <1>1, <2>2, OwnWillReaches
  <2> HIDE DEF h
  <2>4. Deed(s, h, q)
    BY <1>1, <2>1, QuietSelf DEF Deed, Minor
  <2> QED BY <1>2, <2>1, <2>2, <2>3, <2>4
<1>5. CASE \E r \in Request : Ask(n, r)
  <2>1. PICK r \in Request : Ask(n, r)
    BY <1>5
  <2> DEFINE h == ClientAppend(s, r)
  <2>2. h \in NodeState /\ (Accepts(s, h, r) \/ Declines(s, h, r))
    BY <1>1, ClientAppendType, ClientAppendView
  <2>3. Reaches(s, h) /\ h.role = s.role
    BY <1>1, ClientAppendReaches
  <2>4. Continue(n, h, inbox[n])
    BY <2>1 DEF Ask
  <2> HIDE DEF h
  <2>5. Deed(s, h, q)
    BY <2>2 DEF Deed
  <2> QED BY <1>2, <2>2, <2>3, <2>4, <2>5
<1>6. CASE SnapshotNow(n)
  <2> DEFINE h == DoSnapshot(s)
  <2>1. h \in NodeState /\ Snaps(s, h)
    BY <1>1, DoSnapshotType, DoSnapshotView
  <2>2. Reaches(s, h) /\ h.role = s.role
    BY <1>1, OwnWillReaches
  <2>3. Continue(n, h, inbox[n])
    BY <1>6 DEF SnapshotNow
  <2> HIDE DEF h
  <2>4. Deed(s, h, q)
    BY <2>1 DEF Deed
  <2> QED BY <1>2, <2>1, <2>2, <2>3, <2>4
<1> QED BY <1>3, <1>4, <1>5, <1>6

LEMMA StopStartMoves ==
  ASSUME TypeInv, NEW n \in Node, Stop(n) \/ Start(n)
  PROVE  \E t \in NodeState : node' = [node EXCEPT ![n] = t] /\ Move(n, t)
<1> DEFINE s == node[n]
<1>1. s \in NodeState /\ node \in [Node -> NodeState] /\ inbox \in [Node -> Seq(Message)]
  BY DEF TypeInv
<1>2. CASE Stop(n)
  <2> DEFINE w == [s EXCEPT !.running = FALSE, !.ticker = FALSE]
  <2>1. /\ w \in NodeState /\ w.running = FALSE /\ w.role = s.role
        /\ Core(w) = Core(s) /\ w.nextIndex = s.nextIndex
    BY <1>1 DEF NodeState, Core
  <2>2. node' = [node EXCEPT ![n] = w]
    BY <1>1, <1>2 DEF Stop
  <2>3. Post(w)
    BY <1>2 DEF Stop, Post
  <2>4. Stops(s, w)
    BY <2>1 DEF Stops
  <2> HIDE DEF w
  <2>5. Hop(s, w) /\ Cause(n, w) /\ Deed(s, w, Range(inbox[n]))
    BY <2>1, <2>4, HopSame DEF Cause, Deed
  <2> QED BY <2>1, <2>2, <2>3, <2>5 DEF Move
<1>3. CASE Start(n)
  <2> DEFINE w == NewState(n, TRUE, s.currentTerm, s.votedFor, s.log, s.snap,
                           s.replies, s.ballots, s.elected)
  <2>1. node' = [node EXCEPT ![n] = w] /\ ~ s.running
    BY <1>3 DEF Start
  <2>2. PICK v \in NodeState :
          /\ node' = [node EXCEPT ![n] = v] /\ v.id = n /\ v.role = "follower"
          /\ v.elected = s.elected /\ v.currentTerm = s.currentTerm
    BY <1>3, StartIs
  <2>3. w = v
    BY <1>1, <2>1, <2>2
  <2>4. Restarts(s, w)
    BY <2>1 DEF Restarts, NewState
  <2> HIDE DEF w
  <2>5. Hop(s, w)
    <3>1. s.currentTerm \in Nat /\ s.id = n
      BY <1>1 DEF NodeState, TypeInv
    <3>2. w.currentTerm >= s.currentTerm
      BY <2>2, <2>3, <3>1
    <3> QED BY <1>1, <2>2, <2>3, <3>1, <3>2, HopDown
  <2>6. Cause(n, w) /\ Deed(s, w, Range(inbox[n]))
    BY <2>1, <2>4 DEF Cause, Deed
  <2>7. Post(w)
    <3>1. PICK k \in 1 .. Len(inbox[n]) + 1 : inbox' = [inbox EXCEPT ![n] = SubSeq(@, k, Len(@))]
      BY <1>3 DEF Start
    <3>2. Range(SubSeq(inbox[n], k, Len(inbox[n]))) \subseteq Range(inbox[n])
      BY <1>1, RangeOfSubSeq
    <3>3. \A p \in Node : Range(inbox'[p]) \subseteq Range(inbox[p])
      BY <1>1, <3>1, <3>2
    <3> QED BY <3>3 DEF Post
  <2> QED BY <2>1, <2>2, <2>3, <2>5, <2>6, <2>7 DEF Move
<1> QED BY <1>2, <1>3

\* Every step leaves all nodes and the mail alone, or is a move of one node.
LEMMA Moves ==
  ASSUME TypeInv, [Next]_vars
  PROVE  \/ node' = node /\ inbox' = inbox
         \/ \E n \in Node, t \in NodeState : node' = [node EXCEPT ![n] = t] /\ Move(n, t)
<1>1. CASE \E n \in Node : ReceiveAny(n)
  BY <1>1, ReceiveMoves
<1>2. CASE \E n \in Node : \/ ElectionTimeout(n) \/ HeartbeatTick(n)
                           \/ \E r \in Request : Ask(n, r)
                           \/ SnapshotNow(n)
  BY <1>2, OwnMoves
<1>3. CASE \E n \in Node : Stop(n) \/ Start(n)
  BY <1>3, StopStartMoves
<1>4. CASE \E a, b \in Node : Partition(a, b) \/ Heal(a, b)
  BY <1>4 DEF Partition, Heal
<1>5. CASE UNCHANGED vars
  BY <1>5 DEF vars
<1> QED BY <1>1, <1>2, <1>3, <1>4, <1>5 DEF Next

(***************************************************************************)
(* Who makes a node step down.                                             *)
(***************************************************************************)

\* Entries come from a node that leads, or led, the term they are sent in.
Sealed(m) == m.type \in EntryMail => m.term \in node[m.from].elected

\* Nobody sends entries, or asks for a vote, to itself.
Foreign(m, p) == m.type \in EntryMail \cup {"request-vote"} => m.from # p

SealInv ==
  /\ \A n \in Node : SeatOK(node[n])
  /\ \A p \in Node : \A m \in Range(inbox[p]) : Sealed(m)

StandInv ==
  /\ \A n \in Node : VoterSeat(node[n])
  /\ \A p \in Node : \A m \in Range(inbox[p]) : Foreign(m, p)

LEMMA MailType ==
  ASSUME TypeInv, NEW p \in Node, NEW m \in Range(inbox[p])
  PROVE  m \in Message /\ m.from \in Node /\ m.term \in Nat
<1>1. inbox[p] \in Seq(Message)
  BY DEF TypeInv
<1>2. m \in Message
  <2>1. PICK k \in DOMAIN inbox[p] : m = inbox[p][k]
    BY DEF Range
  <2>2. k \in 1 .. Len(inbox[p])
    BY <1>1, <2>1, LenProperties
  <2> QED BY <1>1, <2>1, <2>2, ElementOfSeq
<1> QED BY <1>2, MessageFields

LEMMA CopyFields ==
  ASSUME NEW t, NEW p
  PROVE  LET m == AppendEntriesMessage(t, p)
         IN  m.from = t.id /\ m.term = t.currentTerm /\ m.type \in EntryMail
BY DEF AppendEntriesMessage, EntryMail

LEMMA SealInit == Init => SealInv /\ StandInv
<1> SUFFICES ASSUME Init PROVE SealInv /\ StandInv
  OBVIOUS
<1>1. \A n \in Node : node[n].role = "follower" /\ node[n].elected = {}
  BY DEF Init, NewState
<1>2. \A p \in Node : Range(inbox[p]) = {}
  BY RangeOfEmpty DEF Init
<1> QED BY <1>1, <1>2 DEF SealInv, StandInv, SeatOK, VoterSeat

LEMMA SealNext ==
  ASSUME TypeInv, SealInv, [Next]_vars
  PROVE  SealInv'
<1>1. CASE node' = node /\ inbox' = inbox
  BY <1>1 DEF SealInv, Sealed
<1>2. CASE \E n \in Node, t \in NodeState : node' = [node EXCEPT ![n] = t] /\ Move(n, t)
  <2>1. PICK n \in Node, t \in NodeState : node' = [node EXCEPT ![n] = t] /\ Move(n, t)
    BY <1>2
  <2>2. node \in [Node -> NodeState] /\ node[n].id = n
    BY DEF TypeInv
  <2>3. node'[n] = t /\ \A j \in Node : j # n => node'[j] = node[j]
    BY <2>1, <2>2
  <2>4. /\ SeatOK(t) /\ t.id = n /\ node[n].elected \subseteq t.elected
    BY <2>1, <2>2 DEF Move, Hop, SealInv
  <2>5. \A j \in Node : node[j].elected \subseteq node'[j].elected
    BY <2>3, <2>4
  <2>6. \A j \in Node : SeatOK(node'[j])
    BY <2>3, <2>4 DEF SealInv
  <2>7. ASSUME NEW p \in Node, NEW m \in Range(inbox'[p]) PROVE Sealed(m)'
    <3>1. CASE m \in Range(inbox[p])
      <4>1. m.from \in Node /\ Sealed(m)
        BY <3>1, MailType DEF SealInv
      <4> QED BY <2>5, <4>1 DEF Sealed
    <3>2. CASE Plain(t, p, m)
      BY <3>2 DEF Plain, Sealed
    <3>3. CASE t.role = "leader" /\ m = AppendEntriesMessage(t, p)
      BY <2>3, <2>4, <3>3, CopyFields DEF SeatOK, Sealed
    <3> QED BY <2>1, <2>7, <3>1, <3>2, <3>3 DEF Move, Post, Letter
  <2> QED BY <2>6, <2>7 DEF SealInv
<1> QED BY <1>1, <1>2, Moves

LEMMA StandNext ==
  ASSUME StaticCluster, TypeInv, ElectInv', StandInv, [Next]_vars
  PROVE  StandInv'
<1>1. CASE node' = node /\ inbox' = inbox
  BY <1>1 DEF StandInv
<1>2. CASE \E n \in Node, t \in NodeState : node' = [node EXCEPT ![n] = t] /\ Move(n, t)
  <2>1. PICK n \in Node, t \in NodeState : node' = [node EXCEPT ![n] = t] /\ Move(n, t)
    BY <1>2
  <2>2. node \in [Node -> NodeState] /\ node[n].id = n
    BY DEF TypeInv
  <2>3. node'[n] = t /\ \A j \in Node : j # n => node'[j] = node[j]
    BY <2>1, <2>2
  <2>4. VoterSeat(t) /\ t.id = n
    BY <2>1, <2>2 DEF Move, Hop, StandInv, StaticCluster
  <2>5. \A j \in Node : VoterSeat(node'[j])
    BY <2>3, <2>4 DEF StandInv
  <2>6. t.peers = Voter \ {n} /\ t.learners = Node \ Voter
    BY <2>3, <2>4 DEF ElectInv, ElectOK
  <2>7. ASSUME NEW p \in Node, NEW m \in Range(inbox'[p]) PROVE Foreign(m, p)
    <3>1. CASE m \in Range(inbox[p])
      BY <3>1 DEF StandInv
    <3>2. CASE Plain(t, p, m)
      BY <2>4, <2>6, <3>2 DEF Plain, Foreign
    <3>3. CASE t.role = "leader" /\ p \in t.peers \cup t.learners /\ m = AppendEntriesMessage(t, p)
      BY <2>4, <2>6, <3>3, CopyFields DEF VoterSeat, Foreign
    <3> QED BY <2>1, <2>7, <3>1, <3>2, <3>3 DEF Move, Post, Letter
  <2> QED BY <2>5, <2>7 DEF StandInv
<1> QED BY <1>1, <1>2, Moves

\* With fixed members, a leader falls back for a later term only, and a
\* candidate for that or for the leader of its own term: raft-become-follower!
\* is never reached through a message of the node's own, nor through a second
\* leader of its term.
THEOREM StepDowns ==
  ASSUME StaticCluster
  PROVE  Spec => StepDownHasCause
<1> DEFINE Inv == ElectInv /\ SealInv /\ StandInv
<1>1. Init => Inv
  BY ElectionInit, SealInit
<1>2. Inv /\ [Next]_vars => Inv'
  <2> SUFFICES ASSUME Inv, [Next]_vars PROVE Inv'
    OBVIOUS
  <2>1. TypeInv
    BY DEF ElectInv, VoteInv
  <2>2. ElectInv'
    BY ElectionNext DEF ElectInv
  <2> QED BY <2>1, <2>2, SealNext, StandNext
<1>3. Inv /\ [Next]_vars =>
        [\A n \in Node :
           /\ node[n].role \in {"candidate", "leader"} /\ node[n].running
           /\ node'[n].role = "follower"
           => \/ node'[n].currentTerm > node[n].currentTerm
              \/ /\ node[n].role = "candidate"
                 /\ Head(inbox[n]).type \in {"append-entries", "install-snapshot"}
                 /\ Head(inbox[n]).term = node[n].currentTerm]_vars
  <2> SUFFICES ASSUME Inv, [Next]_vars, NEW j \in Node,
                      node[j].role \in {"candidate", "leader"}, node[j].running,
                      node'[j].role = "follower"
               PROVE  \/ node'[j].currentTerm > node[j].currentTerm
                      \/ /\ node[j].role = "candidate"
                         /\ Head(inbox[j]).type \in {"append-entries", "install-snapshot"}
                         /\ Head(inbox[j]).term = node[j].currentTerm
    OBVIOUS
  <2>1. TypeInv
    BY DEF ElectInv, VoteInv
  <2>2. PICK n \in Node, t \in NodeState : node' = [node EXCEPT ![n] = t] /\ Move(n, t)
    BY <2>1, Moves
  <2>3. node \in [Node -> NodeState] /\ inbox[j] \in Seq(Message)
    BY <2>1 DEF TypeInv
  <2>4. j = n /\ node'[j] = t
    BY <2>2, <2>3
  <2>5. inbox[j] # <<>> /\ Yields(node[j], t, Head(inbox[j]))
    BY <2>2, <2>4 DEF Move, Cause
  <2> DEFINE m == Head(inbox[j])
  <2>6. m \in Range(inbox[j])
    BY <2>3, <2>5, RangeOfTail
  <2>7. m.from \in Node
    BY <2>1, <2>6, MailType
  <2>8. Sealed(m) /\ Foreign(m, j)
    BY <2>6 DEF SealInv, StandInv
  <2>9. SeatOK(node[j]) /\ node[j].id = j
    BY <2>1 DEF SealInv, TypeInv
  <2> HIDE DEF m
  <2>10. \/ t.currentTerm > node[j].currentTerm
         \/ m.type \in EntryMail /\ m.term = node[j].currentTerm
         \/ m.type = "request-vote" /\ m.from = j
    BY <2>4, <2>5, <2>9 DEF Yields, m
  <2>11. CASE t.currentTerm > node[j].currentTerm
    BY <2>4, <2>11
  <2>12. CASE m.type \in EntryMail /\ m.term = node[j].currentTerm
    <3>1. m.term \in node[m.from].elected /\ m.from # j
      BY <2>8, <2>12 DEF Sealed, Foreign
    <3>2. node[j].role # "leader"
      <4> SUFFICES ASSUME node[j].role = "leader" PROVE FALSE
        OBVIOUS
      <4>1. m.term \in node[j].elected
        BY <2>9, <2>12 DEF SeatOK
      <4>2. ElectionSafety
        BY MajoritiesAgree
      <4> QED BY <2>7, <3>1, <4>1, <4>2 DEF ElectionSafety
    <3> QED BY <2>12, <3>2 DEF EntryMail, m
  <2>13. ~ (m.type = "request-vote" /\ m.from = j)
    BY <2>8 DEF Foreign
  <2> QED BY <2>10, <2>11, <2>12, <2>13
<1> QED BY <1>1, <1>2, <1>3, PTL DEF Spec, StepDownHasCause

(***************************************************************************)
(* Logs that are not compacted.  What TLC checks of them without snapshots *)
(* is proved here for every cluster: with snapshots it does not hold (see  *)
(* the README).                                                            *)
(***************************************************************************)
NoCompaction == \A n \in Node : node[n].snap.index = 0

LEMMA PlainLog ==
  ASSUME NEW s \in NodeState, s.snap.index = 0
  PROVE  /\ LogLastIndex(s) = 0 \/ LogLastIndex(s) \in DOMAIN s.log
         /\ LogTermAt(s, 0) = 0
         /\ \A k \in DOMAIN s.log : LogTermAt(s, k) = s.log[k].term
         /\ \A k : k # 0 /\ k \notin DOMAIN s.log => LogTermAt(s, k) = NoTerm
<1>1. s.log \in Log
  BY DEF NodeState
<1>2. DOMAIN s.log \in SUBSET Index /\ IsFiniteSet(DOMAIN s.log)
  BY <1>1 DEF Log, FiniteIndexSet
<1>3. DOMAIN s.log # {} => Max(DOMAIN s.log) \in DOMAIN s.log
  BY <1>2, MaxIsMember DEF Index
<1>4. 0 \notin DOMAIN s.log
  BY <1>2 DEF Index
<1> QED BY <1>3, <1>4 DEF LogLastIndex, LogTermAt

LEMMA AppliesPlain ==
  ASSUME NEW s \in NodeState, NEW t \in NodeState, Applies(s, t), t.snap.index = 0
  PROVE  /\ t.log = s.log /\ t.snap = s.snap
         /\ t.role = s.role /\ t.currentTerm = s.currentTerm
         /\ \/ t.sm = s.sm
            \/ /\ s.commitIndex > s.lastApplied
               /\ t.sm = s.sm \o Applied(s, s.lastApplied + 1, s.commitIndex)
<1>1. Compacts(s, t) => t.log = s.log /\ t.snap = s.snap
  BY DEF Compacts
<1>2. t.log = s.log /\ t.snap = s.snap
  BY <1>1 DEF Applies
<1>3. t.role = s.role /\ t.currentTerm = s.currentTerm
  BY DEF Applies
<1>4. \/ t.sm = s.sm
      \/ /\ s.commitIndex > s.lastApplied
         /\ t.sm = s.sm \o Applied(s, s.lastApplied + 1, s.commitIndex)
  BY DEF Applies
<1> QED BY <1>2, <1>3, <1>4

\* How a log may change: not at all, by what a leader sent, by a request.
Grows(s, t, q) ==
  \/ t.log = s.log
  \/ \E m \in q \cap AppendEntriesMsg :
       PrevMatches(s, m) /\ t.role = "follower" /\ t.log = LogAppendAll(s.log, m.entries)
  \/ /\ s.role = "leader" /\ t.role = "leader" /\ t.currentTerm = s.currentTerm
     /\ \E r \in Request : t.log = Extended(s, r).log

\* How a state machine may change: back to a snapshot, or by entries of the log.
StateGrows(s, t) ==
  /\ t.snap.data \in {s.snap.data, s.sm}
  /\ \/ t.sm \in {s.sm, s.snap.data}
     \/ \E k \in Nat : /\ k > s.lastApplied /\ k <= LogLastIndex(t)
                       /\ t.sm = s.sm \o Applied(t, s.lastApplied + 1, k)

LEMMA AppliedByLog ==
  ASSUME NEW s, NEW t, t.log = s.log
  PROVE  \A i, j : Applied(t, i, j) = Applied(s, i, j)
BY DEF Applied

LEMMA LeadsPlain ==
  ASSUME NEW s \in NodeState, NEW t \in NodeState, Leads(s, t),
         s.snap.index = 0, t.snap.index = 0, s.commitIndex <= s.lastApplied
  PROVE  t.log = s.log /\ StateGrows(s, t)
<1>1. PICK k \in Nat : /\ k >= s.commitIndex
                       /\ k = s.commitIndex \/ LogTermAt(s, k) = s.currentTerm
                       /\ Applies([s EXCEPT !.commitIndex = k], t)
  BY DEF Leads
<1> DEFINE x == [s EXCEPT !.commitIndex = k]
<1>2. /\ x \in NodeState /\ x.commitIndex = k /\ x.lastApplied = s.lastApplied
      /\ x.log = s.log /\ x.snap = s.snap /\ x.sm = s.sm
  BY AtCommit
<1>3. Applies(x, t)
  BY <1>1
<1> HIDE DEF x
<1>4. /\ t.log = s.log /\ t.snap = s.snap
      /\ \/ t.sm = s.sm
         \/ k > s.lastApplied /\ t.sm = s.sm \o Applied(x, s.lastApplied + 1, k)
  BY <1>2, <1>3, AppliesPlain
<1>5. ASSUME k > s.lastApplied PROVE k <= LogLastIndex(t)
  <2>1. s.commitIndex \in Nat /\ s.lastApplied \in Nat /\ s.currentTerm \in Nat
    BY DEF NodeState
  <2>2. k # s.commitIndex /\ k # 0
    BY <1>5, <2>1
  <2>3. LogTermAt(s, k) # NoTerm
    BY <1>1, <2>1, <2>2 DEF NoTerm
  <2>4. k \in DOMAIN t.log
    BY <1>4, <2>2, <2>3, PlainLog
  <2> QED BY <2>4, LastIndexBounds
<1>6. \A i, j : Applied(x, i, j) = Applied(t, i, j)
  BY <1>2, <1>4, AppliedByLog
<1> QED BY <1>4, <1>5, <1>6 DEF StateGrows

LEMMA ObeysPlain ==
  ASSUME NEW u \in NodeState, NEW t \in NodeState, NEW m \in AppendEntriesMsg,
         Obeys(u, t, m.entries, m.commit), u.snap.index = 0, t.snap.index = 0
  PROVE  /\ t.log = LogAppendAll(u.log, m.entries) /\ t.role = u.role
         /\ StateGrows(u, t)
<1>1. m.entries \in Log /\ m.commit \in Nat
  BY DEF AppendEntriesMsg
<1> DEFINE a == [u EXCEPT !.log = LogAppendAll(u.log, m.entries)]
           k == Smaller(m.commit, LogLastIndex(a))
           b == [a EXCEPT !.commitIndex = k]
<1>2. /\ a \in NodeState /\ a.log = LogAppendAll(u.log, m.entries) /\ a.role = u.role
      /\ a.lastApplied = u.lastApplied /\ a.snap = u.snap /\ a.sm = u.sm
  BY <1>1, WithLog
<1>3. View(t) = View(a) \/ Applies(b, t)
  BY DEF Obeys
<1> HIDE DEF a
<1>4. k \in Nat /\ k <= LogLastIndex(a)
  BY <1>1, <1>2, LogLastIndexType DEF Smaller
<1>5. /\ b \in NodeState /\ b.commitIndex = k /\ b.lastApplied = a.lastApplied
      /\ b.log = a.log /\ b.snap = a.snap /\ b.sm = a.sm /\ b.role = a.role
  BY <1>2, <1>4, AtCommit
<1> HIDE DEF b, k
<1>6. CASE View(t) = View(a)
  <2>1. t.log = a.log /\ t.role = a.role /\ t.sm = a.sm /\ t.snap = a.snap
    BY <1>6 DEF View, Work, Seat
  <2> QED BY <1>2, <2>1 DEF StateGrows
<1>7. CASE Applies(b, t)
  <2>1. /\ t.log = a.log /\ t.snap = u.snap /\ t.role = u.role
        /\ \/ t.sm = u.sm
           \/ k > u.lastApplied /\ t.sm = u.sm \o Applied(b, u.lastApplied + 1, k)
    <3>1. /\ t.log = b.log /\ t.snap = b.snap /\ t.role = b.role
          /\ \/ t.sm = b.sm
             \/ /\ b.commitIndex > b.lastApplied
                /\ t.sm = b.sm \o Applied(b, b.lastApplied + 1, b.commitIndex)
      BY <1>5, <1>7, AppliesPlain
    <3>2. /\ b.log = a.log /\ b.snap = u.snap /\ b.role = u.role /\ b.sm = u.sm
          /\ b.commitIndex = k /\ b.lastApplied = u.lastApplied
      BY <1>2, <1>5
    <3> QED BY <3>1, <3>2
  <2>2. LogLastIndex(t) = LogLastIndex(a)
    <3>1. t.log = a.log /\ t.snap = a.snap
      BY <1>2, <2>1
    <3> QED BY <3>1 DEF LogLastIndex
  <2>3. \A i, j : Applied(b, i, j) = Applied(t, i, j)
    BY <1>5, <2>1, AppliedByLog
  <2> QED BY <1>2, <1>4, <2>1, <2>2, <2>3 DEF StateGrows
<1> QED BY <1>3, <1>6, <1>7

LEMMA DeedPlain ==
  ASSUME NEW s \in NodeState, NEW t \in NodeState, NEW q, Deed(s, t, q),
         s.snap.index = 0, t.snap.index = 0, s.commitIndex <= s.lastApplied,
         \A m \in q : m.type # "install-snapshot"
  PROVE  Grows(s, t, q) /\ StateGrows(s, t)
<1>0. ASSUME t.log = s.log, t.sm = s.sm \/ t.sm = s.snap.data,
             t.snap.data = s.snap.data \/ t.snap.data = s.sm
      PROVE  Grows(s, t, q) /\ StateGrows(s, t)
  BY <1>0 DEF Grows, StateGrows
<1>1. CASE Minor(s, t)
  <2>1. CASE Quiet(s, t)
    BY <1>0, <2>1 DEF Quiet, Work
  <2>2. CASE Follows(s, t)
    BY <1>0, <2>2 DEF Follows
  <2>3. CASE Leads(s, t)
    BY <2>3, LeadsPlain DEF Grows
  <2> QED BY <1>1, <2>1, <2>2, <2>3 DEF Minor
<1>2. CASE \E u \in NodeState, m \in q \cap AppendEntriesMsg :
             /\ Follows(s, u) /\ u.currentTerm = m.term /\ PrevMatches(u, m)
             /\ Obeys(u, t, m.entries, m.commit)
  <2>1. PICK u \in NodeState, m \in q \cap AppendEntriesMsg :
             /\ Follows(s, u) /\ PrevMatches(u, m) /\ Obeys(u, t, m.entries, m.commit)
    BY <1>2
  <2>2. /\ u.log = s.log /\ u.snap = s.snap /\ u.sm = s.sm /\ u.role = "follower"
        /\ u.lastApplied = s.lastApplied
    BY <2>1 DEF Follows
  <2>3. /\ t.log = LogAppendAll(u.log, m.entries) /\ t.role = u.role /\ StateGrows(u, t)
    BY <2>1, <2>2, ObeysPlain
  <2>4. LogTermAt(u, m.prevIndex) = LogTermAt(s, m.prevIndex)
    BY <2>2 DEF LogTermAt
  <2>5. PrevMatches(s, m)
    BY <2>1, <2>4 DEF PrevMatches
  <2>6. StateGrows(s, t)
    BY <2>2, <2>3 DEF StateGrows
  <2> QED BY <2>2, <2>3, <2>5, <2>6 DEF Grows
<1>3. ASSUME NEW m \in q \cap InstallSnapshotMsg PROVE FALSE
  BY <1>3 DEF InstallSnapshotMsg
<1>4. CASE Snaps(s, t)
  <2>1. s.log \in Log /\ s.lastApplied = 0
    BY <1>4 DEF NodeState, Snaps
  <2>2. {j \in DOMAIN s.log : j > 0} = DOMAIN s.log /\ s.log = [k \in DOMAIN s.log |-> s.log[k]]
    BY <2>1 DEF Log, FiniteIndexSet, Index
  <2>3. t.log = s.log
    BY <1>4, <2>1, <2>2 DEF Snaps, Restrict
  <2> QED BY <1>0, <1>4, <2>3 DEF Snaps
<1>5. CASE Stops(s, t)
  <2>1. Work(t) = Work([s EXCEPT !.running = FALSE, !.ticker = FALSE])
    BY <1>5 DEF Stops, View
  <2>2. t.log = s.log /\ t.sm = s.sm /\ t.snap = s.snap
    BY <2>1 DEF Work, NodeState
  <2> QED BY <1>0, <2>2
<1>6. CASE Restarts(s, t)
  BY <1>0, <1>6 DEF Restarts
<1>7. ASSUME NEW r \in Request, Accepts(s, t, r)
      PROVE  Grows(s, t, q) /\ StateGrows(s, t)
  <2> DEFINE a == Extended(s, r)
  <2>1. /\ a \in NodeState /\ a.snap = s.snap /\ a.commitIndex = s.commitIndex
        /\ a.lastApplied = s.lastApplied /\ a.sm = s.sm /\ a.role = s.role
        /\ a.currentTerm = s.currentTerm
    BY ExtendedFacts
  <2>2. Leads(a, t) /\ s.role = "leader"
    BY <1>7, AcceptsIs
  <2> HIDE DEF a
  <2>3. t.log = a.log /\ StateGrows(a, t)
    BY <2>1, <2>2, LeadsPlain
  <2>4. t.role = a.role /\ t.currentTerm = a.currentTerm
    BY <2>1, <2>2, LeadsFacts
  <2> QED BY <2>1, <2>2, <2>3, <2>4 DEF Grows, StateGrows, a
<1>8. ASSUME NEW r \in Request, Declines(s, t, r)
      PROVE  Grows(s, t, q) /\ StateGrows(s, t)
  <2>1. Work(t) = Work([s EXCEPT !.replies = [s.replies EXCEPT ![r] = Append(@, "not-leader")]])
    BY <1>8 DEF Declines, View
  <2>2. t.log = s.log /\ t.sm = s.sm /\ t.snap = s.snap
    BY <2>1 DEF Work, NodeState
  <2> QED BY <1>0, <2>2
<1> QED BY <1>1, <1>2, <1>3, <1>4, <1>5, <1>6, <1>7, <1>8 DEF Deed

(***************************************************************************)
(* Segments: what a log holds, and what a message of a leader carries, are *)
(* runs of entries that follow on an entry of a known term.                *)
(***************************************************************************)
Segment == [prev : Nat, prevTerm : Nat \cup {NoTerm}, ents : Log]

OfLog(s) == [prev |-> 0, prevTerm |-> 0, ents |-> s.log]
OfMail(m) == [prev |-> m.prevIndex, prevTerm |-> m.prevTerm, ents |-> m.entries]

Copied == {m \in UNION {Range(inbox[p]) : p \in Node} : m.type = "append-entries"}
Segments == {OfLog(node[n]) : n \in Node} \cup {OfMail(m) : m \in Copied}

Places(g) == {g.prev} \cup DOMAIN g.ents
TermIn(g, k) == IF k = g.prev THEN g.prevTerm ELSE g.ents[k].term

\* No index is missing after prev, and the term there is known.
Solid(g) ==
  /\ \A k \in DOMAIN g.ents : k > g.prev /\ g.prev + 1 .. k \subseteq DOMAIN g.ents
  /\ DOMAIN g.ents # {} => g.prevTerm # NoTerm /\ (g.prev = 0 => g.prevTerm = 0)

\* From an index where both have an entry of one term, they agree downwards.
Agree(f, g) ==
  \A k \in DOMAIN f.ents \cap DOMAIN g.ents :
    f.ents[k].term = g.ents[k].term =>
      /\ \A j \in DOMAIN f.ents \cap DOMAIN g.ents : j <= k => f.ents[j] = g.ents[j]
      /\ \A j \in Places(f) \cap Places(g) : j <= k => TermIn(f, j) = TermIn(g, j)

\* e is a run of f.
Part(e, f) ==
  /\ DOMAIN e.ents \subseteq DOMAIN f.ents
  /\ \A k \in DOMAIN e.ents : e.ents[k] = f.ents[k]
  /\ DOMAIN e.ents # {} => e.prev \in Places(f) /\ e.prevTerm = TermIn(f, e.prev)

LEMMA SegmentFacts ==
  ASSUME NEW g \in Segment
  PROVE  /\ g.prev \in Nat /\ DOMAIN g.ents \subseteq Nat \ {0}
         /\ \A k \in DOMAIN g.ents : g.ents[k].term \in Nat
<1>1. g.ents \in Log /\ g.prev \in Nat
  BY DEF Segment
<1>2. DOMAIN g.ents \in SUBSET Index
  BY <1>1 DEF Log, FiniteIndexSet
<1>3. \A k \in DOMAIN g.ents : g.ents[k] \in Entry
  BY <1>1 DEF Log
<1>4. \A e \in Entry : e.term \in Nat
  BY DEF Entry
<1> QED BY <1>1, <1>2, <1>3, <1>4 DEF Index

LEMMA AgreeSelf ==
  ASSUME NEW g
  PROVE  Agree(g, g)
BY DEF Agree

LEMMA AgreeBack ==
  ASSUME NEW f, NEW g, Agree(f, g)
  PROVE  Agree(g, f)
BY DEF Agree

LEMMA PartSelf ==
  ASSUME NEW g
  PROVE  Part(g, g)
BY DEF Part, Places, TermIn

\* A run of f agrees with whatever f agrees with.
LEMMA AgreeOfPart ==
  ASSUME NEW e \in Segment, NEW f \in Segment, NEW g \in Segment,
         Solid(e), Solid(f), Part(e, f), Agree(f, g)
  PROVE  Agree(e, g)
<1> SUFFICES ASSUME NEW k \in DOMAIN e.ents \cap DOMAIN g.ents,
                    e.ents[k].term = g.ents[k].term
             PROVE  /\ \A j \in DOMAIN e.ents \cap DOMAIN g.ents :
                         j <= k => e.ents[j] = g.ents[j]
                    /\ \A j \in Places(e) \cap Places(g) :
                         j <= k => TermIn(e, j) = TermIn(g, j)
  BY DEF Agree
<1>1. k \in DOMAIN f.ents /\ f.ents[k].term = g.ents[k].term
  BY DEF Part
<1>2. /\ \A j \in DOMAIN f.ents \cap DOMAIN g.ents : j <= k => f.ents[j] = g.ents[j]
      /\ \A j \in Places(f) \cap Places(g) : j <= k => TermIn(f, j) = TermIn(g, j)
  BY <1>1 DEF Agree
<1>3. ASSUME NEW j \in Places(e) PROVE j \in Places(f) /\ TermIn(e, j) = TermIn(f, j)
  <2>1. CASE j = e.prev
    BY <2>1 DEF Part, TermIn
  <2>2. CASE j # e.prev
    <3>1. j \in DOMAIN e.ents /\ j \in DOMAIN f.ents /\ e.ents[j] = f.ents[j]
      BY <1>3, <2>2 DEF Places, Part
    <3>2. j > f.prev /\ j \in Nat /\ f.prev \in Nat
      BY <3>1, SegmentFacts DEF Solid
    <3>3. j # f.prev
      BY <3>2
    <3> QED BY <2>2, <3>1, <3>3 DEF Places, TermIn
  <2> QED BY <2>1, <2>2
<1> QED BY <1>2, <1>3 DEF Part

\* A new entry after the last one, in a term that no other entry of that index
\* has.
LEMMA AgreeOfEntry ==
  ASSUME NEW l \in Segment, NEW f \in Segment, l.prev = 0, f.prev = 0,
         l.prevTerm = 0, f.prevTerm = 0, Solid(l), NEW k \in Nat \ {0},
         k = 1 \/ k - 1 \in DOMAIN l.ents, \A j \in DOMAIN l.ents : j < k,
         DOMAIN f.ents = DOMAIN l.ents \cup {k},
         \A j \in DOMAIN l.ents : f.ents[j] = l.ents[j]
  PROVE  /\ Solid(f)
         /\ \A g \in Segment :
              Agree(l, g) /\ (k \in DOMAIN g.ents => g.ents[k].term # f.ents[k].term)
                => Agree(f, g)
<1>1. DOMAIN l.ents \subseteq Nat \ {0}
  BY SegmentFacts
<1>2. Solid(f)
  <2>1. ASSUME NEW i \in DOMAIN f.ents PROVE i > 0 /\ 0 + 1 .. i \subseteq DOMAIN f.ents
    <3>1. CASE i \in DOMAIN l.ents
      BY <1>1, <3>1 DEF Solid
    <3>2. CASE i = k
      <4>1. 1 .. k - 1 \subseteq DOMAIN l.ents
        <5>1. CASE k = 1
          BY <5>1
        <5>2. CASE k - 1 \in DOMAIN l.ents
          BY <5>2 DEF Solid
        <5> QED BY <5>1, <5>2
      <4>2. 0 + 1 .. k \subseteq (1 .. k - 1) \cup {k}
        OBVIOUS
      <4> QED BY <3>2, <4>1, <4>2
    <3> QED BY <2>1, <3>1, <3>2
  <2> QED BY <2>1 DEF Solid, NoTerm
<1>3. ASSUME NEW g \in Segment, Agree(l, g),
             k \in DOMAIN g.ents => g.ents[k].term # f.ents[k].term
      PROVE  Agree(f, g)
  <2> SUFFICES ASSUME NEW i \in DOMAIN f.ents \cap DOMAIN g.ents,
                      f.ents[i].term = g.ents[i].term
               PROVE  /\ \A j \in DOMAIN f.ents \cap DOMAIN g.ents :
                           j <= i => f.ents[j] = g.ents[j]
                      /\ \A j \in Places(f) \cap Places(g) :
                           j <= i => TermIn(f, j) = TermIn(g, j)
    BY DEF Agree
  <2>1. i \in DOMAIN l.ents /\ i < k /\ i \in Nat
    BY <1>1, <1>3
  <2>2. l.ents[i].term = g.ents[i].term
    BY <2>1
  <2>3. /\ \A j \in DOMAIN l.ents \cap DOMAIN g.ents : j <= i => l.ents[j] = g.ents[j]
        /\ \A j \in Places(l) \cap Places(g) : j <= i => TermIn(l, j) = TermIn(g, j)
    BY <1>3, <2>1, <2>2 DEF Agree
  <2>4. \A j \in DOMAIN f.ents : j <= i => j \in DOMAIN l.ents
    BY <2>1
  <2>5. \A j \in Places(f) : j <= i => j \in Places(l) /\ TermIn(f, j) = TermIn(l, j)
    BY <2>4 DEF Places, TermIn
  <2> QED BY <2>3, <2>4, <2>5
<1> QED BY <1>2, <1>3

\* raft-log-append! of the entries of e, when prev-index and prev-term match.
Joins(l, e) == e.prev = 0 \/ (e.prev \in DOMAIN l.ents /\ l.ents[e.prev].term = e.prevTerm)
Merged(l, e) == [prev |-> 0, prevTerm |-> 0, ents |-> LogAppendAll(l.ents, e.ents)]

LEMMA MergeOfNothing ==
  ASSUME NEW l \in Segment, NEW e \in Segment, DOMAIN e.ents = {}
  PROVE  LogAppendAll(l.ents, e.ents) = l.ents
<1>1. l.ents = [k \in DOMAIN l.ents |-> l.ents[k]]
  BY DEF Segment, Log
<1> DEFINE clash == {k \in DOMAIN e.ents \cap DOMAIN l.ents : e.ents[k].term # l.ents[k].term}
           kept  == {k \in DOMAIN l.ents : \A c \in clash : k < c}
<1>2. LogAppendAll(l.ents, e.ents)
        = [k \in kept \cup DOMAIN e.ents |-> IF k \in kept THEN l.ents[k] ELSE e.ents[k]]
  BY DEF LogAppendAll
<1>3. kept = DOMAIN l.ents
  OBVIOUS
<1> HIDE DEF kept, clash
<1> QED BY <1>1, <1>2, <1>3

\* What is kept of l, and what e adds.
LEMMA MergeShape ==
  ASSUME NEW l \in Segment, NEW e \in Segment, Solid(l), Solid(e), Joins(l, e),
         l.prev = 0
  PROVE  LET r == LogAppendAll(l.ents, e.ents)
         IN  \E K \in SUBSET DOMAIN l.ents :
               /\ DOMAIN r = K \cup DOMAIN e.ents
               /\ \A k \in K : r[k] = l.ents[k]
               /\ \A k \in DOMAIN e.ents \ K : r[k] = e.ents[k]
               /\ Agree(l, e) => \A k \in DOMAIN e.ents : r[k] = e.ents[k]
               /\ \A k \in K : 1 .. k \subseteq K
               /\ e.prev = 0 \/ e.prev \in K
<1> DEFINE clash == {k \in DOMAIN e.ents \cap DOMAIN l.ents : e.ents[k].term # l.ents[k].term}
           K == {k \in DOMAIN l.ents : \A c \in clash : k < c}
           r == LogAppendAll(l.ents, e.ents)
<1>1. r = [k \in K \cup DOMAIN e.ents |-> IF k \in K THEN l.ents[k] ELSE e.ents[k]]
  BY DEF LogAppendAll
<1> HIDE DEF r
<1>2. /\ DOMAIN r = K \cup DOMAIN e.ents
      /\ \A k \in K : r[k] = l.ents[k]
      /\ \A k \in DOMAIN e.ents \ K : r[k] = e.ents[k]
  BY <1>1
<1>3. DOMAIN l.ents \subseteq Nat \ {0} /\ DOMAIN e.ents \subseteq Nat \ {0} /\ e.prev \in Nat
  BY SegmentFacts
<1>4. ASSUME NEW k \in K PROVE 1 .. k \subseteq K
  <2>1. 1 .. k \subseteq DOMAIN l.ents
    BY <1>4 DEF Solid
  <2>2. \A j \in 1 .. k, c \in clash : j < c
    BY <1>3
  <2> QED BY <2>1, <2>2
<1>5. e.prev = 0 \/ e.prev \in K
  <2>1. \A c \in clash : e.prev < c
    BY <1>3 DEF Solid
  <2> QED BY <2>1 DEF Joins
<1>6. ASSUME Agree(l, e), NEW k \in DOMAIN e.ents PROVE r[k] = e.ents[k]
  <2>1. CASE k \in K
    <3>1. k \in Nat /\ k \notin clash /\ k \in DOMAIN l.ents
      BY <1>3, <2>1
    <3>2. e.ents[k].term = l.ents[k].term
      BY <1>6, <3>1
    <3>3. l.ents[k] = e.ents[k]
      BY <1>6, <3>1, <3>2 DEF Agree
    <3> QED BY <1>2, <2>1, <3>3
  <2>2. CASE k \notin K
    BY <1>2, <1>6, <2>2
  <2> QED BY <2>1, <2>2
<1>7. K \in SUBSET DOMAIN l.ents
  OBVIOUS
<1> HIDE DEF K
<1> QED BY <1>2, <1>4, <1>5, <1>6, <1>7 DEF r

LEMMA SolidOfMerge ==
  ASSUME NEW l \in Segment, NEW e \in Segment, Solid(l), Solid(e), Joins(l, e), l.prev = 0
  PROVE  Solid(Merged(l, e))
<1> DEFINE r == LogAppendAll(l.ents, e.ents)
<1>1. PICK K \in SUBSET DOMAIN l.ents :
        /\ DOMAIN r = K \cup DOMAIN e.ents
        /\ \A k \in K : 1 .. k \subseteq K
        /\ e.prev = 0 \/ e.prev \in K
  BY MergeShape
<1> HIDE DEF r
<1>2. DOMAIN l.ents \subseteq Nat \ {0} /\ DOMAIN e.ents \subseteq Nat \ {0} /\ e.prev \in Nat
  BY SegmentFacts
<1>3. ASSUME NEW k \in DOMAIN r PROVE k > 0 /\ 0 + 1 .. k \subseteq DOMAIN r
  <2>1. CASE k \in K
    BY <1>1, <1>2, <2>1
  <2>2. CASE k \in DOMAIN e.ents
    <3>1. e.prev + 1 .. k \subseteq DOMAIN e.ents
      BY <2>2 DEF Solid
    <3>2. 1 .. e.prev \subseteq K
      BY <1>1
    <3>3. 0 + 1 .. k \subseteq (1 .. e.prev) \cup (e.prev + 1 .. k)
      BY <1>2, <2>2
    <3> QED BY <1>1, <1>2, <2>2, <3>1, <3>2, <3>3
  <2> QED BY <1>1, <1>3, <2>1, <2>2
<1> QED BY <1>3 DEF Solid, Merged, NoTerm, r

\* What two segments agree on with g, their merge agrees on with g: this is
\* what prev-index and prev-term are for.
LEMMA AgreeOfMerge ==
  ASSUME NEW l \in Segment, NEW e \in Segment, NEW g \in Segment,
         Solid(l), Solid(e), Solid(g), Joins(l, e), l.prev = 0, l.prevTerm = 0,
         DOMAIN e.ents # {}, Agree(l, e), Agree(l, g), Agree(e, g)
  PROVE  Agree(Merged(l, e), g)
<1> DEFINE R == Merged(l, e)
<1>1. PICK K \in SUBSET DOMAIN l.ents :
        /\ DOMAIN R.ents = K \cup DOMAIN e.ents
        /\ \A k \in K : R.ents[k] = l.ents[k]
        /\ \A k \in DOMAIN e.ents : R.ents[k] = e.ents[k]
        /\ \A k \in K : 1 .. k \subseteq K
        /\ e.prev = 0 \/ e.prev \in K
  BY MergeShape DEF Merged
<1>2. R.prev = 0 /\ R.prevTerm = 0
  BY DEF Merged
<1>3. SUFFICES Agree(R, g)
  OBVIOUS
<1> HIDE DEF R
<1>4. /\ DOMAIN l.ents \subseteq Nat \ {0} /\ DOMAIN e.ents \subseteq Nat \ {0}
      /\ DOMAIN g.ents \subseteq Nat \ {0} /\ e.prev \in Nat /\ g.prev \in Nat
  BY SegmentFacts
<1>5. e.prev = 0 => e.prevTerm = 0
  BY DEF Solid
\* Below an index that was kept, R is l.
<1>6. ASSUME NEW i \in K, NEW j \in Nat, j <= i
      PROVE  /\ j \in DOMAIN R.ents => j \in DOMAIN l.ents /\ R.ents[j] = l.ents[j]
             /\ j \in Places(R) => j \in Places(l) /\ TermIn(R, j) = TermIn(l, j)
  <2>1. j \in DOMAIN R.ents => j \in K
    BY <1>1, <1>4, <1>6
  <2> QED BY <1>1, <1>2, <2>1 DEF Places, TermIn
<1> DEFINE Same(j) ==
      /\ j \in DOMAIN R.ents /\ j \in DOMAIN g.ents => R.ents[j] = g.ents[j]
      /\ j \in Places(R) /\ j \in Places(g) => TermIn(R, j) = TermIn(g, j)
<1>7. SUFFICES \A k \in DOMAIN R.ents \cap DOMAIN g.ents :
                  R.ents[k].term = g.ents[k].term => \A j \in Nat : j <= k => Same(j)
  <2>1. Places(g) \subseteq Nat /\ DOMAIN g.ents \subseteq Nat
    BY <1>4 DEF Places
  <2> QED BY <2>1 DEF Agree
<1>8. SUFFICES ASSUME NEW k \in DOMAIN R.ents \cap DOMAIN g.ents,
                      R.ents[k].term = g.ents[k].term, NEW j \in Nat, j <= k
               PROVE  /\ j \in DOMAIN R.ents /\ j \in DOMAIN g.ents => R.ents[j] = g.ents[j]
                      /\ j \in Places(R) /\ j \in Places(g) => TermIn(R, j) = TermIn(g, j)
  OBVIOUS
<1>9. ASSUME NEW i \in K, i \in DOMAIN g.ents, l.ents[i].term = g.ents[i].term, j <= i
      PROVE  /\ j \in DOMAIN R.ents /\ j \in DOMAIN g.ents => R.ents[j] = g.ents[j]
             /\ j \in Places(R) /\ j \in Places(g) => TermIn(R, j) = TermIn(g, j)
  <2>1. /\ \A x \in DOMAIN l.ents \cap DOMAIN g.ents : x <= i => l.ents[x] = g.ents[x]
        /\ \A x \in Places(l) \cap Places(g) : x <= i => TermIn(l, x) = TermIn(g, x)
    BY <1>9 DEF Agree
  <2>2. /\ j \in DOMAIN R.ents => j \in DOMAIN l.ents /\ R.ents[j] = l.ents[j]
        /\ j \in Places(R) => j \in Places(l) /\ TermIn(R, j) = TermIn(l, j)
    BY <1>6, <1>9
  <2>3. /\ j \in DOMAIN l.ents /\ j \in DOMAIN g.ents => l.ents[j] = g.ents[j]
        /\ j \in Places(l) /\ j \in Places(g) => TermIn(l, j) = TermIn(g, j)
    BY <1>9, <2>1
  <2> QED BY <2>2, <2>3
<1>10. CASE k \in K
  BY <1>1, <1>8, <1>9, <1>10
<1>11. CASE k \in DOMAIN e.ents
  <2>1. /\ \A x \in DOMAIN e.ents \cap DOMAIN g.ents : x <= k => e.ents[x] = g.ents[x]
        /\ \A x \in Places(e) \cap Places(g) : x <= k => TermIn(e, x) = TermIn(g, x)
    BY <1>1, <1>8, <1>11 DEF Agree
  <2>2. k > e.prev /\ e.prev + 1 .. k \subseteq DOMAIN e.ents
    BY <1>11 DEF Solid
  <2>3. k > g.prev /\ g.prev + 1 .. k \subseteq DOMAIN g.ents /\ k \in Nat
    BY <1>4, <1>8 DEF Solid
  <2>4. CASE j > e.prev
    <3>1. j \in DOMAIN e.ents /\ R.ents[j] = e.ents[j] /\ j # e.prev /\ j # 0
      BY <1>1, <1>4, <1>8, <2>2, <2>3, <2>4
    <3>2. j \in Places(e) /\ TermIn(e, j) = e.ents[j].term
      BY <3>1 DEF Places, TermIn
    <3>3. TermIn(R, j) = R.ents[j].term
      BY <1>2, <3>1 DEF TermIn
    <3> QED BY <1>8, <2>1, <3>1, <3>2, <3>3
  <2>5. CASE j = e.prev
    <3>1. TermIn(e, j) = e.prevTerm /\ j \in Places(e)
      BY <2>5 DEF TermIn, Places
    <3>2. TermIn(R, j) = e.prevTerm
      <4>1. CASE j = 0
        BY <1>2, <1>5, <2>5, <4>1 DEF TermIn
      <4>2. CASE j # 0
        BY <1>1, <1>2, <2>5, <4>2 DEF Joins, TermIn
      <4> QED BY <4>1, <4>2
    <3>3. j \in Places(g) => TermIn(R, j) = TermIn(g, j)
      BY <1>8, <2>1, <3>1, <3>2
    <3>4. ASSUME j \in DOMAIN R.ents, j \in DOMAIN g.ents PROVE R.ents[j] = g.ents[j]
      <4>1. j # 0 /\ j \in K
        BY <1>1, <1>4, <2>5, <3>4
      <4>2. j # g.prev /\ j \in Places(g)
        BY <3>4 DEF Solid, Places
      <4>3. TermIn(R, j) = R.ents[j].term /\ TermIn(g, j) = g.ents[j].term
        BY <1>2, <4>1, <4>2 DEF TermIn
      <4>4. l.ents[j].term = g.ents[j].term
        BY <1>1, <3>3, <4>1, <4>2, <4>3
      <4> QED BY <1>9, <3>4, <4>1, <4>4
    <3> QED BY <3>3, <3>4
  <2>6. CASE j < e.prev
    <3> SUFFICES ASSUME j \in Places(g) \/ j \in DOMAIN g.ents
                 PROVE  /\ j \in DOMAIN R.ents /\ j \in DOMAIN g.ents => R.ents[j] = g.ents[j]
                        /\ j \in Places(R) /\ j \in Places(g) => TermIn(R, j) = TermIn(g, j)
      OBVIOUS
    <3>1. g.prev <= j
      BY <1>4 DEF Places, Solid
    <3>2. e.prev \in DOMAIN g.ents /\ e.prev # g.prev /\ e.prev # 0
      BY <1>4, <2>2, <2>3, <2>6, <3>1
    <3>3. e.prev \in Places(e) /\ e.prev \in Places(g)
      BY <3>2 DEF Places
    <3>4. TermIn(e, e.prev) = e.prevTerm /\ TermIn(g, e.prev) = g.ents[e.prev].term
      BY <3>2 DEF TermIn
    <3>5. e.prevTerm = g.ents[e.prev].term
      BY <1>4, <2>1, <2>2, <2>3, <3>3, <3>4
    <3>6. e.prev \in K /\ l.ents[e.prev].term = g.ents[e.prev].term
      BY <1>1, <3>2, <3>5 DEF Joins
    <3> QED BY <1>4, <1>9, <2>6, <3>2, <3>6
  <2> QED BY <1>4, <1>8, <2>4, <2>5, <2>6
<1> QED BY <1>1, <1>8, <1>10, <1>11

(***************************************************************************)
(* Where segments come from.                                               *)
(***************************************************************************)
LEMMA LogSegment ==
  ASSUME NEW s \in NodeState
  PROVE  OfLog(s) \in Segment /\ OfLog(s).prev = 0 /\ OfLog(s).prevTerm = 0
         /\ OfLog(s).ents = s.log
<1>1. s.log \in Log
  BY DEF NodeState
<1> QED BY <1>1 DEF OfLog, Segment

LEMMA MailSegment ==
  ASSUME NEW m \in AppendEntriesMsg
  PROVE  OfMail(m) \in Segment /\ OfMail(m).prev = m.prevIndex
         /\ OfMail(m).prevTerm = m.prevTerm /\ OfMail(m).ents = m.entries
<1>1. /\ m.entries \in Log /\ m.prevIndex \in Nat /\ m.prevTerm \in Nat \cup {NoTerm}
  BY DEF AppendEntriesMsg
<1> QED BY <1>1 DEF OfMail, Segment

\* A copy for a peer is a run of the leader's log.
LEMMA CopyPlain ==
  ASSUME NEW t \in NodeState, NEW p \in Node, t.snap.index = 0, t.nextIndex[p] >= 1,
         Solid(OfLog(t))
  PROVE  LET m == AppendEntriesMessage(t, p)
         IN  /\ m.type = "append-entries" /\ m \in AppendEntriesMsg
             /\ Solid(OfMail(m)) /\ Part(OfMail(m), OfLog(t))
<1> DEFINE next == t.nextIndex[p]
           m == AppendEntriesMessage(t, p)
           es == LogSlice(t, next, LogLastIndex(t))
<1>1. next \in Nat /\ next >= 1 /\ t.log \in Log
  BY DEF NodeState, Progress
<1>2. /\ m.type = "append-entries" /\ m.prevIndex = next - 1
      /\ m.prevTerm = LogTermAt(t, next - 1) /\ m.entries = es
  BY <1>1 DEF AppendEntriesMessage
<1>3. m \in AppendEntriesMsg
  <2>1. m \in Message
    BY AppendEntriesMessageType DEF Message
  <2> QED BY <1>2, <2>1, MessageFields
<1>4. /\ DOMAIN es = DOMAIN t.log \cap (next .. LogLastIndex(t))
      /\ \A k \in DOMAIN es : es[k] = t.log[k]
  BY DEF LogSlice, Restrict
<1> HIDE DEF next, m, es
<1> DEFINE e == OfMail(m)
           f == OfLog(t)
<1>5. e.prev = next - 1 /\ e.prevTerm = LogTermAt(t, next - 1) /\ e.ents = es
  BY <1>2, <1>3, MailSegment
<1>6. f \in Segment /\ f.prev = 0 /\ f.prevTerm = 0 /\ f.ents = t.log /\ Solid(f)
  BY LogSegment
<1>7. \A k \in DOMAIN t.log : k \in Nat /\ k <= LogLastIndex(t) /\ 1 .. k \subseteq DOMAIN t.log
  BY <1>6, LastIndexBounds DEF Solid
<1>8. LogLastIndex(t) \in Nat
  BY LogLastIndexType
<1> HIDE DEF e, f
<1>9. ASSUME NEW k \in DOMAIN es
      PROVE  /\ k > next - 1 /\ next - 1 + 1 .. k \subseteq DOMAIN es
             /\ next = 1 \/ next - 1 \in DOMAIN t.log
  <2>1. k \in DOMAIN t.log /\ k >= next /\ k \in Nat /\ k <= LogLastIndex(t)
    BY <1>1, <1>4, <1>7, <1>9
  <2>2. 1 .. k \subseteq DOMAIN t.log
    BY <1>7, <2>1
  <2> QED BY <1>1, <1>4, <1>8, <2>1, <2>2
<1>10. ASSUME DOMAIN es # {}
       PROVE  /\ e.prevTerm # NoTerm /\ (e.prev = 0 => e.prevTerm = 0)
              /\ e.prev \in Places(f) /\ e.prevTerm = TermIn(f, e.prev)
  <2>1. next = 1 \/ next - 1 \in DOMAIN t.log
    BY <1>9, <1>10
  <2>2. CASE next = 1
    <3>1. e.prev = 0 /\ e.prevTerm = 0
      BY <1>5, <2>2, PlainLog
    <3> QED BY <1>6, <3>1 DEF NoTerm, Places, TermIn
  <2>3. CASE next - 1 \in DOMAIN t.log
    <3>1. e.prevTerm = t.log[e.prev].term /\ e.prev \in DOMAIN f.ents /\ e.prev # 0
      BY <1>5, <1>6, <2>3, PlainLog, SegmentFacts
    <3>2. e.prevTerm \in Nat
      BY <1>6, <3>1, SegmentFacts
    <3> QED BY <1>6, <3>1, <3>2 DEF NoTerm, Places, TermIn
  <2> QED BY <2>1, <2>2, <2>3
<1>11. Solid(e)
  BY <1>5, <1>9, <1>10 DEF Solid
<1>12. Part(e, f)
  BY <1>4, <1>5, <1>6, <1>10 DEF Part
<1> QED BY <1>2, <1>3, <1>11, <1>12 DEF m, e, f

\* How a log grows, as segments: by a merge, or by an entry of the leader's term.
Adds(s, t, q) ==
  \/ t.log = s.log
  \/ \E m \in q \cap AppendEntriesMsg :
       /\ t.role = "follower" /\ DOMAIN m.entries # {}
       /\ Joins(OfLog(s), OfMail(m)) /\ OfLog(t) = Merged(OfLog(s), OfMail(m))
  \/ /\ s.role = "leader" /\ t.role = "leader" /\ t.currentTerm = s.currentTerm
     /\ \E k \in Nat \ {0} :
          /\ k = 1 \/ k - 1 \in DOMAIN s.log
          /\ \A j \in DOMAIN s.log : j < k /\ t.log[j] = s.log[j]
          /\ DOMAIN t.log = DOMAIN s.log \cup {k}
          /\ t.log[k].term = s.currentTerm

LEMMA GrowsAdds ==
  ASSUME NEW s \in NodeState, NEW t \in NodeState, NEW q, Grows(s, t, q),
         s.snap.index = 0, Solid(OfLog(s)),
         \A m \in q \cap AppendEntriesMsg : Solid(OfMail(m))
  PROVE  Adds(s, t, q) /\ Solid(OfLog(t))
<1> DEFINE l == OfLog(s)
<1>1. l \in Segment /\ l.prev = 0 /\ l.prevTerm = 0 /\ l.ents = s.log
  BY LogSegment
<1>2. CASE t.log = s.log
  BY <1>2 DEF Adds, OfLog
<1>3. ASSUME NEW m \in q \cap AppendEntriesMsg, PrevMatches(s, m), t.role = "follower",
             t.log = LogAppendAll(s.log, m.entries), t.log # s.log
      PROVE  Adds(s, t, q) /\ Solid(OfLog(t))
  <2> DEFINE e == OfMail(m)
  <2>1. e \in Segment /\ e.prev = m.prevIndex /\ e.prevTerm = m.prevTerm /\ e.ents = m.entries
    BY MailSegment
  <2>2. Solid(e)
    OBVIOUS
  <2>3. OfLog(t) = Merged(l, e)
    BY <1>1, <1>3, <2>1 DEF OfLog, Merged
  <2> HIDE DEF e, l
  <2>4. DOMAIN m.entries # {}
    BY <1>1, <1>3, <2>1, MergeOfNothing
  <2>5. Joins(l, e)
    <3>1. e.prevTerm # NoTerm
      BY <2>1, <2>2, <2>4 DEF Solid
    <3>2. e.prev = 0 \/ LogTermAt(s, e.prev) = e.prevTerm
      BY <1>3, <2>1 DEF PrevMatches
    <3>3. e.prev # 0 => e.prev \in DOMAIN s.log /\ s.log[e.prev].term = e.prevTerm
      BY <3>1, <3>2, PlainLog
    <3> QED BY <1>1, <3>3 DEF Joins
  <2>6. Solid(Merged(l, e))
    BY <1>1, <2>1, <2>2, <2>5, SolidOfMerge DEF l
  <2> QED BY <1>3, <2>3, <2>4, <2>5, <2>6 DEF Adds, l, e
<1>4. ASSUME s.role = "leader", t.role = "leader", t.currentTerm = s.currentTerm,
             NEW r \in Request, t.log = Extended(s, r).log
      PROVE  Adds(s, t, q) /\ Solid(OfLog(t))
  <2> DEFINE k == LogLastIndex(s) + 1
  <2>1. /\ k \in Index /\ DOMAIN t.log = DOMAIN s.log \cup {k}
        /\ t.log[k] = EntryFor(s, r) /\ \A j \in DOMAIN s.log : t.log[j] = s.log[j]
    BY <1>4, ExtendedFacts
  <2>2. k = 1 \/ k - 1 \in DOMAIN s.log
    BY PlainLog, LogLastIndexType
  <2>3. \A j \in DOMAIN s.log : j < k
    BY LastIndexBounds, LogLastIndexType
  <2>4. t.log[k].term = s.currentTerm
    BY <2>1 DEF EntryFor
  <2> HIDE DEF k
  <2>5. k \in Nat \ {0}
    BY <2>1 DEF Index
  <2>6. Adds(s, t, q)
    BY <1>4, <2>1, <2>2, <2>3, <2>4, <2>5 DEF Adds
  <2> DEFINE f == OfLog(t)
  <2>7. f \in Segment /\ f.prev = 0 /\ f.prevTerm = 0 /\ f.ents = t.log
    BY LogSegment
  <2> HIDE DEF f, l
  <2>8. Solid(f)
    BY <1>1, <2>1, <2>2, <2>3, <2>5, <2>7, AgreeOfEntry DEF l
  <2> QED BY <2>6, <2>8 DEF f
<1> QED BY <1>2, <1>3, <1>4 DEF Grows

\* While nothing is compacted: nobody is sent a snapshot, and no segment has a
\* gap.
PlainInv ==
  /\ \A n \in Node : NextOK(node[n])
  /\ \A p \in Node : \A m \in Range(inbox[p]) : m.type # "install-snapshot"
  /\ \A g \in Segments : Solid(g)

LEMMA CopiedType ==
  ASSUME TypeInv
  PROVE  Copied \subseteq AppendEntriesMsg
BY MailType, MessageFields DEF Copied

LEMMA SegmentsType ==
  ASSUME TypeInv
  PROVE  Segments \subseteq Segment
<1>1. \A n \in Node : OfLog(node[n]) \in Segment
  BY LogSegment DEF TypeInv
<1>2. \A m \in Copied : OfMail(m) \in Segment
  BY CopiedType, MailSegment
<1> QED BY <1>1, <1>2 DEF Segments

\* What a move leaves: the node's log with what was added, and segments that
\* were there before or are runs of that log.
LEMMA PlainMove ==
  ASSUME TypeInv, NoCompaction, CommittedIsApplied, PlainInv,
         NEW n \in Node, NEW t \in NodeState, t.snap.index = 0,
         node' = [node EXCEPT ![n] = t], Move(n, t)
  PROVE  /\ PlainInv'
         /\ Adds(node[n], t, Range(inbox[n])) /\ StateGrows(node[n], t)
         /\ OfLog(t) \in Segment /\ Solid(OfLog(t))
         /\ \A g \in Segments' :
              g \in Segments \/ (g \in Segment /\ Solid(g) /\ Part(g, OfLog(t)))
<1> DEFINE s == node[n]
           q == Range(inbox[n])
<1>1. s \in NodeState /\ node'[n] = t /\ \A j \in Node : j # n => node'[j] = node[j]
  BY DEF TypeInv
<1>2. \A m \in q : m.type # "install-snapshot"
  BY DEF PlainInv
<1>3. Grows(s, t, q) /\ StateGrows(s, t)
  BY <1>1, <1>2, DeedPlain DEF Move, NoCompaction, CommittedIsApplied
<1>4. Solid(OfLog(s)) /\ \A m \in q \cap AppendEntriesMsg : Solid(OfMail(m))
  <2>1. OfLog(s) \in Segments
    BY DEF Segments
  <2>2. \A m \in q \cap AppendEntriesMsg : m \in Copied
    BY DEF Copied, AppendEntriesMsg
  <2>3. \A m \in q \cap AppendEntriesMsg : OfMail(m) \in Segments
    BY <2>2 DEF Segments
  <2> QED BY <2>1, <2>3 DEF PlainInv
<1>5. Adds(s, t, q) /\ Solid(OfLog(t))
  <2>1. s.snap.index = 0
    BY DEF NoCompaction
  <2> HIDE DEF s, q
  <2> QED BY <1>1, <1>3, <1>4, <2>1, GrowsAdds
<1>6. OfLog(t) \in Segment /\ Part(OfLog(t), OfLog(t))
  BY LogSegment, PartSelf
<1>7. NextOK(t)
  BY DEF Move, Hop, PlainInv
\* New mail is a copy of the log of t, or has no entries.
<1>8. ASSUME NEW p \in Node, NEW m \in Range(inbox'[p]), m \notin Range(inbox[p])
      PROVE  /\ m.type # "install-snapshot"
             /\ m.type = "append-entries" =>
                  /\ OfMail(m) \in Segment /\ Solid(OfMail(m))
                  /\ Part(OfMail(m), OfLog(t))
  <2>1. Letter(t, p, m)
    BY <1>8 DEF Move, Post
  <2>2. CASE Plain(t, p, m)
    BY <2>2 DEF Plain, EntryMail
  <2>3. CASE t.role = "leader" /\ p \in t.peers \cup t.learners /\ m = AppendEntriesMessage(t, p)
    <3>1. t.nextIndex[p] >= 1
      BY <1>7, <2>3 DEF NextOK
    <3>2. /\ m.type = "append-entries" /\ m \in AppendEntriesMsg
          /\ Solid(OfMail(m)) /\ Part(OfMail(m), OfLog(t))
      BY <1>5, <2>3, <3>1, CopyPlain
    <3> QED BY <3>2, MailSegment
  <2> QED BY <2>1, <2>2, <2>3 DEF Letter
<1> HIDE DEF s, q
<1>9. ASSUME NEW g \in Segments'
      PROVE  g \in Segments \/ (g \in Segment /\ Solid(g) /\ Part(g, OfLog(t)))
  <2>1. \/ \E j \in Node : g = OfLog(node'[j])
        \/ \E p \in Node : \E m \in Range(inbox'[p]) :
             m.type = "append-entries" /\ g = OfMail(m)
    BY <1>9 DEF Segments, Copied
  <2>2. ASSUME NEW j \in Node, g = OfLog(node'[j])
        PROVE  g \in Segments \/ (g \in Segment /\ Solid(g) /\ Part(g, OfLog(t)))
    <3>1. CASE j = n
      BY <1>1, <1>5, <1>6, <2>2, <3>1
    <3>2. CASE j # n
      BY <1>1, <2>2, <3>2 DEF Segments
    <3> QED BY <3>1, <3>2
  <2>3. ASSUME NEW p \in Node, NEW m \in Range(inbox'[p]),
               m.type = "append-entries", g = OfMail(m)
        PROVE  g \in Segments \/ (g \in Segment /\ Solid(g) /\ Part(g, OfLog(t)))
    <3>1. CASE m \in Range(inbox[p])
      BY <2>3, <3>1 DEF Segments, Copied
    <3>2. CASE m \notin Range(inbox[p])
      BY <1>8, <2>3, <3>2
    <3> QED BY <3>1, <3>2
  <2> QED BY <2>1, <2>2, <2>3
<1>10. PlainInv'
  <2>1. \A j \in Node : NextOK(node'[j])
    BY <1>1, <1>7 DEF PlainInv
  <2>2. \A p \in Node : \A m \in Range(inbox'[p]) : m.type # "install-snapshot"
    BY <1>8 DEF PlainInv
  <2>3. \A g \in Segments' : Solid(g)
    BY <1>9 DEF PlainInv
  <2> QED BY <2>1, <2>2, <2>3 DEF PlainInv
<1> QED BY <1>3, <1>5, <1>6, <1>9, <1>10 DEF s, q

LEMMA PlainInit == Init => PlainInv
<1> SUFFICES ASSUME Init PROVE PlainInv
  OBVIOUS
<1>1. \A n \in Node : node[n].role = "follower" /\ DOMAIN node[n].log = {}
  BY DEF Init, NewState, EmptyLog
<1>2. \A p \in Node : Range(inbox[p]) = {}
  BY RangeOfEmpty DEF Init
<1>3. Segments = {OfLog(node[n]) : n \in Node}
  BY <1>2 DEF Segments, Copied
<1>4. \A n \in Node : Solid(OfLog(node[n]))
  BY <1>1 DEF Solid, OfLog
<1> QED BY <1>1, <1>2, <1>3, <1>4 DEF PlainInv, NextOK

LEMMA PlainNext ==
  ASSUME TypeInv, NoCompaction, NoCompaction', CommittedIsApplied, PlainInv, [Next]_vars
  PROVE  PlainInv'
<1>1. CASE node' = node /\ inbox' = inbox
  BY <1>1 DEF PlainInv, Segments, Copied
<1>2. CASE \E n \in Node, t \in NodeState : node' = [node EXCEPT ![n] = t] /\ Move(n, t)
  <2>1. PICK n \in Node, t \in NodeState : node' = [node EXCEPT ![n] = t] /\ Move(n, t)
    BY <1>2
  <2>2. t.snap.index = 0
    BY <2>1 DEF TypeInv, NoCompaction
  <2> QED BY <2>1, <2>2, PlainMove
<1> QED BY <1>1, <1>2, Moves

(***************************************************************************)
(* Logs match.                                                             *)
(***************************************************************************)

\* Entries are made by nodes that lead, or led, their term.
Known(g) == \A k \in DOMAIN g.ents : \E j \in Node : g.ents[k].term \in node[j].elected

\* A leader has an entry wherever there is one of its term.
Led(g) ==
  \A j \in Node : node[j].role = "leader" =>
    \A k \in DOMAIN g.ents : g.ents[k].term = node[j].currentTerm => k \in DOMAIN node[j].log

MatchInv ==
  /\ \A g \in Segments : Known(g) /\ Led(g)
  /\ \A f, g \in Segments : Agree(f, g)

\* Where the entries of a new log come from.
LEMMA AddsEntries ==
  ASSUME NEW s \in NodeState, NEW t \in NodeState, NEW q, Adds(s, t, q), Solid(OfLog(s)),
         \A m \in q \cap AppendEntriesMsg : Solid(OfMail(m)), NEW k \in DOMAIN t.log
  PROVE  \/ k \in DOMAIN s.log /\ t.log[k] = s.log[k]
         \/ \E m \in q \cap AppendEntriesMsg :
              k \in DOMAIN OfMail(m).ents /\ t.log[k] = OfMail(m).ents[k]
         \/ s.role = "leader" /\ t.role = "leader" /\ t.log[k].term = t.currentTerm
<1>1. OfLog(s) \in Segment /\ OfLog(s).prev = 0 /\ OfLog(s).ents = s.log
  BY LogSegment
<1>2. ASSUME NEW m \in q \cap AppendEntriesMsg,
             Joins(OfLog(s), OfMail(m)), OfLog(t) = Merged(OfLog(s), OfMail(m))
      PROVE  \/ k \in DOMAIN s.log /\ t.log[k] = s.log[k]
             \/ k \in DOMAIN OfMail(m).ents /\ t.log[k] = OfMail(m).ents[k]
  <2> DEFINE l == OfLog(s)
             e == OfMail(m)
  <2>1. /\ e \in Segment /\ Solid(e) /\ Joins(l, e)
        /\ l \in Segment /\ Solid(l) /\ l.prev = 0 /\ l.ents = s.log
    BY <1>1, <1>2, MailSegment
  <2>2. t.log = LogAppendAll(l.ents, e.ents)
    BY <1>2, LogSegment DEF Merged
  <2> HIDE DEF l, e
  <2>3. PICK K \in SUBSET DOMAIN l.ents :
          LET r == LogAppendAll(l.ents, e.ents)
          IN  /\ DOMAIN r = K \cup DOMAIN e.ents
              /\ \A i \in K : r[i] = l.ents[i]
              /\ \A i \in DOMAIN e.ents \ K : r[i] = e.ents[i]
    BY <2>1, MergeShape
  <2>4. \/ k \in DOMAIN s.log /\ t.log[k] = s.log[k]
        \/ k \in DOMAIN e.ents /\ t.log[k] = e.ents[k]
    BY <2>1, <2>2, <2>3
  <2> QED BY <2>4 DEF e
<1> QED BY <1>2 DEF Adds

\* The leader's own log has an entry of its term wherever a segment has one.
LEMMA LedStep ==
  ASSUME TypeInv, SealInv, MatchInv, ElectionSafety',
         NEW n \in Node, NEW t \in NodeState, node' = [node EXCEPT ![n] = t],
         Hop(node[n], t), Adds(node[n], t, Range(inbox[n])), NEW g \in Segments
  PROVE  Known(g)' /\ Led(g)'
<1> DEFINE s == node[n]
<1>1. node'[n] = t /\ \A j \in Node : j # n => node'[j] = node[j]
  BY DEF TypeInv
<1>2. s.elected \subseteq t.elected /\ SeatOK(t) /\ Fresh(s, t)
  BY DEF Hop, SealInv
<1>3. \A j \in Node : node[j].elected \subseteq node'[j].elected
  BY <1>1, <1>2
<1>4. Known(g) /\ Led(g)
  BY DEF MatchInv
<1>5. Known(g)'
  BY <1>3, <1>4 DEF Known
<1>6. ASSUME t.role = "leader", NEW k \in DOMAIN g.ents, g.ents[k].term = t.currentTerm
      PROVE  k \in DOMAIN t.log
  <2>1. t.currentTerm \in t.elected
    BY <1>2, <1>6 DEF SeatOK
  <2>2. PICK j \in Node : t.currentTerm \in node[j].elected
    BY <1>4, <1>6 DEF Known
  <2>3. j = n
    BY <1>1, <1>3, <2>1, <2>2 DEF ElectionSafety
  <2>4. s.role = "leader" /\ t.currentTerm = s.currentTerm
    BY <1>2, <1>6, <2>2, <2>3 DEF Fresh
  <2>5. k \in DOMAIN s.log
    BY <1>4, <1>6, <2>4 DEF Led
  <2>6. t.log = s.log \/ \A i \in DOMAIN s.log : i \in DOMAIN t.log
    BY <1>6 DEF Adds
  <2> QED BY <2>5, <2>6
<1>7. Led(g)'
  <2> SUFFICES ASSUME NEW j \in Node, node'[j].role = "leader", NEW k \in DOMAIN g.ents,
                      g.ents[k].term = node'[j].currentTerm
               PROVE  k \in DOMAIN node'[j].log
    BY DEF Led
  <2>1. CASE j = n
    BY <1>1, <1>6, <2>1
  <2>2. CASE j # n
    BY <1>1, <1>4, <2>2 DEF Led
  <2> QED BY <2>1, <2>2
<1> QED BY <1>5, <1>7

LEMMA MatchStep ==
  ASSUME TypeInv, SealInv, PlainInv, MatchInv, ElectionSafety',
         NEW n \in Node, NEW t \in NodeState, node' = [node EXCEPT ![n] = t],
         Hop(node[n], t), Adds(node[n], t, Range(inbox[n])),
         OfLog(t) \in Segment, Solid(OfLog(t))
  PROVE  /\ Known(OfLog(t))' /\ Led(OfLog(t))'
         /\ \A g \in Segments : Agree(OfLog(t), g)
<1> DEFINE s == node[n]
           q == Range(inbox[n])
           l == OfLog(s)
           f == OfLog(t)
<1>1. s \in NodeState /\ node'[n] = t /\ \A j \in Node : j # n => node'[j] = node[j]
  BY DEF TypeInv
<1>2. l \in Segments /\ l \in Segment /\ Solid(l)
  BY SegmentsType DEF Segments, PlainInv
<1>3. \A m \in q \cap AppendEntriesMsg :
        OfMail(m) \in Segments /\ OfMail(m) \in Segment /\ Solid(OfMail(m))
  <2>1. \A m \in q \cap AppendEntriesMsg : m \in Copied
    BY DEF Copied, AppendEntriesMsg
  <2>2. \A m \in q \cap AppendEntriesMsg : OfMail(m) \in Segments
    BY <2>1 DEF Segments
  <2> QED BY <2>2, SegmentsType DEF PlainInv
<1>4. \A g \in Segments : Known(g)' /\ Led(g)'
  BY LedStep
<1>5. f.ents = t.log /\ f.prev = 0 /\ f.prevTerm = 0
      /\ l.ents = s.log /\ l.prev = 0 /\ l.prevTerm = 0
  BY <1>1, LogSegment
<1>6. SeatOK(t)
  BY DEF Hop, SealInv
\* An entry of the new log is one of a segment, or has the term of n's reign.
<1>7. ASSUME NEW k \in DOMAIN f.ents
      PROVE  \/ \E g \in Segments : k \in DOMAIN g.ents /\ g.ents[k] = f.ents[k]
             \/ t.role = "leader" /\ f.ents[k].term = t.currentTerm
  <2>1. \/ k \in DOMAIN s.log /\ t.log[k] = s.log[k]
        \/ \E m \in q \cap AppendEntriesMsg :
             k \in DOMAIN OfMail(m).ents /\ t.log[k] = OfMail(m).ents[k]
        \/ s.role = "leader" /\ t.role = "leader" /\ t.log[k].term = t.currentTerm
    <3>1. k \in DOMAIN t.log /\ Adds(s, t, q) /\ Solid(OfLog(s))
      BY <1>2, <1>5
    <3> HIDE DEF s, q
    <3> QED BY <1>1, <1>3, <3>1, AddsEntries
  <2> HIDE DEF q, s, l, f
  <2> QED BY <1>2, <1>3, <1>5, <2>1
<1>8. Known(f)'
  <2> SUFFICES ASSUME NEW k \in DOMAIN f.ents
               PROVE  \E j \in Node : f.ents[k].term \in node'[j].elected
    BY DEF Known
  <2>1. CASE \E g \in Segments : k \in DOMAIN g.ents /\ g.ents[k] = f.ents[k]
    BY <1>4, <2>1 DEF Known
  <2>2. CASE t.role = "leader" /\ f.ents[k].term = t.currentTerm
    BY <1>1, <1>6, <2>2 DEF SeatOK
  <2> QED BY <1>7, <2>1, <2>2
<1>9. Led(f)'
  <2> SUFFICES ASSUME NEW j \in Node, node'[j].role = "leader", NEW k \in DOMAIN f.ents,
                      f.ents[k].term = node'[j].currentTerm
               PROVE  k \in DOMAIN node'[j].log
    BY DEF Led
  <2>1. CASE \E g \in Segments : k \in DOMAIN g.ents /\ g.ents[k] = f.ents[k]
    BY <1>4, <2>1 DEF Led
  <2>2. CASE t.role = "leader" /\ f.ents[k].term = t.currentTerm
    <3>1. t.currentTerm \in node'[n].elected
      BY <1>1, <1>6, <2>2 DEF SeatOK
    <3>2. node'[j].currentTerm \in node'[j].elected
      <4>1. SeatOK(node'[j])
        BY <1>1, <1>6 DEF SealInv
      <4> QED BY <4>1 DEF SeatOK
    <3>3. j = n
      BY <2>2, <3>1, <3>2 DEF ElectionSafety
    <3> QED BY <1>1, <1>5, <3>3
  <2> QED BY <1>7, <2>1, <2>2
<1>10. ASSUME NEW g \in Segments PROVE Agree(f, g)
  <2>1. g \in Segment /\ Solid(g) /\ Agree(l, g) /\ Led(g)
    BY <1>2, SegmentsType DEF MatchInv, PlainInv
  <2>2. CASE t.log = s.log
    <3>1. f = l
      BY <2>2 DEF OfLog
    <3> QED BY <2>1, <3>1
  <2>3. ASSUME NEW m \in q \cap AppendEntriesMsg, DOMAIN m.entries # {},
               Joins(l, OfMail(m)), f = Merged(l, OfMail(m))
        PROVE  Agree(f, g)
    <3> DEFINE e == OfMail(m)
    <3>1. e \in Segments /\ e \in Segment /\ Solid(e) /\ DOMAIN e.ents # {}
      BY <1>3, <2>3, MailSegment
    <3>2. Agree(l, e) /\ Agree(e, g)
      BY <1>2, <3>1 DEF MatchInv
    <3> HIDE DEF e, l, f
    <3>3. Agree(Merged(l, e), g)
      BY <1>2, <1>5, <2>1, <2>3, <3>1, <3>2, AgreeOfMerge DEF e
    <3> QED BY <2>3, <3>3 DEF e
  <2>4. ASSUME s.role = "leader", NEW k \in Nat \ {0},
               k = 1 \/ k - 1 \in DOMAIN s.log,
               \A j \in DOMAIN s.log : j < k /\ t.log[j] = s.log[j],
               DOMAIN t.log = DOMAIN s.log \cup {k}, t.log[k].term = s.currentTerm
        PROVE  Agree(f, g)
    <3>1. k \notin DOMAIN s.log
      BY <2>4
    <3>2. k \in DOMAIN g.ents => g.ents[k].term # f.ents[k].term
      BY <1>5, <2>1, <2>4, <3>1 DEF Led
    <3> HIDE DEF f, l, s
    <3>3. f \in Segment
      BY DEF f
    <3> QED BY <1>2, <1>5, <2>1, <2>4, <3>2, <3>3, AgreeOfEntry
  <2> QED BY <2>2, <2>3, <2>4 DEF Adds
<1> QED BY <1>8, <1>9, <1>10

LEMMA MatchNext ==
  ASSUME TypeInv, SealInv, NoCompaction, NoCompaction', CommittedIsApplied, PlainInv,
         MatchInv, ElectionSafety', [Next]_vars
  PROVE  MatchInv'
<1>1. CASE node' = node /\ inbox' = inbox
  BY <1>1 DEF MatchInv, Segments, Copied, Known, Led
<1>2. CASE \E n \in Node, t \in NodeState : node' = [node EXCEPT ![n] = t] /\ Move(n, t)
  <2>1. PICK n \in Node, t \in NodeState : node' = [node EXCEPT ![n] = t] /\ Move(n, t)
    BY <1>2
  <2>2. t.snap.index = 0
    BY <2>1 DEF TypeInv, NoCompaction
  <2> DEFINE f == OfLog(t)
  <2>3. /\ Adds(node[n], t, Range(inbox[n])) /\ f \in Segment /\ Solid(f)
        /\ \A g \in Segments' : g \in Segments \/ (g \in Segment /\ Solid(g) /\ Part(g, f))
    BY <2>1, <2>2, PlainMove
  <2>4. Hop(node[n], t)
    BY <2>1 DEF Move
  <2>5. Known(f)' /\ Led(f)' /\ \A g \in Segments : Agree(f, g)
    BY <2>1, <2>3, <2>4, MatchStep
  <2>6. \A g \in Segments : Known(g)' /\ Led(g)' /\ g \in Segment /\ Solid(g)
    BY <2>1, <2>3, <2>4, LedStep, SegmentsType DEF PlainInv
  <2> HIDE DEF f
  <2>7. ASSUME NEW g \in Segments' PROVE Known(g)' /\ Led(g)'
    <3>1. CASE g \in Segments
      BY <2>6, <3>1
    <3>2. CASE Part(g, f)
      BY <2>5, <3>2 DEF Part, Known, Led
    <3> QED BY <2>3, <2>7, <3>1, <3>2
  <2>8. ASSUME NEW g \in Segments' PROVE Agree(f, g)
    <3>1. CASE g \in Segments
      BY <2>5, <3>1
    <3>2. CASE g \in Segment /\ Solid(g) /\ Part(g, f)
      BY <2>3, <3>2, AgreeSelf, AgreeOfPart, AgreeBack
    <3> QED BY <2>3, <2>8, <3>1, <3>2
  <2>9. ASSUME NEW g \in Segments', NEW h \in Segments' PROVE Agree(g, h)
    <3>1. g \in Segment /\ h \in Segment /\ Solid(g) /\ Solid(h)
      BY <2>3, <2>6, <2>9
    <3>2. Agree(f, g) /\ Agree(f, h)
      BY <2>8, <2>9
    <3>3. CASE g \in Segments /\ h \in Segments
      BY <3>3 DEF MatchInv
    <3>4. CASE Part(g, f)
      BY <2>3, <3>1, <3>2, <3>4, AgreeOfPart
    <3>5. CASE Part(h, f)
      <4>1. Agree(h, g)
        BY <2>3, <3>1, <3>2, <3>5, AgreeOfPart
      <4> QED BY <4>1, AgreeBack
    <3> QED BY <2>3, <2>9, <3>3, <3>4, <3>5
  <2> QED BY <2>7, <2>9 DEF MatchInv
<1> QED BY <1>1, <1>2, Moves

LEMMA MatchInit == Init => MatchInv
<1> SUFFICES ASSUME Init PROVE MatchInv
  OBVIOUS
<1>1. \A n \in Node : DOMAIN node[n].log = {}
  BY DEF Init, NewState, EmptyLog
<1>2. \A p \in Node : Range(inbox[p]) = {}
  BY RangeOfEmpty DEF Init
<1>3. Segments = {OfLog(node[n]) : n \in Node}
  BY <1>2 DEF Segments, Copied
<1>4. \A g \in Segments : DOMAIN g.ents = {}
  BY <1>1, <1>3 DEF OfLog
<1> QED BY <1>4 DEF MatchInv, Known, Led, Agree

LEMMA MatchImplies ==
  ASSUME TypeInv, PlainInv, MatchInv
  PROVE  LogMatching
<1> SUFFICES ASSUME NEW m \in Node, NEW n \in Node,
                    NEW k \in DOMAIN node[m].log \cap DOMAIN node[n].log,
                    node[m].log[k].term = node[n].log[k].term,
                    NEW j \in DOMAIN node[m].log, j <= k
             PROVE  j \in DOMAIN node[n].log /\ node[m].log[j] = node[n].log[j]
  BY DEF LogMatching
<1> DEFINE f == OfLog(node[m])
           g == OfLog(node[n])
<1>1. f \in Segments /\ g \in Segments
  BY DEF Segments
<1>2. /\ f \in Segment /\ g \in Segment /\ Solid(g) /\ Agree(f, g) /\ g.prev = 0
      /\ f.ents = node[m].log /\ g.ents = node[n].log
  BY <1>1, SegmentsType DEF PlainInv, MatchInv, OfLog
<1> HIDE DEF f, g
<1>3. j \in Nat \ {0} /\ k \in Nat
  BY <1>2, SegmentFacts
<1>4. j \in DOMAIN g.ents
  BY <1>2, <1>3 DEF Solid
<1>5. \A i \in DOMAIN f.ents \cap DOMAIN g.ents : i <= k => f.ents[i] = g.ents[i]
  BY <1>2 DEF Agree
<1> QED BY <1>2, <1>4, <1>5

\* Along every behaviour in which no two nodes lead one term and nothing is
\* compacted, whatever the members, the workload, the losses and the restarts:
\* two logs with an entry of one term at one index are equal up to there.
THEOREM LogsMatch == Spec /\ []ElectionSafety /\ []NoCompaction => []LogMatching
<1>1. Init => SealInv /\ PlainInv /\ MatchInv
  BY SealInit, PlainInit, MatchInit
<1>2. TypeInv /\ CommittedIsApplied /\ NoCompaction /\ NoCompaction' /\ ElectionSafety'
        /\ (SealInv /\ PlainInv /\ MatchInv) /\ [Next]_vars
          => (SealInv /\ PlainInv /\ MatchInv)'
  BY SealNext, PlainNext, MatchNext
<1>3. TypeInv /\ (SealInv /\ PlainInv /\ MatchInv) => LogMatching
  BY MatchImplies
<1> QED BY <1>1, <1>2, <1>3, TypeInvariant, AllApplied, PTL DEF Spec

\* With fixed members nothing else is assumed than that logs are not compacted.
THEOREM FixedLogsMatch ==
  ASSUME StaticCluster
  PROVE  Spec /\ []NoCompaction => []LogMatching
<1>1. Spec => []ElectionSafety
  BY SafeElections
<1> QED BY <1>1, LogsMatch, PTL

(***************************************************************************)
(* No index is skipped.                                                    *)
(***************************************************************************)
Whole(q) == \A k \in 1 .. Len(q) : q[k] # Skipped

SkipInv == \A n \in Node : Whole(node[n].sm) /\ Whole(node[n].snap.data)

LEMMA WholeConcat ==
  ASSUME NEW q \in History, NEW r \in History, Whole(q), Whole(r)
  PROVE  Whole(q \o r)
<1>1. /\ Len(q \o r) = Len(q) + Len(r) /\ Len(q) \in Nat /\ Len(r) \in Nat
      /\ \A k \in 1 .. Len(q) + Len(r) :
           (q \o r)[k] = IF k <= Len(q) THEN q[k] ELSE r[k - Len(q)]
  BY ConcatProperties, LenProperties DEF History
<1>2. SUFFICES ASSUME NEW k \in 1 .. Len(q) + Len(r) PROVE (q \o r)[k] # Skipped
  BY <1>1 DEF Whole
<1>3. CASE k <= Len(q)
  BY <1>1, <1>3 DEF Whole
<1>4. CASE ~ (k <= Len(q))
  <2>1. k - Len(q) \in 1 .. Len(r) /\ (q \o r)[k] = r[k - Len(q)]
    BY <1>1, <1>4
  <2> QED BY <2>1 DEF Whole
<1> QED BY <1>3, <1>4

\* What is applied up to the end of a log without gaps are its entries.
LEMMA AppliedWhole ==
  ASSUME NEW t \in NodeState, t.snap.index = 0, Solid(OfLog(t)),
         NEW i \in Nat \ {0}, NEW k \in Nat, k >= i, k <= LogLastIndex(t)
  PROVE  Whole(Applied(t, i, k))
<1> DEFINE a == Applied(t, i, k)
<1>1. a = [x \in 1 .. k - i + 1 |->
             IF i + x - 1 \in DOMAIN t.log THEN t.log[i + x - 1].data ELSE Skipped]
  BY DEF Applied
<1>2. LogLastIndex(t) \in DOMAIN t.log /\ LogLastIndex(t) \in Nat
  BY PlainLog, LogLastIndexType
<1>3. 1 .. LogLastIndex(t) \subseteq DOMAIN t.log
  BY <1>2 DEF Solid, OfLog
<1>4. k - i + 1 \in Nat
  OBVIOUS
<1> HIDE DEF a
<1>5. Len(a) = k - i + 1
  BY <1>1, <1>4
<1>6. t.log \in Log
  BY DEF NodeState
<1>7. SUFFICES ASSUME NEW x \in 1 .. k - i + 1 PROVE a[x] # Skipped
  BY <1>5 DEF Whole, a
<1>8. i + x - 1 \in DOMAIN t.log
  BY <1>2, <1>3
<1>9. a[x] = t.log[i + x - 1].data
  BY <1>1, <1>8
<1>10. t.log[i + x - 1].data \in Data
  BY <1>6, <1>8, LogEntryType
<1>11. Skipped \notin Data
  BY SkippedAssumption DEF Data, Skipped
<1> QED BY <1>9, <1>10, <1>11

LEMMA SkipNext ==
  ASSUME TypeInv, NoCompaction, NoCompaction', CommittedIsApplied, PlainInv, SkipInv,
         [Next]_vars
  PROVE  SkipInv'
<1>1. CASE node' = node /\ inbox' = inbox
  BY <1>1 DEF SkipInv
<1>2. CASE \E n \in Node, t \in NodeState : node' = [node EXCEPT ![n] = t] /\ Move(n, t)
  <2>1. PICK n \in Node, t \in NodeState : node' = [node EXCEPT ![n] = t] /\ Move(n, t)
    BY <1>2
  <2> DEFINE s == node[n]
  <2>2. /\ s \in NodeState /\ node'[n] = t /\ \A j \in Node : j # n => node'[j] = node[j]
        /\ t.snap.index = 0
    BY <2>1 DEF TypeInv, NoCompaction
  <2>3. StateGrows(s, t) /\ Solid(OfLog(t))
    BY <2>1, <2>2, PlainMove
  <2>4. Whole(s.sm) /\ Whole(s.snap.data)
    BY DEF SkipInv
  <2> HIDE DEF s
  <2>5. s.sm \in History /\ s.lastApplied \in Nat
    BY <2>2 DEF NodeState
  <2>6. Whole(t.snap.data)
    BY <2>3, <2>4 DEF StateGrows
  <2>7. ASSUME NEW k \in Nat, k > s.lastApplied, k <= LogLastIndex(t),
               t.sm = s.sm \o Applied(t, s.lastApplied + 1, k)
        PROVE  Whole(t.sm)
    <3>1. s.lastApplied + 1 \in Nat \ {0} /\ k >= s.lastApplied + 1
      BY <2>5, <2>7
    <3>2. Whole(Applied(t, s.lastApplied + 1, k))
      BY <2>2, <2>3, <2>7, <3>1, AppliedWhole
    <3>3. Applied(t, s.lastApplied + 1, k) \in History
      BY <3>1, AppliedType
    <3> QED BY <2>4, <2>5, <2>7, <3>2, <3>3, WholeConcat
  <2>8. Whole(t.sm)
    BY <2>3, <2>4, <2>7 DEF StateGrows
  <2>9. SUFFICES ASSUME NEW j \in Node
                 PROVE  Whole(node'[j].sm) /\ Whole(node'[j].snap.data)
    BY DEF SkipInv
  <2> QED BY <2>2, <2>6, <2>8 DEF SkipInv
<1> QED BY <1>1, <1>2, Moves

\* Along every behaviour in which nothing is compacted, whatever the members,
\* the workload, the losses and the restarts: raft-apply-committed! finds an
\* entry at every index it comes to.
THEOREM NothingSkips == Spec /\ []NoCompaction => []NothingSkipped
<1>1. Init => PlainInv /\ SkipInv
  <2>1. Init => SkipInv
    BY DEF Init, NewState, NoSnapshot, SkipInv, Whole
  <2> QED BY <2>1, PlainInit
<1>2. TypeInv /\ CommittedIsApplied /\ NoCompaction /\ NoCompaction'
        /\ (PlainInv /\ SkipInv) /\ [Next]_vars => (PlainInv /\ SkipInv)'
  BY PlainNext, SkipNext
<1>3. SkipInv => NothingSkipped
  BY DEF SkipInv, NothingSkipped, Whole
<1> QED BY <1>1, <1>2, <1>3, TypeInvariant, AllApplied, PTL DEF Spec

=============================================================================
