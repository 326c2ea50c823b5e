------------------------- MODULE RaftElectionProofs -------------------------
(***************************************************************************)
(* Types, votes and elections of Raft.                                     *)
(*                                                                         *)
(* The first part proves type correctness, for every cluster, every        *)
(* workload and every bound.  One lemma per operator of the model says     *)
(* that it maps node states to node states; the lemmas of the operators    *)
(* that do not touch elections say that too (Core), for the second part.   *)
(*                                                                         *)
(* The second part proves OneVotePerTerm for every cluster, and            *)
(* ElectionSafety for a cluster whose membership is fixed and known to all *)
(* (with membership changes it is an open question: see the README).  The  *)
(* argument: what a node has on record for a term never changes; a vote    *)
(* counted by a candidate, or on its way to one, is on record with the     *)
(* voter; so two leaders of a term have majorities of votes on record, and *)
(* the voter in both majorities voted once.                                *)
(***************************************************************************)
EXTENDS Raft, FiniteSetTheorems, SequenceTheorems, WellFoundedInduction, TLAPS

(***************************************************************************)
(* The types as sets.                                                      *)
(***************************************************************************)
FiniteIndexSet == {D \in SUBSET Index : IsFiniteSet(D)}
Log == UNION {[D -> Entry] : D \in FiniteIndexSet}
Pending == UNION {[D -> Request] : D \in SUBSET Index}
History == Seq(Data \cup {Skipped})
Snapshot == [index : Nat, term : Nat, data : History]
NodeOrNone == Node \cup {None}

RequestVoteMsg == [type : {"request-vote"}, term : Nat, from : Node,
                   lastIndex : Nat, lastTerm : Nat]
RequestVoteResponseMsg == [type : {"request-vote-response"}, term : Nat,
                           granted : BOOLEAN, from : Node]
PreVoteMsg == [type : {"pre-vote"}, term : Nat, from : Node,
               lastIndex : Nat, lastTerm : Nat, epoch : Nat]
PreVoteResponseMsg == [type : {"pre-vote-response"}, term : Nat,
                       granted : BOOLEAN, from : Node, epoch : Nat]
AppendEntriesMsg == [type : {"append-entries"}, term : Nat, from : Node,
                     prevIndex : Nat, prevTerm : Nat \cup {NoTerm},
                     entries : Log, commit : Nat]
AppendEntriesResponseMsg == [type : {"append-entries-response"}, term : Nat,
                             success : BOOLEAN, match : Nat, from : Node]
InstallSnapshotMsg == [type : {"install-snapshot"}, term : Nat, from : Node,
                       lastIndex : Nat, lastTerm : Nat, data : History]
InstallSnapshotResponseMsg == [type : {"install-snapshot-response"}, term : Nat,
                               lastIndex : Nat, from : Node]

\* Messages other than votes.  A node's out field holds only these until
\* HandleRequestVote, which ends with its vote, adds one.
PlainMsg == RequestVoteMsg \cup PreVoteMsg \cup PreVoteResponseMsg
              \cup AppendEntriesMsg \cup AppendEntriesResponseMsg
              \cup InstallSnapshotMsg \cup InstallSnapshotResponseMsg
Message == PlainMsg \cup RequestVoteResponseMsg

Outbox == [Node -> Seq(PlainMsg)]
Progress == [Node -> Nat]
Replies == [Request -> Seq(Outcome)]

NodeState ==
  [id : Node, running : BOOLEAN, peers : SUBSET Node, learners : SUBSET Node,
   role : Role, currentTerm : Nat, votedFor : NodeOrNone, leaderId : NodeOrNone,
   commitIndex : Nat, lastApplied : Nat, lastSnapshotIndex : Nat,
   nextIndex : Progress, matchIndex : Progress,
   votes : SUBSET Node, prevotes : SUBSET Node, electionEpoch : Nat, ticker : BOOLEAN,
   pending : Pending, log : Log, snap : Snapshot, sm : History,
   out : Outbox, replies : Replies, ballots : SUBSET Ballot, elected : SUBSET Nat]

\* What elections depend on.
Core(s) == <<s.id, s.peers, s.learners, s.role, s.currentTerm, s.votedFor,
             s.votes, s.ballots, s.elected>>
VoteCore(s) == <<s.id, s.role, s.currentTerm, s.votedFor, s.votes, s.ballots, s.elected>>

(***************************************************************************)
(* Sets of numbers and logs.                                               *)
(***************************************************************************)

\* A finite set of integers that has a member has a largest one, and Max
\* picks it.  By minimality: a smallest subset without a largest member would
\* lose that defect with any of its members.
LEMMA MaxIsMember ==
  ASSUME NEW S \in SUBSET Int, IsFiniteSet(S), S # {}
  PROVE  Max(S) \in S /\ \A y \in S : Max(S) >= y
<1> DEFINE HasMax(A) == \E x \in A : \A y \in A : x >= y
           Bad == {A \in SUBSET S : A # {} /\ ~ HasMax(A)}
<1>1. Bad = {}
  <2> SUFFICES ASSUME Bad # {} PROVE FALSE
    OBVIOUS
  <2>1. IsWellFoundedOn(StrictSubsetOrdering(S), SUBSET S)
    BY FS_StrictSubsetOrderingWellFounded, FS_FiniteSubsetsOfFinite
  <2>2. PICK A \in Bad : \A B \in Bad : <<B, A>> \notin StrictSubsetOrdering(S)
    BY <2>1, WFMin
  <2>3. PICK x \in A : TRUE
    OBVIOUS
  <2>4. A \ {x} \notin Bad
    BY <2>2 DEF StrictSubsetOrdering
  <2>5. CASE A \ {x} = {}
    BY <2>5
  <2>6. CASE A \ {x} # {}
    <3>1. PICK z \in A \ {x} : \A y \in A \ {x} : z >= y
      BY <2>4, <2>6
    <3>2. x \in Int /\ z \in Int
      OBVIOUS
    <3>3. A \subseteq Int
      OBVIOUS
    <3>4. CASE x >= z
      <4>1. \A y \in A : x >= y
        BY <3>1, <3>2, <3>3, <3>4
      <4> QED BY <4>1
    <3>5. CASE z >= x
      <4>1. \A y \in A : z >= y
        BY <3>1, <3>2, <3>3, <3>5
      <4> QED BY <4>1
    <3> QED BY <3>2, <3>4, <3>5
  <2> QED BY <2>5, <2>6
<1>2. HasMax(S)
  BY <1>1
<1> QED BY <1>2 DEF Max

\* raft-log-last-index is a natural number; unless the table is empty, the
\* index of an entry.
LEMMA LogLastIndexType ==
  ASSUME NEW s \in NodeState
  PROVE  /\ LogLastIndex(s) \in Nat
         /\ DOMAIN s.log # {} => LogLastIndex(s) \in DOMAIN s.log
<1>1. s.log \in Log /\ s.snap \in Snapshot
  BY DEF NodeState
<1>2. DOMAIN s.log \in SUBSET Index /\ IsFiniteSet(DOMAIN s.log)
  BY <1>1 DEF Log, FiniteIndexSet
<1>3. DOMAIN s.log \in SUBSET Int
  BY <1>2 DEF Index
<1>4. DOMAIN s.log # {} => Max(DOMAIN s.log) \in DOMAIN s.log
  BY <1>2, <1>3, MaxIsMember
<1>5. s.snap.index \in Nat
  BY <1>1 DEF Snapshot
<1> QED BY <1>2, <1>4, <1>5 DEF LogLastIndex, Index

\* The entries of a log have terms.
LEMMA LogEntryType ==
  ASSUME NEW log \in Log, NEW k \in DOMAIN log
  PROVE  log[k] \in Entry /\ log[k].term \in Nat /\ log[k].data \in Data
<1>1. log[k] \in Entry
  BY DEF Log
<1> QED BY <1>1 DEF Entry, Data

LEMMA LogTermAtType ==
  ASSUME NEW s \in NodeState, NEW k
  PROVE  LogTermAt(s, k) \in Nat \cup {NoTerm}
<1>1. s.log \in Log /\ s.snap.term \in Nat
  BY DEF NodeState, Snapshot
<1> QED BY <1>1, LogEntryType DEF LogTermAt

LEMMA LogLastTermType ==
  ASSUME NEW s \in NodeState
  PROVE  LogLastTerm(s) \in Nat
<1>1. s.log \in Log /\ s.snap.term \in Nat /\ s.snap.index \in Nat
  BY DEF NodeState, Snapshot
<1>2. CASE DOMAIN s.log = {}
  BY <1>1, <1>2 DEF LogLastTerm, LogLastIndex, LogTermAt
<1>3. CASE DOMAIN s.log # {}
  BY <1>1, <1>3, LogLastIndexType, LogEntryType DEF LogLastTerm, LogTermAt
<1> QED BY <1>2, <1>3

LEMMA RestrictLogType ==
  ASSUME NEW log \in Log, NEW D \in SUBSET DOMAIN log
  PROVE  Restrict(log, D) \in Log
<1>1. PICK E \in FiniteIndexSet : log \in [E -> Entry]
  BY DEF Log
<1>2. D \in FiniteIndexSet
  BY <1>1, FS_Subset DEF FiniteIndexSet
<1>3. Restrict(log, D) \in [D -> Entry]
  BY <1>1 DEF Restrict
<1> QED BY <1>2, <1>3 DEF Log

LEMMA LogAppendAllType ==
  ASSUME NEW log \in Log, NEW es \in Log
  PROVE  LogAppendAll(log, es) \in Log
<1> DEFINE clash == {k \in DOMAIN es \cap DOMAIN log : es[k].term # log[k].term}
           kept == {k \in DOMAIN log : \A c \in clash : k < c}
<1>1. PICK D \in FiniteIndexSet : log \in [D -> Entry]
  BY DEF Log
<1>2. PICK E \in FiniteIndexSet : es \in [E -> Entry]
  BY DEF Log
<1>3. kept \in SUBSET D
  BY <1>1
<1>4. IsFiniteSet(kept) /\ IsFiniteSet(E)
  BY <1>3, FS_Subset DEF FiniteIndexSet
<1>5. IsFiniteSet(kept \cup E)
  BY <1>4, FS_Union
<1>6. kept \cup E \in FiniteIndexSet
  BY <1>3, <1>5 DEF FiniteIndexSet
<1>7. LogAppendAll(log, es) \in [kept \cup E -> Entry]
  BY <1>1, <1>2, <1>3 DEF LogAppendAll
<1> QED BY <1>6, <1>7 DEF Log

LEMMA EmptyLogType == EmptyLog \in Log /\ EmptyLog \in Pending
<1>1. {} \in FiniteIndexSet
  BY FS_EmptySet DEF FiniteIndexSet
<1>2. EmptyLog \in [{} -> Entry] /\ EmptyLog \in [{} -> Request]
  BY DEF EmptyLog
<1> QED BY <1>1, <1>2 DEF Log, Pending

(***************************************************************************)
(* The durable store.                                                      *)
(***************************************************************************)
LEMMA LogSaveMetadataType ==
  ASSUME NEW s \in NodeState, NEW t \in Nat, NEW v \in NodeOrNone
  PROVE  LogSaveMetadata(s, t, v) \in NodeState
<1> DEFINE b == IF v = None THEN s.ballots ELSE s.ballots \cup {<<t, v>>}
<1>1. v # None => <<t, v>> \in Ballot
  BY DEF Ballot, NodeOrNone
<1>2. s.ballots \subseteq Ballot
  BY DEF NodeState
<1>3. b \in SUBSET Ballot
  BY <1>1, <1>2
<1>4. LogSaveMetadata(s, t, v)
        = [s EXCEPT !.currentTerm = t, !.votedFor = v, !.ballots = b]
  BY DEF LogSaveMetadata, NodeState
<1> HIDE DEF b
<1> QED BY ZenonT(60), <1>3, <1>4 DEF NodeState

LEMMA LogSaveSnapshotType ==
  ASSUME NEW s \in NodeState, NEW k \in Nat, NEW t \in Nat \cup {NoTerm},
         NEW d \in History
  PROVE  /\ LogSaveSnapshot(s, k, t, d) \in NodeState
         /\ Core(LogSaveSnapshot(s, k, t, d)) = Core(s)
         /\ LogSaveSnapshot(s, k, t, d).out = s.out
<1> DEFINE snap == [index |-> k, term |-> IF t = NoTerm THEN 0 ELSE t, data |-> d]
           log == Restrict(s.log, {j \in DOMAIN s.log : j > k})
<1>1. snap \in Snapshot
  BY DEF Snapshot
<1>2. s.log \in Log
  BY DEF NodeState
<1>3. log \in Log
  BY <1>2, RestrictLogType
<1>4. LogSaveSnapshot(s, k, t, d) = [s EXCEPT !.snap = snap, !.log = log]
  BY DEF LogSaveSnapshot, NodeState
<1> HIDE DEF snap, log
<1> QED BY ZenonT(60), <1>1, <1>3, <1>4 DEF NodeState, Core

(***************************************************************************)
(* Sending.                                                                *)
(***************************************************************************)
LEMMA SendType ==
  ASSUME NEW s \in NodeState, NEW to \in Node, NEW m \in PlainMsg
  PROVE  Send(s, to, m) \in NodeState /\ Core(Send(s, to, m)) = Core(s)
<1> DEFINE o == [s.out EXCEPT ![to] = Append(@, m)]
<1>1. s.out \in Outbox
  BY DEF NodeState
<1>2. Append(s.out[to], m) \in Seq(PlainMsg)
  BY <1>1, AppendProperties DEF Outbox
<1>3. o \in Outbox
  BY <1>1, <1>2 DEF Outbox
<1>4. Send(s, to, m) = [s EXCEPT !.out = o]
  BY DEF Send, NodeState
<1> HIDE DEF o
<1> QED BY <1>3, <1>4 DEF NodeState, Core

LEMMA SendToPeersType ==
  ASSUME NEW s \in NodeState, NEW m \in PlainMsg
  PROVE  SendToPeers(s, m) \in NodeState /\ Core(SendToPeers(s, m)) = Core(s)
<1> DEFINE o == [p \in Node |-> IF p \in s.peers THEN Append(s.out[p], m) ELSE s.out[p]]
<1>1. s.out \in Outbox
  BY DEF NodeState
<1>2. \A p \in Node : Append(s.out[p], m) \in Seq(PlainMsg)
  BY <1>1, AppendProperties DEF Outbox
<1>3. o \in Outbox
  BY <1>1, <1>2 DEF Outbox
<1>4. SendToPeers(s, m) = [s EXCEPT !.out = o]
  BY DEF SendToPeers, NodeState
<1> HIDE DEF o
<1> QED BY <1>3, <1>4 DEF NodeState, Core

LEMMA AppendEntriesMessageType ==
  ASSUME NEW s \in NodeState, NEW p \in Node
  PROVE  AppendEntriesMessage(s, p) \in PlainMsg
<1>1. /\ s.currentTerm \in Nat /\ s.id \in Node /\ s.commitIndex \in Nat
      /\ s.nextIndex[p] \in Nat /\ s.snap \in Snapshot /\ s.sm \in History /\ s.log \in Log
  BY DEF NodeState, Progress
<1>2. s.snap.index \in Nat /\ s.snap.term \in Nat
  BY <1>1 DEF Snapshot
<1>3. CASE s.nextIndex[p] <= s.snap.index
  <2>1. AppendEntriesMessage(s, p) \in InstallSnapshotMsg
    BY <1>1, <1>2, <1>3 DEF AppendEntriesMessage, InstallSnapshotMsg
  <2> QED BY <2>1 DEF PlainMsg
<1>4. CASE ~ (s.nextIndex[p] <= s.snap.index)
  <2> DEFINE es == LogSlice(s, s.nextIndex[p], LogLastIndex(s))
             pt == LogTermAt(s, s.nextIndex[p] - 1)
  <2>1. es \in Log
    BY <1>1, RestrictLogType DEF LogSlice
  <2>2. s.nextIndex[p] - 1 \in Nat
    BY <1>1, <1>2, <1>4
  <2>3. pt \in Nat \cup {NoTerm}
    BY LogTermAtType
  <2>4. AppendEntriesMessage(s, p)
          = [type |-> "append-entries", term |-> s.currentTerm, from |-> s.id,
             prevIndex |-> s.nextIndex[p] - 1, prevTerm |-> pt,
             entries |-> es, commit |-> s.commitIndex]
    BY <1>4 DEF AppendEntriesMessage
  <2> HIDE DEF es, pt
  <2>5. AppendEntriesMessage(s, p) \in AppendEntriesMsg
    BY <1>1, <2>1, <2>2, <2>3, <2>4 DEF AppendEntriesMsg
  <2> QED BY <2>5 DEF PlainMsg
<1> QED BY <1>3, <1>4

LEMMA ReplicateToPeersType ==
  ASSUME NEW s \in NodeState
  PROVE  ReplicateToPeers(s) \in NodeState /\ Core(ReplicateToPeers(s)) = Core(s)
<1> DEFINE Copies(p, L) == IF p \in L THEN <<AppendEntriesMessage(s, p)>> ELSE <<>>
           o == [p \in Node |-> s.out[p] \o Copies(p, s.peers) \o Copies(p, s.learners)]
<1>1. s.out \in Outbox
  BY DEF NodeState
<1>2. \A p \in Node, L \in SUBSET Node : Copies(p, L) \in Seq(PlainMsg)
  BY AppendEntriesMessageType
<1>3. s.peers \in SUBSET Node /\ s.learners \in SUBSET Node
  BY DEF NodeState
<1> HIDE DEF Copies
<1>4. \A p \in Node : s.out[p] \o Copies(p, s.peers) \o Copies(p, s.learners) \in Seq(PlainMsg)
  <2> TAKE p \in Node
  <2>1. s.out[p] \in Seq(PlainMsg)
    BY <1>1 DEF Outbox
  <2>2. s.out[p] \o Copies(p, s.peers) \in Seq(PlainMsg)
    BY <1>2, <1>3, <2>1, ConcatProperties
  <2> QED BY <1>2, <1>3, <2>2, ConcatProperties
<1>5. o \in Outbox
  BY <1>4 DEF Outbox
<1>6. ReplicateToPeers(s) = [s EXCEPT !.out = o]
  BY DEF ReplicateToPeers, NodeState, Copies
<1> HIDE DEF o
<1> QED BY <1>5, <1>6 DEF NodeState, Core

(***************************************************************************)
(* Committing and applying.                                                *)
(***************************************************************************)
LEMMA RecomputeCommitIndexType ==
  ASSUME NEW s \in NodeState
  PROVE  RecomputeCommitIndex(s) \in NodeState /\ Core(RecomputeCommitIndex(s)) = Core(s)
<1> DEFINE peerMatches == {s.matchIndex[p] : p \in s.peers}
           matches == {LogLastIndex(s)} \cup peerMatches
           Count(n) == Cardinality({p \in s.peers : s.matchIndex[p] >= n})
                         + (IF LogLastIndex(s) >= n THEN 1 ELSE 0)
           eligible == {n \in matches : /\ n > s.commitIndex
                                        /\ HasMajority(Count(n), TotalVoters(s))
                                        /\ LogTermAt(s, n) = s.currentTerm}
           f == [p \in s.peers |-> s.matchIndex[p]]
<1>1. s.peers \in SUBSET Node /\ s.matchIndex \in [Node -> Nat]
  BY DEF NodeState, Progress
<1>2. IsFiniteSet(s.peers)
  BY <1>1, FS_Subset, NodeAssumption
<1>3. f \in Surjection(s.peers, peerMatches)
  BY <1>1 DEF Surjection
<1>4. IsFiniteSet(peerMatches)
  BY <1>2, <1>3, FS_Surjection
<1>5. IsFiniteSet(matches)
  BY <1>4, FS_AddElement
<1>6. matches \in SUBSET Nat
  BY <1>1, LogLastIndexType
<1>7. eligible \in SUBSET matches
  OBVIOUS
<1>8. RecomputeCommitIndex(s)
        = IF eligible = {} THEN s ELSE [s EXCEPT !.commitIndex = Max(eligible)]
  BY DEF RecomputeCommitIndex
<1> HIDE DEF eligible, matches
<1>9. IsFiniteSet(eligible)
  BY <1>5, <1>7, FS_Subset
<1>10. eligible \in SUBSET Nat /\ eligible \in SUBSET Int
  BY <1>6, <1>7
<1>11. eligible # {} => Max(eligible) \in eligible
  BY <1>9, <1>10, MaxIsMember
<1> QED BY <1>8, <1>10, <1>11 DEF NodeState, Core

LEMMA AppliedType ==
  ASSUME NEW s \in NodeState, NEW from \in Nat, NEW to \in Nat
  PROVE  Applied(s, from, to) \in History
<1>1. s.log \in Log
  BY DEF NodeState
<1>2. \A e : (IF e \in DOMAIN s.log THEN s.log[e].data ELSE Skipped) \in Data \cup {Skipped}
  BY <1>1, LogEntryType
<1>3. CASE to - from + 1 \in Nat
  <2>1. Applied(s, from, to) \in [1 .. to - from + 1 -> Data \cup {Skipped}]
    BY <1>2 DEF Applied
  <2> QED BY <1>3, <2>1, SeqDef DEF History
<1>4. CASE to - from + 1 \notin Nat
  <2>1. 1 .. to - from + 1 = 1 .. 0
    BY <1>4
  <2>2. Applied(s, from, to) \in [1 .. 0 -> Data \cup {Skipped}]
    BY <1>2, <2>1 DEF Applied
  <2> QED BY <2>2, SeqDef DEF History
<1> QED BY <1>3, <1>4

LEMMA ApplyConfigChangesType ==
  ASSUME NEW s \in NodeState, NEW from, NEW to
  PROVE  /\ ApplyConfigChanges(s, from, to) \in NodeState
         /\ VoteCore(ApplyConfigChanges(s, from, to)) = VoteCore(s)
         /\ Change = {} => Core(ApplyConfigChanges(s, from, to)) = Core(s)
         /\ ApplyConfigChanges(s, from, to).sm = s.sm
         /\ ApplyConfigChanges(s, from, to).pending = s.pending
         /\ ApplyConfigChanges(s, from, to).replies = s.replies
<1> DEFINE Seats(p)  == Changes(s, from, to, Action \ {"add-learner"}, p)
           All(p)    == Changes(s, from, to, Action, p)
           Joins(p)  == Changes(s, from, to, Action \ {"remove-peer"}, p)
           LastAct(K) == ActionOf[s.log[Max(K)].data]
           ps == {p \in Node : IF Seats(p) = {} THEN p \in s.peers
                               ELSE LastAct(Seats(p)) # "remove-peer"}
           ls == {p \in Node : IF All(p) = {} THEN p \in s.learners
                               ELSE LastAct(All(p)) = "add-learner"}
           next == [p \in Node |-> IF s.role = "leader" /\ Joins(p) # {} /\ s.nextIndex[p] = 0
                                   THEN LogLastIndex(s) + 1 ELSE s.nextIndex[p]]
<1>1. ps \in SUBSET Node /\ ls \in SUBSET Node
  OBVIOUS
<1>2. next \in Progress
  BY LogLastIndexType DEF NodeState, Progress
<1>3. ApplyConfigChanges(s, from, to)
        = [s EXCEPT !.peers = ps, !.learners = ls, !.nextIndex = next]
  BY DEF ApplyConfigChanges, NodeState
<1>4. ASSUME Change = {} PROVE ps = s.peers /\ ls = s.learners
  <2>1. s.log \in Log
    BY DEF NodeState
  <2>2. \A k \in DOMAIN s.log : s.log[k].type # "config"
    BY <1>4, <2>1, LogEntryType DEF Entry
  <2>3. \A p : Seats(p) = {} /\ All(p) = {}
    BY <2>2 DEF Changes
  <2>4. s.peers \subseteq Node /\ s.learners \subseteq Node
    BY DEF NodeState
  <2> QED BY <2>3, <2>4
<1> HIDE DEF ps, ls, next
<1>5. /\ ApplyConfigChanges(s, from, to) \in NodeState
      /\ VoteCore(ApplyConfigChanges(s, from, to)) = VoteCore(s)
  BY ZenonT(60), <1>1, <1>2, <1>3 DEF NodeState, VoteCore
<1>6. Change = {} => Core(ApplyConfigChanges(s, from, to)) = Core(s)
  BY <1>3, <1>4 DEF NodeState, Core
<1> QED BY <1>3, <1>5, <1>6 DEF NodeState

LEMMA AutoSnapshotPointType ==
  ASSUME NEW s \in NodeState, NEW from \in Nat, NEW to \in Nat
  PROVE  AutoSnapshotPoint(s, from, to) \in Nat
<1> DEFINE first == Larger(from, s.lastSnapshotIndex + Threshold)
           points == {k \in first .. to : (k - first) % Threshold = 0}
<1>1. first \in Nat
  BY ThresholdAssumption DEF Larger, NodeState
<1>2. points \in SUBSET (first .. to)
  OBVIOUS
<1>3. AutoSnapshotPoint(s, from, to) = Max({0} \cup points)
  BY DEF AutoSnapshotPoint
<1> HIDE DEF first, points
<1>4. IsFiniteSet(first .. to)
  BY <1>1, FS_Interval
<1>5. IsFiniteSet(points)
  BY <1>2, <1>4, FS_Subset
<1>6. IsFiniteSet(points \cup {0})
  BY <1>5, FS_AddElement
<1>7. points \cup {0} \in SUBSET Nat
  BY <1>1, <1>2
<1>8. Max(points \cup {0}) \in points \cup {0}
  BY <1>6, <1>7, MaxIsMember
<1>9. {0} \cup points = points \cup {0}
  OBVIOUS
<1> QED BY <1>3, <1>7, <1>8, <1>9

LEMMA RestrictPendingType ==
  ASSUME NEW f \in Pending, NEW D \in SUBSET DOMAIN f
  PROVE  Restrict(f, D) \in Pending
<1>1. PICK E \in SUBSET Index : f \in [E -> Request]
  BY DEF Pending
<1>2. Restrict(f, D) \in [D -> Request]
  BY <1>1 DEF Restrict
<1>3. D \in SUBSET Index
  BY <1>1
<1> QED BY <1>2, <1>3 DEF Pending

\* Applying leaves votes alone, and elections too as long as no membership
\* change can be in the log.
LEMMA ApplyCommittedType ==
  ASSUME NEW s \in NodeState
  PROVE  /\ ApplyCommitted(s) \in NodeState
         /\ VoteCore(ApplyCommitted(s)) = VoteCore(s)
         /\ Change = {} => Core(ApplyCommitted(s)) = Core(s)
<1> DEFINE from == s.lastApplied + 1
           to   == s.commitIndex
           done == DOMAIN s.log \cap DOMAIN s.pending \cap (from .. to)
           p    == AutoSnapshotPoint(s, from, to)
           c    == ApplyConfigChanges(s, from, to)
           sm   == s.sm \o Applied(s, from, to)
           pend == Restrict(s.pending, DOMAIN s.pending \ done)
           reps == [r \in Request |->
                      IF \E k \in done : s.pending[k] = r
                      THEN Append(s.replies[r], "ok") ELSE s.replies[r]]
           a    == [c EXCEPT !.sm = sm, !.lastApplied = to,
                             !.pending = pend, !.replies = reps]
           b    == LogSaveSnapshot(a, p, LogTermAt(s, p), s.sm \o Applied(s, from, p))
<1>1. from \in Nat /\ to \in Nat
  BY DEF NodeState
<1>2. p \in Nat
  BY <1>1, AutoSnapshotPointType
<1>3. c \in NodeState /\ VoteCore(c) = VoteCore(s) /\ (Change = {} => Core(c) = Core(s))
  BY ApplyConfigChangesType
<1>4. s.sm \in History /\ s.pending \in Pending /\ s.replies \in Replies
  BY DEF NodeState
<1>5. \A q \in Nat : s.sm \o Applied(s, from, q) \in History
  <2> TAKE q \in Nat
  <2>1. Applied(s, from, q) \in History
    BY <1>1, AppliedType
  <2> QED BY <1>4, <2>1, ConcatProperties DEF History
<1>6. pend \in Pending
  BY <1>4, RestrictPendingType
<1>7. reps \in Replies
  <2>1. \A r \in Request : s.replies[r] \in Seq(Outcome)
    BY <1>4 DEF Replies
  <2>2. "ok" \in Outcome
    BY DEF Outcome
  <2>3. \A r \in Request : Append(s.replies[r], "ok") \in Seq(Outcome)
    BY <2>1, <2>2, AppendProperties
  <2> QED BY <2>1, <2>3 DEF Replies
<1>8. a = [c EXCEPT !.sm = sm, !.lastApplied = to, !.pending = pend, !.replies = reps]
  OBVIOUS
<1>9. sm \in History
  BY <1>1, <1>5
<1>10. ApplyCommitted(s)
         = CASE to < from -> s
             [] to >= from /\ p = 0 -> a
             [] OTHER -> [b EXCEPT !.lastSnapshotIndex = p]
  <2>1. c.sm = s.sm /\ c.pending = s.pending /\ c.replies = s.replies
    BY ApplyConfigChangesType
  <2>2. a = [c EXCEPT !.sm = @ \o Applied(s, from, to), !.lastApplied = to,
                      !.pending = Restrict(@, DOMAIN @ \ done),
                      !.replies = [r \in Request |->
                         IF \E k \in done : s.pending[k] = r THEN Append(@[r], "ok") ELSE @[r]]]
    BY <1>3, <2>1 DEF NodeState
  <2> QED BY <2>2 DEF ApplyCommitted
<1> HIDE DEF c, sm, pend, reps, p, to, from, done
<1>11. a \in NodeState /\ Core(a) = Core(c)
  BY <1>1, <1>3, <1>6, <1>7, <1>9 DEF NodeState, Core
<1>12. LogTermAt(s, p) \in Nat \cup {NoTerm}
  BY LogTermAtType
<1>13. s.sm \o Applied(s, from, p) \in History
  BY <1>2, <1>5
<1> HIDE DEF a
<1>14. b \in NodeState /\ Core(b) = Core(a)
  BY <1>2, <1>11, <1>12, <1>13, LogSaveSnapshotType
<1> HIDE DEF b
<1>15. /\ [b EXCEPT !.lastSnapshotIndex = p] \in NodeState
       /\ Core([b EXCEPT !.lastSnapshotIndex = p]) = Core(b)
  BY <1>2, <1>14 DEF NodeState, Core
<1>16. \A x, y \in NodeState : Core(x) = Core(y) => VoteCore(x) = VoteCore(y)
  BY DEF Core, VoteCore
<1> QED BY <1>1, <1>3, <1>10, <1>11, <1>14, <1>15, <1>16

LEMMA DoSnapshotType ==
  ASSUME NEW s \in NodeState
  PROVE  /\ DoSnapshot(s) \in NodeState /\ Core(DoSnapshot(s)) = Core(s)
         /\ DoSnapshot(s).out = s.out
<1> DEFINE k == s.lastApplied
           b == LogSaveSnapshot(s, k, LogTermAt(s, k), s.sm)
<1>1. k \in Nat /\ s.sm \in History
  BY DEF NodeState
<1>2. LogTermAt(s, k) \in Nat \cup {NoTerm}
  BY LogTermAtType
<1>3. b \in NodeState /\ Core(b) = Core(s) /\ b.out = s.out
  BY <1>1, <1>2, LogSaveSnapshotType
<1>4. DoSnapshot(s) = [b EXCEPT !.lastSnapshotIndex = k]
  BY DEF DoSnapshot
<1> HIDE DEF b
<1> QED BY <1>1, <1>3, <1>4 DEF NodeState, Core

(***************************************************************************)
(* Role transitions.  Each lemma also says what becomes of the fields that *)
(* elections depend on.                                                    *)
(***************************************************************************)
LEMMA FailPendingType ==
  ASSUME NEW s \in NodeState
  PROVE  /\ FailPending(s) \in NodeState
         /\ Core(FailPending(s)) = Core(s) /\ FailPending(s).out = s.out
<1> DEFINE reps == [r \in Request |->
                      IF \E k \in DOMAIN s.pending : s.pending[k] = r
                      THEN Append(s.replies[r], "not-leader-anymore") ELSE s.replies[r]]
<1>1. \A r \in Request : s.replies[r] \in Seq(Outcome)
  BY DEF NodeState, Replies
<1>2. "not-leader-anymore" \in Outcome
  BY DEF Outcome
<1>3. \A r \in Request : Append(s.replies[r], "not-leader-anymore") \in Seq(Outcome)
  BY <1>1, <1>2, AppendProperties
<1>4. reps \in Replies
  BY <1>1, <1>3 DEF Replies
<1>5. FailPending(s) = [s EXCEPT !.pending = EmptyLog, !.replies = reps]
  BY DEF FailPending, NodeState
<1> HIDE DEF reps
<1> QED BY ZenonT(60), <1>4, <1>5, EmptyLogType DEF NodeState, Core

LEMMA LogSaveMetadataFields ==
  ASSUME NEW s \in NodeState, NEW t \in Nat, NEW v \in NodeOrNone
  PROVE  LET u == LogSaveMetadata(s, t, v)
         IN  /\ u.id = s.id /\ u.peers = s.peers /\ u.learners = s.learners
             /\ u.role = s.role /\ u.votes = s.votes /\ u.elected = s.elected
             /\ u.out = s.out /\ u.currentTerm = t /\ u.votedFor = v
             /\ u.ballots = IF v = None THEN s.ballots ELSE s.ballots \cup {<<t, v>>}
BY DEF LogSaveMetadata, NodeState

\* A new term: the vote is forgotten, and no ballot is put on record.
LEMMA NewTermFields ==
  ASSUME NEW s \in NodeState, NEW t \in Nat
  PROVE  LET u == LogSaveMetadata(s, t, None)
         IN  /\ u.id = s.id /\ u.peers = s.peers /\ u.learners = s.learners
             /\ u.votes = s.votes /\ u.elected = s.elected
             /\ u.out = s.out /\ u.ballots = s.ballots
             /\ u.currentTerm = t /\ u.votedFor = None
<1>1. LogSaveMetadata(s, t, None) = [s EXCEPT !.currentTerm = t, !.votedFor = None,
                                             !.ballots = s.ballots]
  BY DEF LogSaveMetadata, NodeState
<1> QED BY <1>1 DEF NodeState

LEMMA BecomeFollowerType ==
  ASSUME NEW s \in NodeState, NEW t \in Nat
  PROVE  LET u == BecomeFollower(s, t)
         IN  /\ u \in NodeState
             /\ u.id = s.id /\ u.peers = s.peers /\ u.learners = s.learners
             /\ u.role = "follower" /\ u.votes = s.votes /\ u.elected = s.elected
             /\ u.out = s.out /\ u.ballots = s.ballots
             /\ u.currentTerm = IF t > s.currentTerm THEN t ELSE s.currentTerm
             /\ u.votedFor = IF t > s.currentTerm THEN None ELSE s.votedFor
<1> DEFINE x == IF t > s.currentTerm THEN LogSaveMetadata(s, t, None) ELSE s
           y == IF s.role # "follower" THEN FailPending(x) ELSE x
<1>1. None \in NodeOrNone
  BY DEF NodeOrNone
<1>2. x \in NodeState
  BY <1>1, LogSaveMetadataType
<1>3. /\ x.id = s.id /\ x.peers = s.peers /\ x.learners = s.learners
      /\ x.votes = s.votes /\ x.elected = s.elected
      /\ x.out = s.out /\ x.ballots = s.ballots
      /\ x.currentTerm = IF t > s.currentTerm THEN t ELSE s.currentTerm
      /\ x.votedFor = IF t > s.currentTerm THEN None ELSE s.votedFor
  <2>1. CASE t > s.currentTerm
    <3>1. x = LogSaveMetadata(s, t, None)
      BY <2>1
    <3>2. LET u == LogSaveMetadata(s, t, None)
          IN  /\ u.id = s.id /\ u.peers = s.peers /\ u.learners = s.learners
              /\ u.votes = s.votes /\ u.elected = s.elected
              /\ u.out = s.out /\ u.ballots = s.ballots
              /\ u.currentTerm = t /\ u.votedFor = None
      BY NewTermFields
    <3> HIDE DEF x, y
    <3> QED BY <2>1, <3>1, <3>2
  <2>2. CASE ~ (t > s.currentTerm)
    <3>1. x = s
      BY <2>2
    <3> HIDE DEF x
    <3> QED BY <2>2, <3>1
  <2> QED BY <2>1, <2>2
<1>4. BecomeFollower(s, t) = [y EXCEPT !.role = "follower", !.electionEpoch = @ + 1,
                                       !.ticker = TRUE]
  BY DEF BecomeFollower
<1> HIDE DEF x
<1>5. y \in NodeState /\ Core(y) = Core(x) /\ y.out = x.out
  BY <1>2, FailPendingType
<1> HIDE DEF y
<1>6. y.electionEpoch + 1 \in Nat /\ "follower" \in Role
  BY <1>5 DEF NodeState, Role
<1>7. PICK e \in Nat : e = y.electionEpoch + 1
  BY <1>6
<1>8. BecomeFollower(s, t) = [y EXCEPT !.role = "follower", !.electionEpoch = e,
                                       !.ticker = TRUE]
  BY <1>4, <1>5, <1>7 DEF NodeState
<1>9. BecomeFollower(s, t) \in NodeState
  BY ZenonT(60), <1>5, <1>6, <1>8 DEF NodeState
<1>10. Core(BecomeFollower(s, t))
         = <<y.id, y.peers, y.learners, "follower", y.currentTerm, y.votedFor,
             y.votes, y.ballots, y.elected>> /\ BecomeFollower(s, t).out = y.out
  BY <1>5, <1>8 DEF NodeState, Core
<1> QED BY <1>3, <1>5, <1>9, <1>10 DEF Core

LEMMA BecomeLeaderType ==
  ASSUME NEW s \in NodeState
  PROVE  LET u == BecomeLeader(s)
         IN  /\ u \in NodeState
             /\ u.id = s.id /\ u.peers = s.peers /\ u.learners = s.learners
             /\ u.role = "leader" /\ u.votes = s.votes
             /\ u.elected = s.elected \cup {s.currentTerm}
             /\ u.ballots = s.ballots /\ u.currentTerm = s.currentTerm
             /\ u.votedFor = s.votedFor
<1> DEFINE next == [p \in Node |-> IF p \in s.peers \cup s.learners
                                   THEN LogLastIndex(s) + 1 ELSE 0]
           zero == [p \in Node |-> 0]
           el == s.elected \cup {s.currentTerm}
           l == [s EXCEPT !.role = "leader", !.leaderId = s.id, !.nextIndex = next,
                          !.matchIndex = zero, !.elected = el]
<1>1. next \in Progress /\ zero \in Progress
  BY LogLastIndexType DEF Progress
<1>2. el \in SUBSET Nat /\ s.id \in NodeOrNone /\ "leader" \in Role
  BY DEF NodeState, NodeOrNone, Role
<1>3. BecomeLeader(s) = ReplicateToPeers(l)
  BY DEF BecomeLeader, NodeState
<1>4. el = s.elected \cup {s.currentTerm}
  OBVIOUS
<1> HIDE DEF next, zero, el
<1>5. l \in NodeState
  BY <1>1, <1>2 DEF NodeState
<1>6. /\ l.id = s.id /\ l.peers = s.peers /\ l.learners = s.learners
      /\ l.role = "leader" /\ l.votes = s.votes /\ l.elected = el
      /\ l.ballots = s.ballots /\ l.currentTerm = s.currentTerm
      /\ l.votedFor = s.votedFor
  BY DEF NodeState
<1> HIDE DEF l
<1>7. ReplicateToPeers(l) \in NodeState /\ Core(ReplicateToPeers(l)) = Core(l)
  BY <1>5, ReplicateToPeersType
<1> QED BY <1>3, <1>4, <1>6, <1>7 DEF Core

\* Granting oneself a vote: the new candidate before it has asked for others.
Candidate(s) ==
  [LogSaveMetadata(s, s.currentTerm + 1, s.id)
     EXCEPT !.role = "candidate", !.votes = {s.id}]

LEMMA CandidateType ==
  ASSUME NEW s \in NodeState
  PROVE  LET c == Candidate(s)
         IN  /\ c \in NodeState
             /\ c.id = s.id /\ c.peers = s.peers /\ c.learners = s.learners
             /\ c.role = "candidate" /\ c.votes = {s.id} /\ c.elected = s.elected
             /\ c.ballots = s.ballots \cup {<<s.currentTerm + 1, s.id>>}
             /\ c.currentTerm = s.currentTerm + 1 /\ c.votedFor = s.id
<1>0. s.currentTerm + 1 \in Nat
  BY DEF NodeState
<1>1. PICK t \in Nat : t = s.currentTerm + 1
  BY <1>0
<1> DEFINE m == LogSaveMetadata(s, t, s.id)
<1>2. s.id \in Node /\ s.id \in NodeOrNone /\ s.id # None
  BY NodeAssumption DEF NodeOrNone, NodeState
<1>3. m \in NodeState
  BY <1>1, <1>2, LogSaveMetadataType
<1>4. /\ m.id = s.id /\ m.peers = s.peers /\ m.learners = s.learners
      /\ m.elected = s.elected /\ m.ballots = s.ballots \cup {<<t, s.id>>}
      /\ m.currentTerm = t /\ m.votedFor = s.id
  BY <1>2 DEF LogSaveMetadata, NodeState
<1>5. Candidate(s) = [m EXCEPT !.role = "candidate", !.votes = {s.id}]
  BY <1>1 DEF Candidate
<1> HIDE DEF m
<1>8. "candidate" \in Role /\ {s.id} \in SUBSET Node
  BY <1>2 DEF Role
<1>6. Candidate(s) \in NodeState
  BY ZenonT(60), <1>8, <1>3, <1>5 DEF NodeState
<1>7. /\ Candidate(s).role = "candidate" /\ Candidate(s).votes = {s.id}
      /\ Candidate(s).id = m.id /\ Candidate(s).peers = m.peers
      /\ Candidate(s).learners = m.learners /\ Candidate(s).elected = m.elected
      /\ Candidate(s).ballots = m.ballots /\ Candidate(s).currentTerm = m.currentTerm
      /\ Candidate(s).votedFor = m.votedFor
  BY <1>3, <1>5 DEF NodeState
<1> QED BY <1>1, <1>4, <1>6, <1>7

\* A candidate asks its peers for their votes, and may have won already.
LEMMA BecomeCandidateForRealIs ==
  ASSUME NEW s \in NodeState
  PROVE  \E m \in PlainMsg :
           /\ m.type = "request-vote" /\ m.from = s.id
           /\ BecomeCandidateForReal(s) = MaybeWinElection(SendToPeers(Candidate(s), m))
<1> DEFINE m == [type |-> "request-vote", term |-> Candidate(s).currentTerm, from |-> s.id,
                 lastIndex |-> LogLastIndex(s), lastTerm |-> LogLastTerm(s)]
<1>1. BecomeCandidateForReal(s) = MaybeWinElection(SendToPeers(Candidate(s), m))
  BY DEF BecomeCandidateForReal, Candidate
<1>2. Candidate(s).currentTerm \in Nat /\ s.id \in Node
  BY CandidateType DEF NodeState
<1>3. LogLastIndex(s) \in Nat /\ LogLastTerm(s) \in Nat
  BY LogLastIndexType, LogLastTermType
<1>4. m \in RequestVoteMsg
  BY <1>2, <1>3 DEF RequestVoteMsg
<1>5. m \in PlainMsg
  BY <1>4 DEF PlainMsg
<1>6. m.type = "request-vote" /\ m.from = s.id
  OBVIOUS
<1> HIDE DEF m
<1> QED BY <1>1, <1>5, <1>6

LEMMA MaybeWinElectionType ==
  ASSUME NEW s \in NodeState
  PROVE  MaybeWinElection(s) \in NodeState
BY BecomeLeaderType DEF MaybeWinElection

LEMMA MaybeStartRealElectionType ==
  ASSUME NEW s \in NodeState
  PROVE  MaybeStartRealElection(s) \in NodeState
<1>1. PICK m \in PlainMsg :
        BecomeCandidateForReal(s) = MaybeWinElection(SendToPeers(Candidate(s), m))
  BY BecomeCandidateForRealIs
<1>2. SendToPeers(Candidate(s), m) \in NodeState
  BY CandidateType, SendToPeersType
<1>3. BecomeCandidateForReal(s) \in NodeState
  BY <1>1, <1>2, MaybeWinElectionType
<1> QED BY <1>3 DEF MaybeStartRealElection

\* A node that starts an election asks for pre-votes; its election core
\* changes only in its role.
PreCandidate(s) == [s EXCEPT !.role = "pre-candidate", !.prevotes = {s.id}]

LEMMA PreCandidateType ==
  ASSUME NEW s \in NodeState
  PROVE  LET c == PreCandidate(s)
         IN  /\ c \in NodeState
             /\ c.id = s.id /\ c.peers = s.peers /\ c.learners = s.learners
             /\ c.role = "pre-candidate" /\ c.votes = s.votes /\ c.elected = s.elected
             /\ c.ballots = s.ballots /\ c.currentTerm = s.currentTerm
             /\ c.votedFor = s.votedFor
<1>1. {s.id} \in SUBSET Node /\ "pre-candidate" \in Role
  BY DEF NodeState, Role
<1> QED BY <1>1 DEF PreCandidate, NodeState

LEMMA StartElectionIs ==
  ASSUME NEW s \in NodeState
  PROVE  \E m \in PlainMsg :
           /\ m.type = "pre-vote" /\ m.from = s.id
           /\ StartElection(s) = IF IsLearner(s) THEN s
                ELSE MaybeStartRealElection(SendToPeers(PreCandidate(s), m))
<1> DEFINE m == [type |-> "pre-vote", term |-> s.currentTerm + 1, from |-> s.id,
                 lastIndex |-> LogLastIndex(s), lastTerm |-> LogLastTerm(s),
                 epoch |-> s.electionEpoch]
<1>1. StartElection(s) = IF IsLearner(s) THEN s
                         ELSE MaybeStartRealElection(SendToPeers(PreCandidate(s), m))
  BY DEF StartElection, PreCandidate
<1>2. s.currentTerm + 1 \in Nat /\ s.id \in Node /\ s.electionEpoch \in Nat
  BY DEF NodeState
<1>3. LogLastIndex(s) \in Nat /\ LogLastTerm(s) \in Nat
  BY LogLastIndexType, LogLastTermType
<1>4. m \in PreVoteMsg
  BY <1>2, <1>3 DEF PreVoteMsg
<1>5. m \in PlainMsg
  BY <1>4 DEF PlainMsg
<1>6. m.type = "pre-vote" /\ m.from = s.id
  OBVIOUS
<1> HIDE DEF m
<1> QED BY <1>1, <1>5, <1>6

LEMMA StartElectionType ==
  ASSUME NEW s \in NodeState
  PROVE  StartElection(s) \in NodeState
<1>1. PICK m \in PlainMsg :
        StartElection(s) = IF IsLearner(s) THEN s
                           ELSE MaybeStartRealElection(SendToPeers(PreCandidate(s), m))
  BY StartElectionIs
<1>2. SendToPeers(PreCandidate(s), m) \in NodeState
  BY PreCandidateType, SendToPeersType
<1> QED BY <1>1, <1>2, MaybeStartRealElectionType

(***************************************************************************)
(* Requests of clients.                                                    *)
(***************************************************************************)
LEMMA EntryForType ==
  ASSUME NEW s \in NodeState, NEW r \in Request
  PROVE  EntryFor(s, r) \in Entry
<1>1. s.currentTerm \in Nat
  BY DEF NodeState
<1>2. CASE r \in Command
  BY <1>1, <1>2 DEF EntryFor, Entry
<1>3. CASE r \notin Command /\ r \in Read
  BY <1>1, <1>3 DEF EntryFor, Entry
<1>4. CASE r \notin Command /\ r \notin Read
  BY <1>1, <1>4 DEF EntryFor, Entry, Request
<1> QED BY <1>2, <1>3, <1>4

\* raft-client-append! leaves votes alone.
LEMMA ClientAppendType ==
  ASSUME NEW s \in NodeState, NEW r \in Request
  PROVE  /\ ClientAppend(s, r) \in NodeState
         /\ VoteCore(ClientAppend(s, r)) = VoteCore(s)
         /\ Change = {} => Core(ClientAppend(s, r)) = Core(s)
<1> DEFINE k == LogLastIndex(s) + 1
           es == [j \in {k} |-> EntryFor(s, r)]
           log == LogAppendAll(s.log, es)
           pend == [j \in DOMAIN s.pending \cup {k} |-> IF j = k THEN r ELSE s.pending[j]]
           a == [s EXCEPT !.log = log, !.pending = pend]
           reps == [s.replies EXCEPT ![r] = Append(@, "not-leader")]
<1>0. \A x, y \in NodeState : Core(x) = Core(y) => VoteCore(x) = VoteCore(y)
  BY DEF Core, VoteCore
<1>1. k \in Index
  BY LogLastIndexType DEF Index
<1>2. es \in Log
  <2>1. {k} \in FiniteIndexSet
    BY <1>1, FS_Singleton DEF FiniteIndexSet
  <2>2. es \in [{k} -> Entry]
    BY EntryForType
  <2> QED BY <2>1, <2>2 DEF Log
<1>3. s.log \in Log /\ s.pending \in Pending /\ s.replies \in Replies
  BY DEF NodeState
<1>4. log \in Log
  BY <1>2, <1>3, LogAppendAllType
<1>5. pend \in Pending
  <2>1. PICK D \in SUBSET Index : s.pending \in [D -> Request]
    BY <1>3 DEF Pending
  <2>2. D \cup {k} \in SUBSET Index
    BY <1>1
  <2>3. pend \in [D \cup {k} -> Request]
    BY <2>1
  <2> QED BY <2>2, <2>3 DEF Pending
<1>6. reps \in Replies
  <2>1. s.replies[r] \in Seq(Outcome) /\ "not-leader" \in Outcome
    BY <1>3 DEF Replies, Outcome
  <2>2. Append(s.replies[r], "not-leader") \in Seq(Outcome)
    BY <2>1, AppendProperties
  <2> QED BY <1>3, <2>2 DEF Replies
<1>7. ClientAppend(s, r) = IF s.role # "leader" THEN [s EXCEPT !.replies = reps]
                           ELSE ReplicateToPeers(ApplyCommitted(RecomputeCommitIndex(a)))
  BY DEF ClientAppend, NodeState
<1> HIDE DEF k, es, log, pend, reps
<1>8. [s EXCEPT !.replies = reps] \in NodeState /\ Core([s EXCEPT !.replies = reps]) = Core(s)
  BY <1>6 DEF NodeState, Core
<1>9. a \in NodeState /\ Core(a) = Core(s)
  BY <1>4, <1>5 DEF NodeState, Core
<1> HIDE DEF a
<1>10. RecomputeCommitIndex(a) \in NodeState /\ Core(RecomputeCommitIndex(a)) = Core(a)
  BY <1>9, RecomputeCommitIndexType
<1> DEFINE c == ApplyCommitted(RecomputeCommitIndex(a))
<1>11. /\ c \in NodeState /\ VoteCore(c) = VoteCore(RecomputeCommitIndex(a))
       /\ Change = {} => Core(c) = Core(RecomputeCommitIndex(a))
  BY <1>10, ApplyCommittedType
<1>12. ReplicateToPeers(c) \in NodeState /\ Core(ReplicateToPeers(c)) = Core(c)
  BY <1>11, ReplicateToPeersType
<1> QED BY <1>0, <1>7, <1>8, <1>9, <1>10, <1>11, <1>12

(***************************************************************************)
(* Message handlers.                                                       *)
(***************************************************************************)

\* The type of a message tells its fields.
LEMMA MessageFields ==
  ASSUME NEW m \in Message
  PROVE  /\ m.term \in Nat /\ m.from \in Node
         /\ m.type = "request-vote" => m \in RequestVoteMsg
         /\ m.type = "request-vote-response" => m \in RequestVoteResponseMsg
         /\ m.type = "pre-vote" => m \in PreVoteMsg
         /\ m.type = "pre-vote-response" => m \in PreVoteResponseMsg
         /\ m.type = "append-entries" => m \in AppendEntriesMsg
         /\ m.type = "append-entries-response" => m \in AppendEntriesResponseMsg
         /\ m.type = "install-snapshot" => m \in InstallSnapshotMsg
         /\ m.type = "install-snapshot-response" => m \in InstallSnapshotResponseMsg
BY DEF Message, PlainMsg, RequestVoteMsg, RequestVoteResponseMsg, PreVoteMsg,
       PreVoteResponseMsg, AppendEntriesMsg, AppendEntriesResponseMsg,
       InstallSnapshotMsg, InstallSnapshotResponseMsg

\* raft-handle-request-vote: the table the vote leaves, before the answer.
Granted(u, m) ==
  /\ m.term >= u.currentTerm
  /\ ~ IsLearner(u)
  /\ u.votedFor \in {None, m.from}
  /\ LogUpToDate(u, m)

Updated(s, m) == IF m.term > s.currentTerm THEN BecomeFollower(s, m.term) ELSE s

Voted(s, m) ==
  LET u == Updated(s, m)
  IN  IF Granted(u, m)
      THEN LogSaveMetadata(BecomeFollower(u, u.currentTerm), u.currentTerm, m.from)
      ELSE u

VoteAnswer(s, m) ==
  [type |-> "request-vote-response", term |-> Voted(s, m).currentTerm,
   granted |-> Granted(Updated(s, m), m), from |-> s.id]

LEMMA HandleRequestVoteIs ==
  ASSUME NEW s, NEW m
  PROVE  HandleRequestVote(s, m) = Send(Voted(s, m), m.from, VoteAnswer(s, m))
BY DEF HandleRequestVote, Voted, VoteAnswer, Updated, Granted

LEMMA VotedType ==
  ASSUME NEW s \in NodeState, NEW m \in RequestVoteMsg
  PROVE  /\ Voted(s, m) \in NodeState /\ Voted(s, m).id = s.id
         /\ VoteAnswer(s, m) \in RequestVoteResponseMsg
<1> DEFINE u == Updated(s, m)
           f == BecomeFollower(u, u.currentTerm)
<1>1. m.term \in Nat /\ m.from \in Node /\ m.from \in NodeOrNone
  BY DEF RequestVoteMsg, NodeOrNone
<1>2. u \in NodeState /\ u.id = s.id
  BY <1>1, BecomeFollowerType DEF Updated
<1>3. u.currentTerm \in Nat
  BY <1>2 DEF NodeState
<1>4. f \in NodeState /\ f.id = s.id
  BY <1>2, <1>3, BecomeFollowerType
<1> HIDE DEF u, f
<1>5. /\ LogSaveMetadata(f, u.currentTerm, m.from) \in NodeState
      /\ LogSaveMetadata(f, u.currentTerm, m.from).id = s.id
  <2>1. LogSaveMetadata(f, u.currentTerm, m.from) \in NodeState
    BY <1>1, <1>3, <1>4, LogSaveMetadataType
  <2>2. LogSaveMetadata(f, u.currentTerm, m.from).id = f.id
    BY <1>4 DEF LogSaveMetadata, NodeState
  <2> QED BY <1>4, <2>1, <2>2
<1>6. Voted(s, m) \in NodeState /\ Voted(s, m).id = s.id
  BY <1>2, <1>5 DEF Voted, u, f
<1>7. Voted(s, m).currentTerm \in Nat /\ s.id \in Node
  BY <1>6 DEF NodeState
<1>8. Granted(Updated(s, m), m) \in BOOLEAN
  BY DEF Granted
<1> QED BY <1>6, <1>7, <1>8 DEF VoteAnswer, RequestVoteResponseMsg

LEMMA HandleRequestVoteResponseType ==
  ASSUME NEW s \in NodeState, NEW m \in RequestVoteResponseMsg
  PROVE  HandleRequestVoteResponse(s, m) \in NodeState
<1> DEFINE v == s.votes \cup {m.from}
           w == [s EXCEPT !.votes = v]
<1>1. m.term \in Nat /\ v \in SUBSET Node
  BY DEF RequestVoteResponseMsg, NodeState
<1>2. w = [s EXCEPT !.votes = @ \cup {m.from}]
  BY DEF NodeState
<1> HIDE DEF v
<1>3. w \in NodeState
  BY <1>1 DEF NodeState
<1> HIDE DEF w
<1>4. MaybeWinElection(w) \in NodeState
  BY <1>3, MaybeWinElectionType
<1>5. BecomeFollower(s, m.term) \in NodeState
  BY <1>1, BecomeFollowerType
<1> QED BY <1>2, <1>4, <1>5 DEF HandleRequestVoteResponse

LEMMA HandlePreVoteType ==
  ASSUME NEW s \in NodeState, NEW m \in PreVoteMsg
  PROVE  HandlePreVote(s, m) \in NodeState /\ Core(HandlePreVote(s, m)) = Core(s)
<1> DEFINE g == /\ ~ IsLearner(s)
                /\ m.term >= s.currentTerm
                /\ LogUpToDate(s, m)
           a == [type |-> "pre-vote-response", term |-> s.currentTerm, granted |-> g,
                 from |-> s.id, epoch |-> m.epoch]
<1>1. m.from \in Node /\ m.epoch \in Nat /\ s.currentTerm \in Nat /\ s.id \in Node
  BY DEF PreVoteMsg, NodeState
<1>2. g \in BOOLEAN
  OBVIOUS
<1>3. HandlePreVote(s, m) = Send(s, m.from, a)
  BY DEF HandlePreVote
<1> HIDE DEF g
<1>4. a \in PlainMsg
  BY <1>1, <1>2 DEF PlainMsg, PreVoteResponseMsg
<1> HIDE DEF a
<1> QED BY <1>1, <1>3, <1>4, SendType

\* One more pre-vote counted.
LEMMA PrevoteCounted ==
  ASSUME NEW s \in NodeState, NEW p \in Node
  PROVE  LET w == [s EXCEPT !.prevotes = @ \cup {p}]
         IN  w \in NodeState /\ Core(w) = Core(s)
<1> DEFINE v == s.prevotes \cup {p}
<1>1. v \in SUBSET Node
  BY DEF NodeState
<1>2. [s EXCEPT !.prevotes = @ \cup {p}] = [s EXCEPT !.prevotes = v]
  BY DEF NodeState
<1> HIDE DEF v
<1> QED BY <1>1, <1>2 DEF NodeState, Core

LEMMA HandlePreVoteResponseType ==
  ASSUME NEW s \in NodeState, NEW m \in PreVoteResponseMsg
  PROVE  HandlePreVoteResponse(s, m) \in NodeState
<1> DEFINE w == [s EXCEPT !.prevotes = @ \cup {m.from}]
<1>1. m.term \in Nat /\ m.from \in Node
  BY DEF PreVoteResponseMsg
<1>2. w \in NodeState
  BY <1>1, PrevoteCounted
<1>3. HandlePreVoteResponse(s, m) =
        CASE m.term > s.currentTerm -> BecomeFollower(s, m.term)
          [] /\ m.term <= s.currentTerm
             /\ s.role = "pre-candidate" /\ m.epoch = s.electionEpoch /\ m.granted ->
               MaybeStartRealElection(w)
          [] OTHER -> s
  BY DEF HandlePreVoteResponse
<1> HIDE DEF w
<1>4. MaybeStartRealElection(w) \in NodeState
  BY <1>2, MaybeStartRealElectionType
<1>5. BecomeFollower(s, m.term) \in NodeState
  BY <1>1, BecomeFollowerType
<1> QED BY <1>3, <1>4, <1>5

\* Obeying the leader of a message, and no other change that votes or
\* elections could notice.
LEMMA FollowLeaderType ==
  ASSUME NEW s \in NodeState, NEW m, m.term \in Nat, m.from \in Node
  PROVE  /\ FollowLeader(s, m) \in NodeState
         /\ \/ FollowLeader(s, m) = s
            \/ Core(FollowLeader(s, m)) = Core(BecomeFollower(s, m.term))
<1> DEFINE f == BecomeFollower(s, m.term)
<1>1. f \in NodeState /\ m.from \in NodeOrNone
  BY BecomeFollowerType DEF NodeOrNone
<1>2. FollowLeader(s, m) = IF m.term >= s.currentTerm
                           THEN [f EXCEPT !.leaderId = m.from] ELSE s
  BY DEF FollowLeader
<1> HIDE DEF f
<1>3. /\ [f EXCEPT !.leaderId = m.from] \in NodeState
      /\ Core([f EXCEPT !.leaderId = m.from]) = Core(f)
  BY <1>1 DEF NodeState, Core
<1> QED BY <1>2, <1>3 DEF f

\* The answers to append-entries and install-snapshot.
AppendAnswer(s, p, ok, k, id) ==
  Send(s, p, [type |-> "append-entries-response", term |-> s.currentTerm,
              success |-> ok, match |-> k, from |-> id])

SnapshotAnswer(s, p, k, id) ==
  Send(s, p, [type |-> "install-snapshot-response", term |-> s.currentTerm,
              lastIndex |-> k, from |-> id])

LEMMA AppendAnswerType ==
  ASSUME NEW s \in NodeState, NEW p \in Node, NEW ok \in BOOLEAN, NEW k \in Nat,
         NEW id \in Node
  PROVE  /\ AppendAnswer(s, p, ok, k, id) \in NodeState
         /\ Core(AppendAnswer(s, p, ok, k, id)) = Core(s)
<1> DEFINE a == [type |-> "append-entries-response", term |-> s.currentTerm,
                 success |-> ok, match |-> k, from |-> id]
<1>1. s.currentTerm \in Nat
  BY DEF NodeState
<1>2. a \in PlainMsg
  BY <1>1 DEF PlainMsg, AppendEntriesResponseMsg
<1> HIDE DEF a
<1>3. Send(s, p, a) \in NodeState /\ Core(Send(s, p, a)) = Core(s)
  BY <1>2, SendType
<1> QED BY <1>3 DEF a, AppendAnswer

LEMMA SnapshotAnswerType ==
  ASSUME NEW s \in NodeState, NEW p \in Node, NEW k \in Nat, NEW id \in Node
  PROVE  /\ SnapshotAnswer(s, p, k, id) \in NodeState
         /\ Core(SnapshotAnswer(s, p, k, id)) = Core(s)
<1> DEFINE a == [type |-> "install-snapshot-response", term |-> s.currentTerm,
                 lastIndex |-> k, from |-> id]
<1>1. s.currentTerm \in Nat
  BY DEF NodeState
<1>2. a \in PlainMsg
  BY <1>1 DEF PlainMsg, InstallSnapshotResponseMsg
<1> HIDE DEF a
<1>3. Send(s, p, a) \in NodeState /\ Core(Send(s, p, a)) = Core(s)
  BY <1>2, SendType
<1> QED BY <1>3 DEF a, SnapshotAnswer

LEMMA HandleAppendEntriesType ==
  ASSUME NEW s \in NodeState, NEW m \in AppendEntriesMsg
  PROVE  LET u == HandleAppendEntries(s, m)
         IN  /\ u \in NodeState /\ VoteCore(u) = VoteCore(FollowLeader(s, m))
             /\ Change = {} => Core(u) = Core(FollowLeader(s, m))
<1> DEFINE u == FollowLeader(s, m)
           log == LogAppendAll(u.log, m.entries)
           a == [u EXCEPT !.log = log]
           k == Smaller(m.commit, LogLastIndex(a))
           b == [a EXCEPT !.commitIndex = k]
           c == IF m.commit > a.commitIndex THEN ApplyCommitted(b) ELSE a
           Reply(t, ok, match) == AppendAnswer(t, m.from, ok, match, s.id)
<1>0. \A x, y \in NodeState : Core(x) = Core(y) => VoteCore(x) = VoteCore(y)
  BY DEF Core, VoteCore
<1>1. /\ m.term \in Nat /\ m.from \in Node /\ m.entries \in Log /\ m.commit \in Nat
      /\ s.id \in Node
  BY DEF AppendEntriesMsg, NodeState
<1>2. u \in NodeState
  BY <1>1, FollowLeaderType
<1>3. log \in Log
  BY <1>1, <1>2, LogAppendAllType DEF NodeState
<1>4. HandleAppendEntries(s, m)
        = CASE m.term < u.currentTerm -> Reply(u, FALSE, 0)
            [] m.term >= u.currentTerm /\ ~ PrevMatches(u, m) ->
                 Reply(u, FALSE, LogLastIndex(u))
            [] OTHER -> Reply(c, TRUE, LogLastIndex(c))
  <2>1. a = [u EXCEPT !.log = LogAppendAll(@, m.entries)]
    BY <1>2 DEF NodeState
  <2> QED BY <2>1 DEF HandleAppendEntries, AppendAnswer, CommitUpTo
<1> HIDE DEF log, u
<1>5. a \in NodeState /\ Core(a) = Core(u)
  BY <1>2, <1>3 DEF NodeState, Core
<1> HIDE DEF a
<1>6. k \in Nat
  BY <1>1, <1>5, LogLastIndexType DEF Smaller
<1> HIDE DEF k
<1>7. b \in NodeState /\ Core(b) = Core(a)
  BY <1>5, <1>6 DEF NodeState, Core
<1> HIDE DEF b
<1>8. /\ c \in NodeState /\ VoteCore(c) = VoteCore(u)
      /\ Change = {} => Core(c) = Core(u)
  BY <1>0, <1>2, <1>5, <1>7, ApplyCommittedType
<1> HIDE DEF c
<1>9. /\ Reply(u, FALSE, 0) \in NodeState
      /\ Core(Reply(u, FALSE, 0)) = Core(u)
  <2>1. \A k0 \in Nat : /\ AppendAnswer(u, m.from, FALSE, k0, s.id) \in NodeState
                        /\ Core(AppendAnswer(u, m.from, FALSE, k0, s.id)) = Core(u)
    BY ZenonT(60), <1>1, <1>2, AppendAnswerType
  <2> QED BY <2>1
<1>10. /\ Reply(u, FALSE, LogLastIndex(u)) \in NodeState
       /\ Core(Reply(u, FALSE, LogLastIndex(u))) = Core(u)
  <2>1. \A k0 \in Nat : /\ AppendAnswer(u, m.from, FALSE, k0, s.id) \in NodeState
                        /\ Core(AppendAnswer(u, m.from, FALSE, k0, s.id)) = Core(u)
    BY ZenonT(60), <1>1, <1>2, AppendAnswerType
  <2>2. LogLastIndex(u) \in Nat
    BY <1>2, LogLastIndexType
  <2> QED BY <2>1, <2>2
<1>11. /\ Reply(c, TRUE, LogLastIndex(c)) \in NodeState
       /\ Core(Reply(c, TRUE, LogLastIndex(c))) = Core(c)
  <2>1. \A k0 \in Nat : /\ AppendAnswer(c, m.from, TRUE, k0, s.id) \in NodeState
                        /\ Core(AppendAnswer(c, m.from, TRUE, k0, s.id)) = Core(c)
    BY ZenonT(60), <1>1, <1>8, AppendAnswerType
  <2>2. LogLastIndex(c) \in Nat
    BY <1>8, LogLastIndexType
  <2> QED BY <2>1, <2>2
<1> HIDE DEF Reply
<1>12. /\ HandleAppendEntries(s, m) \in NodeState
       /\ VoteCore(HandleAppendEntries(s, m)) = VoteCore(u)
       /\ Change = {} => Core(HandleAppendEntries(s, m)) = Core(u)
  BY <1>0, <1>2, <1>4, <1>8, <1>9, <1>10, <1>11
<1> QED BY <1>12 DEF u

\* Counting an acknowledgement leaves votes alone.
LEMMA AcknowledgeType ==
  ASSUME NEW s \in NodeState, NEW p \in Node, NEW k \in Nat
  PROVE  LET u == Acknowledge(s, p, k)
         IN  /\ u \in NodeState /\ VoteCore(u) = VoteCore(s)
             /\ Change = {} => Core(u) = Core(s)
<1> DEFINE match == [s.matchIndex EXCEPT ![p] = Larger(k, @)]
           next == [s.nextIndex EXCEPT ![p] = k + 1]
           t == [s EXCEPT !.matchIndex = match, !.nextIndex = next]
           c == RecomputeCommitIndex(t)
<1>0. \A x, y \in NodeState : Core(x) = Core(y) => VoteCore(x) = VoteCore(y)
  BY DEF Core, VoteCore
<1>1. s.matchIndex \in [Node -> Nat] /\ s.nextIndex \in [Node -> Nat]
  BY DEF NodeState, Progress
<1>2. match \in Progress /\ next \in Progress
  BY <1>1 DEF Larger, Progress
<1>3. t = [s EXCEPT !.matchIndex[p] = Larger(k, @), !.nextIndex[p] = k + 1]
  BY DEF NodeState
<1>4. Acknowledge(s, p, k) = IF c.commitIndex > t.commitIndex THEN ApplyCommitted(c) ELSE t
  BY <1>3 DEF Acknowledge
<1> HIDE DEF match, next
<1>5. t \in NodeState /\ Core(t) = Core(s)
  BY <1>2 DEF NodeState, Core
<1> HIDE DEF t
<1>6. c \in NodeState /\ Core(c) = Core(t)
  BY <1>5, RecomputeCommitIndexType
<1> HIDE DEF c
<1>7. /\ ApplyCommitted(c) \in NodeState /\ VoteCore(ApplyCommitted(c)) = VoteCore(c)
      /\ Change = {} => Core(ApplyCommitted(c)) = Core(c)
  BY <1>6, ApplyCommittedType
<1> QED BY <1>0, <1>4, <1>5, <1>6, <1>7

LEMMA HandleAppendEntriesResponseType ==
  ASSUME NEW s \in NodeState, NEW m \in AppendEntriesResponseMsg
  PROVE  LET u == HandleAppendEntriesResponse(s, m)
         IN  /\ u \in NodeState
             /\ \/ u = BecomeFollower(s, m.term)
                \/ VoteCore(u) = VoteCore(s) /\ (Change = {} => Core(u) = Core(s))
<1> DEFINE next == [s.nextIndex EXCEPT ![m.from] = Larger(1, @ - 1)]
           t == [s EXCEPT !.nextIndex = next]
<1>1. m.term \in Nat /\ m.from \in Node /\ m.match \in Nat /\ m.success \in BOOLEAN
  BY DEF AppendEntriesResponseMsg
<1>2. s.nextIndex \in [Node -> Nat]
  BY DEF NodeState, Progress
<1>3. next \in Progress
  BY <1>1, <1>2 DEF Larger, Progress
<1>4. t = [s EXCEPT !.nextIndex[m.from] = Larger(1, @ - 1)]
  BY DEF NodeState
<1>5. HandleAppendEntriesResponse(s, m)
        = CASE m.term > s.currentTerm -> BecomeFollower(s, m.term)
            [] s.role = "leader" /\ m.term = s.currentTerm /\ m.success ->
                 Acknowledge(s, m.from, m.match)
            [] s.role = "leader" /\ m.term = s.currentTerm /\ ~ m.success -> t
            [] OTHER -> s
  BY <1>4 DEF HandleAppendEntriesResponse
<1> HIDE DEF next
<1>6. t \in NodeState /\ Core(t) = Core(s) /\ VoteCore(t) = VoteCore(s)
  BY <1>3 DEF NodeState, Core, VoteCore
<1> HIDE DEF t
<1>7. BecomeFollower(s, m.term) \in NodeState
  BY <1>1, BecomeFollowerType
<1>8. LET u == Acknowledge(s, m.from, m.match)
      IN  /\ u \in NodeState /\ VoteCore(u) = VoteCore(s)
          /\ Change = {} => Core(u) = Core(s)
  BY <1>1, AcknowledgeType
<1> QED BY <1>5, <1>6, <1>7, <1>8

LEMMA HandleInstallSnapshotType ==
  ASSUME NEW s \in NodeState, NEW m \in InstallSnapshotMsg
  PROVE  /\ HandleInstallSnapshot(s, m) \in NodeState
         /\ Core(HandleInstallSnapshot(s, m)) = Core(FollowLeader(s, m))
<1> DEFINE u == FollowLeader(s, m)
           b == LogSaveSnapshot(u, m.lastIndex, m.lastTerm, m.data)
           ci == Larger(b.commitIndex, m.lastIndex)
           la == Larger(b.lastApplied, m.lastIndex)
           i == [b EXCEPT !.sm = m.data, !.lastSnapshotIndex = m.lastIndex,
                          !.commitIndex = ci, !.lastApplied = la]
<1>1. /\ m.term \in Nat /\ m.from \in Node /\ m.lastIndex \in Nat
      /\ m.lastTerm \in Nat \cup {NoTerm} /\ m.data \in History /\ s.id \in Node
  BY DEF InstallSnapshotMsg, NodeState
<1>2. u \in NodeState
  BY <1>1, FollowLeaderType
<1>3. b \in NodeState /\ Core(b) = Core(u)
  BY <1>1, <1>2, LogSaveSnapshotType
<1>4. HandleInstallSnapshot(s, m)
        = IF m.term < u.currentTerm THEN SnapshotAnswer(u, m.from, 0, s.id)
          ELSE SnapshotAnswer(i, m.from, m.lastIndex, s.id)
  <2>1. i = [b EXCEPT !.sm = m.data, !.lastSnapshotIndex = m.lastIndex,
                      !.commitIndex = Larger(@, m.lastIndex),
                      !.lastApplied = Larger(@, m.lastIndex)]
    BY <1>3 DEF NodeState
  <2> QED BY <2>1 DEF HandleInstallSnapshot, SnapshotAnswer
<1> HIDE DEF b, u
<1>5. ci \in Nat /\ la \in Nat
  BY <1>1, <1>3 DEF Larger, NodeState
<1> HIDE DEF ci, la
<1>6. i \in NodeState /\ Core(i) = Core(b)
  BY <1>1, <1>3, <1>5 DEF NodeState, Core
<1> HIDE DEF i
<1>7. /\ SnapshotAnswer(u, m.from, 0, s.id) \in NodeState
      /\ Core(SnapshotAnswer(u, m.from, 0, s.id)) = Core(u)
  BY <1>1, <1>2, SnapshotAnswerType
<1>8. /\ SnapshotAnswer(i, m.from, m.lastIndex, s.id) \in NodeState
      /\ Core(SnapshotAnswer(i, m.from, m.lastIndex, s.id)) = Core(i)
  BY <1>1, <1>6, SnapshotAnswerType
<1>9. /\ HandleInstallSnapshot(s, m) \in NodeState
      /\ Core(HandleInstallSnapshot(s, m)) = Core(u)
  BY <1>3, <1>4, <1>6, <1>7, <1>8
<1> QED BY <1>9 DEF u

LEMMA HandleInstallSnapshotResponseType ==
  ASSUME NEW s \in NodeState, NEW m \in InstallSnapshotResponseMsg
  PROVE  LET u == HandleInstallSnapshotResponse(s, m)
         IN  /\ u \in NodeState
             /\ \/ u = BecomeFollower(s, m.term)
                \/ VoteCore(u) = VoteCore(s) /\ (Change = {} => Core(u) = Core(s))
<1>1. m.term \in Nat /\ m.from \in Node /\ m.lastIndex \in Nat
  BY DEF InstallSnapshotResponseMsg
<1>2. BecomeFollower(s, m.term) \in NodeState
  BY <1>1, BecomeFollowerType
<1>3. LET u == Acknowledge(s, m.from, m.lastIndex)
      IN  /\ u \in NodeState /\ VoteCore(u) = VoteCore(s)
          /\ Change = {} => Core(u) = Core(s)
  BY <1>1, AcknowledgeType
<1> QED BY <1>2, <1>3 DEF HandleInstallSnapshotResponse

(***************************************************************************)
(* The identity of a node survives every operator.                         *)
(***************************************************************************)
LEMMA ElectionIdentity ==
  ASSUME NEW s \in NodeState
  PROVE  /\ MaybeWinElection(s).id = s.id
         /\ MaybeStartRealElection(s).id = s.id
         /\ StartElection(s).id = s.id
<1>1. \A x \in NodeState : MaybeWinElection(x).id = x.id
  BY BecomeLeaderType DEF MaybeWinElection
<1>2. \A x \in NodeState, m \in PlainMsg : SendToPeers(x, m).id = x.id
  BY SendToPeersType DEF Core
<1>3. \A x \in NodeState : BecomeCandidateForReal(x).id = x.id
  <2> TAKE x \in NodeState
  <2>1. PICK m \in PlainMsg :
          BecomeCandidateForReal(x) = MaybeWinElection(SendToPeers(Candidate(x), m))
    BY BecomeCandidateForRealIs
  <2>2. Candidate(x) \in NodeState /\ Candidate(x).id = x.id
    BY CandidateType
  <2>3. SendToPeers(Candidate(x), m) \in NodeState
    BY <2>2, SendToPeersType
  <2> QED BY <1>1, <1>2, <2>1, <2>2, <2>3
<1>4. \A x \in NodeState : MaybeStartRealElection(x).id = x.id
  BY <1>3 DEF MaybeStartRealElection
<1>5. StartElection(s).id = s.id
  <2>1. PICK m \in PlainMsg : StartElection(s) =
           IF IsLearner(s) THEN s
           ELSE MaybeStartRealElection(SendToPeers(PreCandidate(s), m))
    BY StartElectionIs
  <2>2. PreCandidate(s) \in NodeState /\ PreCandidate(s).id = s.id
    BY PreCandidateType
  <2>3. SendToPeers(PreCandidate(s), m) \in NodeState
    BY <2>2, SendToPeersType
  <2> QED BY <1>2, <1>4, <2>1, <2>2, <2>3
<1> QED BY <1>1, <1>4, <1>5

(***************************************************************************)
(* The type invariant and its preservation.                                *)
(***************************************************************************)
TypeInv ==
  /\ node \in [Node -> NodeState]
  /\ \A n \in Node : node[n].id = n /\ node[n].out = Nothing
  /\ inbox \in [Node -> Seq(Message)]
  /\ partitions \in SUBSET (Node \X Node)
  /\ asked \in SUBSET Request

Cleaned(s) == [s EXCEPT !.out = Nothing]

LEMMA NothingType == Nothing \in Outbox
<1>1. <<>> \in Seq(PlainMsg)
  BY EmptySeq
<1> QED BY <1>1 DEF Nothing, Outbox

LEMMA CleanedType ==
  ASSUME NEW s \in NodeState
  PROVE  /\ Cleaned(s) \in NodeState /\ Core(Cleaned(s)) = Core(s)
         /\ VoteCore(Cleaned(s)) = VoteCore(s)
         /\ Cleaned(s).id = s.id /\ Cleaned(s).out = Nothing
BY NothingType DEF Cleaned, NodeState, Core, VoteCore

\* What a table holds to be sent are messages.
LEMMA OutType ==
  ASSUME NEW s \in NodeState
  PROVE  s.out \in [Node -> Seq(Message)] /\ s.out \in [Node -> Seq(PlainMsg)]
<1>1. s.out \in [Node -> Seq(PlainMsg)]
  BY DEF NodeState, Outbox
<1>2. PlainMsg \subseteq Message
  BY DEF Message
<1>3. \A q \in Seq(PlainMsg) : q \in Seq(Message)
  <2> TAKE q \in Seq(PlainMsg)
  <2>1. Len(q) \in Nat /\ q \in [1 .. Len(q) -> PlainMsg]
    BY LenProperties
  <2>2. q \in [1 .. Len(q) -> Message]
    BY <1>2, <2>1
  <2> QED BY <2>1, <2>2, SeqDef
<1> QED BY <1>1, <1>3

\* The table a vote leaves, and the mail it sends.
LEMMA VotedOut ==
  ASSUME NEW v \in NodeState, NEW to \in Node, NEW r \in RequestVoteResponseMsg
  PROVE  LET s == Send(v, to, r)
         IN  /\ Cleaned(s) = Cleaned(v)
             /\ s.out = [v.out EXCEPT ![to] = Append(@, r)]
             /\ s.out \in [Node -> Seq(Message)]
<1> DEFINE o == [v.out EXCEPT ![to] = Append(@, r)]
<1>1. v.out \in [Node -> Seq(Message)] /\ r \in Message
  BY OutType DEF Message
<1>2. Append(v.out[to], r) \in Seq(Message)
  BY <1>1, AppendProperties
<1>3. o \in [Node -> Seq(Message)]
  BY <1>1, <1>2
<1>4. Send(v, to, r) = [v EXCEPT !.out = o]
  BY DEF Send, NodeState
<1> HIDE DEF o
<1>5. Cleaned([v EXCEPT !.out = o]) = Cleaned(v) /\ [v EXCEPT !.out = o].out = o
  BY DEF Cleaned, NodeState
<1> QED BY <1>3, <1>4, <1>5 DEF o

LEMMA ContinueType ==
  ASSUME TypeInv, NEW n \in Node, NEW s, NEW rest \in Seq(Message),
         Cleaned(s) \in NodeState, Cleaned(s).id = n, Cleaned(s).out = Nothing,
         s.out \in [Node -> Seq(Message)],
         Continue(n, s, rest), partitions' = partitions, asked' \in SUBSET Request
  PROVE  TypeInv'
<1>1. node' = [node EXCEPT ![n] = Cleaned(s)]
  BY DEF Continue, Cleaned
<1>2. /\ node' \in [Node -> NodeState]
      /\ \A p \in Node : node'[p].id = p /\ node'[p].out = Nothing
  BY <1>1 DEF TypeInv
<1>3. inbox' = [p \in Node |-> (IF p = n THEN rest ELSE inbox[p])
                                  \o (IF Partitioned(n, p) THEN <<>> ELSE s.out[p])]
  BY DEF Continue
<1>4. \A p \in Node : (IF p = n THEN rest ELSE inbox[p]) \in Seq(Message)
  BY DEF TypeInv
<1>5. \A p \in Node : (IF Partitioned(n, p) THEN <<>> ELSE s.out[p]) \in Seq(Message)
  <2>1. <<>> \in Seq(Message)
    BY EmptySeq
  <2> QED BY <2>1
<1>6. \A p \in Node : (IF p = n THEN rest ELSE inbox[p])
                          \o (IF Partitioned(n, p) THEN <<>> ELSE s.out[p]) \in Seq(Message)
  <2> TAKE p \in Node
  <2> DEFINE x == IF p = n THEN rest ELSE inbox[p]
             y == IF Partitioned(n, p) THEN <<>> ELSE s.out[p]
  <2>1. x \in Seq(Message) /\ y \in Seq(Message)
    BY <1>4, <1>5
  <2> HIDE DEF x, y
  <2>2. x \o y \in Seq(Message)
    BY <2>1, ConcatProperties
  <2> QED BY <2>2 DEF x, y
<1>7. inbox' \in [Node -> Seq(Message)]
  BY <1>3, <1>6
<1> QED BY <1>2, <1>7 DEF TypeInv

\* The usual case: the new table holds plain messages only.
LEMMA ContinuePlain ==
  ASSUME TypeInv, NEW n \in Node, NEW s \in NodeState, s.id = n, NEW rest \in Seq(Message),
         Continue(n, s, rest), partitions' = partitions, asked' \in SUBSET Request
  PROVE  TypeInv'
<1>1. Cleaned(s) \in NodeState /\ Cleaned(s).id = n /\ Cleaned(s).out = Nothing
  BY CleanedType
<1>2. s.out \in [Node -> Seq(Message)]
  BY OutType
<1> QED BY <1>1, <1>2, ContinueType

\* A message at the head of a mailbox.
LEMMA ReceivedType ==
  ASSUME TypeInv, NEW n \in Node, inbox[n] # <<>>
  PROVE  Head(inbox[n]) \in Message /\ Tail(inbox[n]) \in Seq(Message)
<1>1. inbox[n] \in Seq(Message)
  BY DEF TypeInv
<1> QED BY <1>1, HeadTailProperties

LEMMA HandledType ==
  ASSUME TypeInv, NEW n \in Node, inbox[n] # <<>>,
         NEW s \in NodeState, s.id = n, Handled(n, s)
  PROVE  TypeInv'
<1>1. Tail(inbox[n]) \in Seq(Message)
  BY ReceivedType
<1>2. Continue(n, s, Tail(inbox[n])) /\ partitions' = partitions /\ asked' = asked
  BY DEF Handled
<1>3. asked' \in SUBSET Request
  BY <1>2 DEF TypeInv
<1> QED BY <1>1, <1>2, <1>3, ContinuePlain

\* Each handler maps the node of its actor to a table of the same node.
LEMMA HandlersKeepIdentity ==
  ASSUME NEW s \in NodeState
  PROVE  /\ \A m \in RequestVoteResponseMsg :
              LET u == HandleRequestVoteResponse(s, m) IN u \in NodeState /\ u.id = s.id
         /\ \A m \in PreVoteMsg :
              LET u == HandlePreVote(s, m) IN u \in NodeState /\ u.id = s.id
         /\ \A m \in PreVoteResponseMsg :
              LET u == HandlePreVoteResponse(s, m) IN u \in NodeState /\ u.id = s.id
         /\ \A m \in AppendEntriesMsg :
              LET u == HandleAppendEntries(s, m) IN u \in NodeState /\ u.id = s.id
         /\ \A m \in AppendEntriesResponseMsg :
              LET u == HandleAppendEntriesResponse(s, m) IN u \in NodeState /\ u.id = s.id
         /\ \A m \in InstallSnapshotMsg :
              LET u == HandleInstallSnapshot(s, m) IN u \in NodeState /\ u.id = s.id
         /\ \A m \in InstallSnapshotResponseMsg :
              LET u == HandleInstallSnapshotResponse(s, m) IN u \in NodeState /\ u.id = s.id
<1>0. \A t \in Nat : BecomeFollower(s, t).id = s.id
  BY BecomeFollowerType
<1>1. \A m \in RequestVoteResponseMsg :
        HandleRequestVoteResponse(s, m) \in NodeState /\ HandleRequestVoteResponse(s, m).id = s.id
  <2> TAKE m \in RequestVoteResponseMsg
  <2> DEFINE w == [s EXCEPT !.votes = @ \cup {m.from}]
  <2>1. m.term \in Nat /\ m.from \in Node
    BY DEF RequestVoteResponseMsg
  <2>2. w \in NodeState /\ w.id = s.id
    BY <2>1 DEF NodeState
  <2>3. HandleRequestVoteResponse(s, m) \in {BecomeFollower(s, m.term), MaybeWinElection(w), s}
    BY DEF HandleRequestVoteResponse
  <2> HIDE DEF w
  <2> QED BY <1>0, <2>1, <2>2, <2>3, ElectionIdentity, HandleRequestVoteResponseType
<1>2. \A m \in PreVoteMsg :
        HandlePreVote(s, m) \in NodeState /\ HandlePreVote(s, m).id = s.id
  BY HandlePreVoteType DEF Core
<1>3. \A m \in PreVoteResponseMsg :
        HandlePreVoteResponse(s, m) \in NodeState /\ HandlePreVoteResponse(s, m).id = s.id
  <2> TAKE m \in PreVoteResponseMsg
  <2> DEFINE w == [s EXCEPT !.prevotes = @ \cup {m.from}]
  <2>1. m.term \in Nat /\ m.from \in Node
    BY DEF PreVoteResponseMsg
  <2>2. w \in NodeState /\ w.id = s.id
    BY <2>1, PrevoteCounted DEF Core
  <2>3. HandlePreVoteResponse(s, m)
          \in {BecomeFollower(s, m.term), MaybeStartRealElection(w), s}
    BY DEF HandlePreVoteResponse
  <2> HIDE DEF w
  <2> QED BY <1>0, <2>1, <2>2, <2>3, ElectionIdentity, HandlePreVoteResponseType
<1>4. \A m : m.term \in Nat /\ m.from \in Node => FollowLeader(s, m).id = s.id
  BY <1>0, FollowLeaderType DEF Core
<1>5. \A m \in AppendEntriesMsg :
        HandleAppendEntries(s, m) \in NodeState /\ HandleAppendEntries(s, m).id = s.id
  <2> TAKE m \in AppendEntriesMsg
  <2>1. m.term \in Nat /\ m.from \in Node
    BY DEF AppendEntriesMsg
  <2> QED BY <1>4, <2>1, HandleAppendEntriesType DEF VoteCore
<1>6. \A m \in AppendEntriesResponseMsg :
        /\ HandleAppendEntriesResponse(s, m) \in NodeState
        /\ HandleAppendEntriesResponse(s, m).id = s.id
  <2> TAKE m \in AppendEntriesResponseMsg
  <2>1. m.term \in Nat
    BY DEF AppendEntriesResponseMsg
  <2> QED BY <1>0, <2>1, HandleAppendEntriesResponseType DEF VoteCore
<1>7. \A m \in InstallSnapshotMsg :
        HandleInstallSnapshot(s, m) \in NodeState /\ HandleInstallSnapshot(s, m).id = s.id
  <2> TAKE m \in InstallSnapshotMsg
  <2>1. m.term \in Nat /\ m.from \in Node
    BY DEF InstallSnapshotMsg
  <2> QED BY <1>4, <2>1, HandleInstallSnapshotType DEF Core
<1>8. \A m \in InstallSnapshotResponseMsg :
        /\ HandleInstallSnapshotResponse(s, m) \in NodeState
        /\ HandleInstallSnapshotResponse(s, m).id = s.id
  <2> TAKE m \in InstallSnapshotResponseMsg
  <2>1. m.term \in Nat
    BY DEF InstallSnapshotResponseMsg
  <2> QED BY <1>0, <2>1, HandleInstallSnapshotResponseType DEF VoteCore
<1> QED BY <1>1, <1>2, <1>3, <1>5, <1>6, <1>7, <1>8

\* Every message a running node takes from its mailbox keeps the types.
LEMMA ReceiveType ==
  ASSUME TypeInv, NEW n \in Node, ReceiveAny(n)
  PROVE  TypeInv'
<1> DEFINE s == node[n]
           m == Head(inbox[n])
<1>1. s \in NodeState /\ s.id = n
  BY DEF TypeInv
<1>2. inbox[n] # <<>>
  BY DEF ReceiveAny, Receives, ReceiveRequestVote, ReceiveRequestVoteResponse,
         ReceivePreVote, ReceivePreVoteResponse, ReceiveAppendEntries,
         ReceiveAppendEntriesResponse, ReceiveInstallSnapshot, ReceiveInstallSnapshotResponse
<1>3. m \in Message /\ Tail(inbox[n]) \in Seq(Message)
  BY <1>2, ReceivedType
<1>4. CASE ReceiveRequestVote(n)
  <2>1. m \in RequestVoteMsg
    BY <1>3, <1>4, MessageFields DEF ReceiveRequestVote, Receives
  <2> DEFINE v == Voted(s, m)
             r == VoteAnswer(s, m)
  <2>2. v \in NodeState /\ v.id = n /\ r \in RequestVoteResponseMsg /\ m.from \in Node
    BY <1>1, <2>1, VotedType DEF RequestVoteMsg
  <2>3. Handled(n, Send(v, m.from, r))
    BY <1>4, HandleRequestVoteIs DEF ReceiveRequestVote
  <2> HIDE DEF v, r, m, s
  <2>4. /\ Cleaned(v) \in NodeState /\ Cleaned(v).id = n /\ Cleaned(v).out = Nothing
    BY <2>2, CleanedType
  <2>5. /\ Cleaned(Send(v, m.from, r)) = Cleaned(v)
        /\ Send(v, m.from, r).out \in [Node -> Seq(Message)]
    BY <2>2, VotedOut
  <2>6. /\ Continue(n, Send(v, m.from, r), Tail(inbox[n]))
        /\ partitions' = partitions /\ asked' \in SUBSET Request
    BY <2>3 DEF Handled, TypeInv
  <2> QED BY <1>3, <2>4, <2>5, <2>6, ContinueType
<1>5. CASE ReceiveRequestVoteResponse(n)
  <2>1. m \in RequestVoteResponseMsg
    BY <1>3, <1>5, MessageFields DEF ReceiveRequestVoteResponse, Receives
  <2> QED BY <1>1, <1>2, <1>5, <2>1, HandlersKeepIdentity, HandledType
          DEF ReceiveRequestVoteResponse
<1>6. CASE ReceivePreVote(n)
  <2>1. m \in PreVoteMsg
    BY <1>3, <1>6, MessageFields DEF ReceivePreVote, Receives
  <2> QED BY <1>1, <1>2, <1>6, <2>1, HandlersKeepIdentity, HandledType DEF ReceivePreVote
<1>7. CASE ReceivePreVoteResponse(n)
  <2>1. m \in PreVoteResponseMsg
    BY <1>3, <1>7, MessageFields DEF ReceivePreVoteResponse, Receives
  <2> QED BY <1>1, <1>2, <1>7, <2>1, HandlersKeepIdentity, HandledType
          DEF ReceivePreVoteResponse
<1>8. CASE ReceiveAppendEntries(n)
  <2>1. m \in AppendEntriesMsg
    BY <1>3, <1>8, MessageFields DEF ReceiveAppendEntries, Receives
  <2> QED BY <1>1, <1>2, <1>8, <2>1, HandlersKeepIdentity, HandledType
          DEF ReceiveAppendEntries
<1>9. CASE ReceiveAppendEntriesResponse(n)
  <2>1. m \in AppendEntriesResponseMsg
    BY <1>3, <1>9, MessageFields DEF ReceiveAppendEntriesResponse, Receives
  <2> QED BY <1>1, <1>2, <1>9, <2>1, HandlersKeepIdentity, HandledType
          DEF ReceiveAppendEntriesResponse
<1>10. CASE ReceiveInstallSnapshot(n)
  <2>1. m \in InstallSnapshotMsg
    BY <1>3, <1>10, MessageFields DEF ReceiveInstallSnapshot, Receives
  <2> QED BY <1>1, <1>2, <1>10, <2>1, HandlersKeepIdentity, HandledType
          DEF ReceiveInstallSnapshot
<1>11. CASE ReceiveInstallSnapshotResponse(n)
  <2>1. m \in InstallSnapshotResponseMsg
    BY <1>3, <1>11, MessageFields DEF ReceiveInstallSnapshotResponse, Receives
  <2> QED BY <1>1, <1>2, <1>11, <2>1, HandlersKeepIdentity, HandledType
          DEF ReceiveInstallSnapshotResponse
<1> QED BY <1>4, <1>5, <1>6, <1>7, <1>8, <1>9, <1>10, <1>11 DEF ReceiveAny

LEMMA NewStateType ==
  ASSUME NEW n \in Node, NEW up \in BOOLEAN, NEW term \in Nat, NEW vote \in NodeOrNone,
         NEW log \in Log, NEW snap \in Snapshot, NEW reps \in Replies,
         NEW bs \in SUBSET Ballot, NEW es \in SUBSET Nat
  PROVE  LET s == NewState(n, up, term, vote, log, snap, reps, bs, es)
         IN  /\ s \in NodeState /\ s.id = n /\ s.out = Nothing
             /\ s.peers = InitPeers[n] /\ s.learners = InitLearners[n]
             /\ s.role = "follower" /\ s.currentTerm = term /\ s.votedFor = vote
             /\ s.ballots = bs /\ s.elected = es
<1>1. InitPeers[n] \in SUBSET Node /\ InitLearners[n] \in SUBSET Node
  BY PeersAssumption, LearnersAssumption
<1>2. snap.index \in Nat /\ snap.data \in History
  BY DEF Snapshot
<1>3. "follower" \in Role /\ None \in NodeOrNone /\ {} \in SUBSET Node
  BY DEF Role, NodeOrNone
<1> DEFINE zero == [p \in Node |-> 0]
<1>4. zero \in Progress
  BY DEF Progress
<1>5. NewState(n, up, term, vote, log, snap, reps, bs, es) =
        [id |-> n, running |-> up, peers |-> InitPeers[n], learners |-> InitLearners[n],
         role |-> "follower", currentTerm |-> term, votedFor |-> vote, leaderId |-> None,
         commitIndex |-> snap.index, lastApplied |-> snap.index,
         lastSnapshotIndex |-> snap.index, nextIndex |-> zero, matchIndex |-> zero,
         votes |-> {}, prevotes |-> {}, electionEpoch |-> 0, ticker |-> up,
         pending |-> EmptyLog, log |-> log, snap |-> snap, sm |-> snap.data,
         out |-> Nothing, replies |-> reps, ballots |-> bs, elected |-> es]
  BY DEF NewState
<1> HIDE DEF zero
<1> QED BY <1>1, <1>2, <1>3, <1>4, <1>5, EmptyLogType, NothingType DEF NodeState

LEMMA InitType == Init => TypeInv
<1> SUFFICES ASSUME Init PROVE TypeInv
  OBVIOUS
<1> DEFINE reps == [r \in Request |-> <<>>]
           none == [index |-> 0, term |-> 0, data |-> <<>>]
<1>1. reps \in Replies
  <2>1. <<>> \in Seq(Outcome)
    BY EmptySeq
  <2> QED BY <2>1 DEF Replies
<1>2. NoSnapshot \in Snapshot
  <2>1. <<>> \in History
    BY EmptySeq DEF History
  <2> QED BY <2>1 DEF NoSnapshot, Snapshot
<1>3. None \in NodeOrNone
  BY DEF NodeOrNone
<1>4. node = [n \in Node |-> NewState(n, n \in Started, 0, None, EmptyLog, NoSnapshot,
                                      reps, {}, {})]
  BY DEF Init
<1> HIDE DEF reps
<1>5. \A n \in Node : /\ node[n] \in NodeState
                      /\ node[n].id = n /\ node[n].out = Nothing
  <2> TAKE n \in Node
  <2>1. node[n] = NewState(n, n \in Started, 0, None, EmptyLog, NoSnapshot, reps, {}, {})
    BY <1>4
  <2>2. PICK up \in BOOLEAN : up = (n \in Started)
    <3>1. CASE n \in Started
      <4> WITNESS TRUE \in BOOLEAN
      <4> QED BY <3>1
    <3>2. CASE n \notin Started
      <4>1. (n \in Started) \in BOOLEAN
        OBVIOUS
      <4>2. (n \in Started) = FALSE
        BY <3>2, <4>1, SMT
      <4> WITNESS FALSE \in BOOLEAN
      <4> QED BY <4>2
    <3> QED BY <3>1, <3>2
  <2>3. node[n] = NewState(n, up, 0, None, EmptyLog, NoSnapshot, reps, {}, {})
    BY <2>1, <2>2
  <2>4. {} \in SUBSET Ballot /\ {} \in SUBSET Nat /\ 0 \in Nat
    OBVIOUS
  <2> QED BY <1>1, <1>2, <1>3, <2>3, <2>4, EmptyLogType, NewStateType
<1>6. node \in [Node -> NodeState]
  BY <1>4, <1>5
<1>7. inbox \in [Node -> Seq(Message)]
  <2>1. <<>> \in Seq(Message)
    BY EmptySeq
  <2> QED BY <2>1 DEF Init
<1>8. partitions = {} /\ asked = {}
  BY DEF Init
<1> QED BY <1>5, <1>6, <1>7, <1>8 DEF TypeInv

\* A restarted node: its table is rebuilt from what the file holds.
LEMMA StartIs ==
  ASSUME TypeInv, NEW n \in Node, Start(n)
  PROVE  \E w \in NodeState :
           /\ node' = [node EXCEPT ![n] = w]
           /\ w.id = n /\ w.out = Nothing /\ w.role = "follower"
           /\ w.peers = InitPeers[n] /\ w.learners = InitLearners[n]
           /\ w.currentTerm = node[n].currentTerm /\ w.votedFor = node[n].votedFor
           /\ w.ballots = node[n].ballots /\ w.elected = node[n].elected
<1> DEFINE s == node[n]
           w == NewState(n, TRUE, s.currentTerm, s.votedFor, s.log, s.snap,
                         s.replies, s.ballots, s.elected)
<1>1. s \in NodeState
  BY DEF TypeInv
<1>2. /\ s.currentTerm \in Nat /\ s.votedFor \in NodeOrNone /\ s.log \in Log
      /\ s.snap \in Snapshot /\ s.replies \in Replies
      /\ s.ballots \in SUBSET Ballot /\ s.elected \in SUBSET Nat
  BY <1>1 DEF NodeState
<1>3. node' = [node EXCEPT ![n] = w]
  BY DEF Start
<1>4. /\ w \in NodeState /\ w.id = n /\ w.out = Nothing /\ w.role = "follower"
      /\ w.peers = InitPeers[n] /\ w.learners = InitLearners[n]
      /\ w.currentTerm = s.currentTerm /\ w.votedFor = s.votedFor
      /\ w.ballots = s.ballots /\ w.elected = s.elected
  <2>1. PICK up \in BOOLEAN : up = TRUE
    OBVIOUS
  <2>2. w = NewState(n, up, s.currentTerm, s.votedFor, s.log, s.snap,
                     s.replies, s.ballots, s.elected)
    BY <2>1
  <2> HIDE DEF w, s
  <2> QED BY <1>2, <2>2, NewStateType
<1> HIDE DEF w
<1> QED BY <1>3, <1>4

LEMMA StartType ==
  ASSUME TypeInv, NEW n \in Node, Start(n)
  PROVE  TypeInv'
<1>1. PICK w \in NodeState : node' = [node EXCEPT ![n] = w] /\ w.id = n /\ w.out = Nothing
  BY StartIs
<1>2. inbox' \in [Node -> Seq(Message)]
  <2>1. PICK k \in 1 .. Len(inbox[n]) + 1 :
          inbox' = [inbox EXCEPT ![n] = SubSeq(@, k, Len(@))]
    BY DEF Start
  <2>2. inbox \in [Node -> Seq(Message)] /\ Len(inbox[n]) \in Nat
    BY LenProperties DEF TypeInv
  <2>3. SubSeq(inbox[n], k, Len(inbox[n])) \in Seq(Message)
    BY <2>1, <2>2, SubSeqProperties
  <2> QED BY <2>1, <2>2, <2>3
<1>3. partitions' = partitions /\ asked' = asked
  BY DEF Start
<1> QED BY <1>1, <1>2, <1>3 DEF TypeInv

\* The tick of ElectionTimeout is used up.
LEMMA TickUsed ==
  ASSUME NEW s \in NodeState
  PROVE  LET t == [s EXCEPT !.ticker = FALSE]
         IN  t \in NodeState /\ Core(t) = Core(s) /\ t.id = s.id
BY DEF NodeState, Core

LEMMA OtherStepsType ==
  ASSUME TypeInv, NEW n \in Node,
         \/ ElectionTimeout(n) \/ HeartbeatTick(n)
         \/ \E r \in Request : Ask(n, r)
         \/ SnapshotNow(n) \/ Stop(n)
  PROVE  TypeInv'
<1>1. /\ node[n] \in NodeState /\ node[n].id = n /\ inbox[n] \in Seq(Message)
      /\ asked \in SUBSET Request
  BY DEF TypeInv
<1>2. CASE ElectionTimeout(n)
  <2> DEFINE t == [node[n] EXCEPT !.ticker = FALSE]
             u == IF t.role = "leader" THEN t ELSE StartElection(t)
  <2>1. t \in NodeState /\ t.id = n
    BY <1>1, TickUsed
  <2>2. Continue(n, u, inbox[n]) /\ partitions' = partitions /\ asked' = asked
    BY <1>2 DEF ElectionTimeout
  <2> HIDE DEF t
  <2>3. u \in NodeState /\ u.id = n
    BY <2>1, StartElectionType, ElectionIdentity
  <2> HIDE DEF u
  <2> QED BY <1>1, <2>2, <2>3, ContinuePlain
<1>3. CASE HeartbeatTick(n)
  <2>1. ReplicateToPeers(node[n]) \in NodeState /\ ReplicateToPeers(node[n]).id = n
    BY <1>1, ReplicateToPeersType DEF Core
  <2> QED BY <1>1, <1>3, <2>1, ContinuePlain DEF HeartbeatTick
<1>4. CASE \E r \in Request : Ask(n, r)
  <2>1. PICK r \in Request : Ask(n, r)
    BY <1>4
  <2>2. ClientAppend(node[n], r) \in NodeState /\ ClientAppend(node[n], r).id = n
    BY <1>1, ClientAppendType DEF VoteCore
  <2>3. asked' \in SUBSET Request
    BY <1>1, <2>1 DEF Ask
  <2> QED BY <1>1, <2>1, <2>2, <2>3, ContinuePlain DEF Ask
<1>5. CASE SnapshotNow(n)
  <2>1. DoSnapshot(node[n]) \in NodeState /\ DoSnapshot(node[n]).id = n
    BY <1>1, DoSnapshotType DEF Core
  <2> QED BY <1>1, <1>5, <2>1, ContinuePlain DEF SnapshotNow
<1>6. CASE Stop(n)
  <2> DEFINE w == [node[n] EXCEPT !.running = FALSE, !.ticker = FALSE]
  <2>1. w \in NodeState /\ w.id = n /\ w.out = node[n].out
    BY <1>1 DEF NodeState
  <2>2. node' = [node EXCEPT ![n] = w]
    BY <1>6 DEF Stop, TypeInv
  <2>3. inbox' = inbox /\ partitions' = partitions /\ asked' = asked
    BY <1>6 DEF Stop
  <2> HIDE DEF w
  <2> QED BY <1>1, <2>1, <2>2, <2>3 DEF TypeInv
<1> QED BY <1>2, <1>3, <1>4, <1>5, <1>6

\* Every step of the system keeps the types.
LEMMA NextType ==
  ASSUME TypeInv, [Next]_vars
  PROVE  TypeInv'
<1>1. CASE \E n \in Node : ReceiveAny(n)
  BY <1>1, ReceiveType
<1>2. CASE \E n \in Node : ElectionTimeout(n) \/ HeartbeatTick(n)
                          \/ SnapshotNow(n) \/ Stop(n)
  BY <1>2, OtherStepsType
<1>7. CASE \E n \in Node, r \in Request : Ask(n, r)
  BY <1>7, OtherStepsType
<1>3. CASE \E n \in Node : Start(n)
  BY <1>3, StartType
<1>4. CASE \E a, b \in Node : Partition(a, b)
  BY <1>4 DEF Partition, TypeInv
<1>5. CASE \E a, b \in Node : Heal(a, b)
  BY <1>5 DEF Heal, TypeInv
<1>6. CASE UNCHANGED vars
  BY <1>6 DEF vars, TypeInv
<1> QED BY <1>1, <1>2, <1>3, <1>4, <1>5, <1>6, <1>7 DEF Next

\* A log in the sense of the sets above is one in the sense of TypeOK.
LEMMA LogIsLog ==
  ASSUME NEW f \in Log
  PROVE  IsLog(f)
<1>1. PICK D \in FiniteIndexSet : f \in [D -> Entry]
  BY DEF Log
<1> QED BY <1>1 DEF FiniteIndexSet, IsLog

LEMMA MessageIsMessage ==
  ASSUME NEW m \in Message
  PROVE  IsMessage(m)
<1>1. CASE m \in RequestVoteMsg
  BY <1>1 DEF RequestVoteMsg, IsMessage
<1>2. CASE m \in RequestVoteResponseMsg
  BY <1>2 DEF RequestVoteResponseMsg, IsMessage
<1>3. CASE m \in PreVoteMsg
  BY <1>3 DEF PreVoteMsg, IsMessage
<1>4. CASE m \in PreVoteResponseMsg
  BY <1>4 DEF PreVoteResponseMsg, IsMessage
<1>5. CASE m \in AppendEntriesMsg
  BY <1>5, LogIsLog DEF AppendEntriesMsg, IsMessage
<1>6. CASE m \in AppendEntriesResponseMsg
  BY <1>6 DEF AppendEntriesResponseMsg, IsMessage
<1>7. CASE m \in InstallSnapshotMsg
  BY <1>7 DEF InstallSnapshotMsg, IsMessage, IsHistory, History
<1>8. CASE m \in InstallSnapshotResponseMsg
  BY <1>8 DEF InstallSnapshotResponseMsg, IsMessage
<1> QED BY <1>1, <1>2, <1>3, <1>4, <1>5, <1>6, <1>7, <1>8 DEF Message, PlainMsg

LEMMA TypeInvImpliesTypeOK == TypeInv => TypeOK
<1> SUFFICES ASSUME TypeInv PROVE TypeOK
  OBVIOUS
<1>1. ASSUME NEW n \in Node
      PROVE  LET s == node[n] IN
       /\ s.id = n /\ s.running \in BOOLEAN /\ s.ticker \in BOOLEAN
       /\ s.peers \subseteq Node /\ s.learners \subseteq Node
       /\ s.role \in Role /\ s.currentTerm \in Nat
       /\ s.votedFor \in Node \cup {None} /\ s.leaderId \in Node \cup {None}
       /\ {s.commitIndex, s.lastApplied, s.lastSnapshotIndex, s.electionEpoch} \subseteq Nat
       /\ s.nextIndex \in [Node -> Nat] /\ s.matchIndex \in [Node -> Nat]
       /\ s.votes \subseteq Node /\ s.prevotes \subseteq Node
       /\ IsLog(s.log) /\ IsHistory(s.sm)
       /\ s.snap.index \in Nat /\ s.snap.term \in Nat /\ IsHistory(s.snap.data)
       /\ DOMAIN s.pending \subseteq Index
       /\ \A k \in DOMAIN s.pending : s.pending[k] \in Request
       /\ s.replies \in [Request -> Seq(Outcome)]
       /\ s.out = Nothing
       /\ s.ballots \subseteq Ballot /\ s.elected \subseteq Nat
  <2>1. node[n] \in NodeState /\ node[n].id = n /\ node[n].out = Nothing
    BY DEF TypeInv
  <2> DEFINE s == node[n]
  <2>2. /\ s.running \in BOOLEAN /\ s.ticker \in BOOLEAN
        /\ s.peers \subseteq Node /\ s.learners \subseteq Node
        /\ s.role \in Role /\ s.currentTerm \in Nat
        /\ s.votedFor \in Node \cup {None} /\ s.leaderId \in Node \cup {None}
        /\ {s.commitIndex, s.lastApplied, s.lastSnapshotIndex, s.electionEpoch} \subseteq Nat
        /\ s.votes \subseteq Node /\ s.prevotes \subseteq Node
        /\ s.ballots \subseteq Ballot /\ s.elected \subseteq Nat
    BY <2>1 DEF NodeState, NodeOrNone
  <2>3. s.nextIndex \in [Node -> Nat] /\ s.matchIndex \in [Node -> Nat]
    BY <2>1 DEF NodeState, Progress
  <2>4. IsLog(s.log)
    BY <2>1, LogIsLog DEF NodeState
  <2>5. IsHistory(s.sm)
    BY <2>1 DEF NodeState, IsHistory, History
  <2>6. s.snap.index \in Nat /\ s.snap.term \in Nat /\ IsHistory(s.snap.data)
    BY <2>1 DEF NodeState, Snapshot, IsHistory, History
  <2>7. s.pending \in Pending
    BY <2>1 DEF NodeState
  <2>8. DOMAIN s.pending \subseteq Index /\ \A k \in DOMAIN s.pending : s.pending[k] \in Request
    BY <2>7 DEF Pending
  <2>9. s.replies \in [Request -> Seq(Outcome)]
    BY <2>1 DEF NodeState, Replies
  <2> QED BY <2>1, <2>2, <2>3, <2>4, <2>5, <2>6, <2>8, <2>9
<1>2. ASSUME NEW n \in Node, NEW k \in 1 .. Len(inbox[n])
      PROVE  IsMessage(inbox[n][k])
  <2>1. inbox[n] \in Seq(Message)
    BY DEF TypeInv
  <2>2. inbox[n][k] \in Message
    BY <2>1, ElementOfSeq
  <2> QED BY <2>2, MessageIsMessage
<1>3. partitions \subseteq (Node \X Node) /\ asked \subseteq Request
  BY DEF TypeInv
<1> QED BY <1>1, <1>2, <1>3 DEF TypeOK

THEOREM TypeInvariant == Spec => []TypeInv
<1>1. TypeInv /\ [Next]_vars => TypeInv'
  BY NextType
<1> QED BY <1>1, InitType, PTL DEF Spec

\* For every cluster, workload and bound, the tables of the nodes' actors and
\* the messages between them keep the kinds of values the handlers of core.scm
\* are written for.
THEOREM TypeCorrect == Spec => []TypeOK
BY TypeInvariant, TypeInvImpliesTypeOK, PTL

-----------------------------------------------------------------------------
(***************************************************************************)
(* Invariants.                                                             *)
(***************************************************************************)

\* A node's ballots: one per term, none of a later term than its own, and the
\* one of its own term is its votedFor.
VoteOK(s) ==
  /\ \A b \in s.ballots : b[1] <= s.currentTerm
  /\ \A b \in s.ballots : b[1] = s.currentTerm => b[2] = s.votedFor
  /\ \A b, c \in s.ballots : b[1] = c[1] => b[2] = c[2]

Voter == Node \ UNION {InitLearners[n] : n \in Node}

\* Every node is built with the same members, and no change is ever asked for.
StaticCluster ==
  /\ Change = {}
  /\ \A n \in Node : InitPeers[n] = Voter \ {n} /\ InitLearners[n] = Node \ Voter

\* Candidate c has votes of a majority for term e, in the record B of all votes.
Elected(e, c, B) ==
  \E Q \in SUBSET Voter : /\ HasMajority(Cardinality(Q), Cardinality(Voter))
                          /\ \A j \in Q : <<e, c>> \in B[j]

ElectOK(s, B) ==
  /\ s.peers = Voter \ {s.id} /\ s.learners = Node \ Voter
  /\ s.role \in {"pre-candidate", "candidate"} => s.id \in Voter
  /\ s.role = "candidate" =>
       s.votes \subseteq Voter /\ \A j \in s.votes : <<s.currentTerm, s.id>> \in B[j]
  /\ \A e \in s.elected : Elected(e, s.id, B)

\* A vote on its way to p is on record with its voter.
Backed(m, p, B) ==
  m.type = "request-vote-response" /\ m.granted =>
    m.from \in Voter /\ <<m.term, p>> \in B[m.from]

AllBacked(q, p, B) == \A k \in 1 .. Len(q) : Backed(q[k], p, B)

Record == [j \in Node |-> node[j].ballots]

VoteInv == TypeInv /\ \A n \in Node : VoteOK(node[n])

ElectInv ==
  /\ VoteInv
  /\ \A n \in Node : ElectOK(node[n], Record)
  /\ \A n \in Node : AllBacked(inbox[n], n, Record)

(***************************************************************************)
(* One operator may take a table s to u: it keeps what is on record, the   *)
(* two invariants of the table, and its identity.  B is the record after.  *)
(***************************************************************************)
VoteSound(s, u) ==
  /\ u.id = s.id
  /\ s.ballots \subseteq u.ballots
  /\ VoteOK(s) => VoteOK(u)

Sound(s, u, B) ==
  /\ VoteSound(s, u)
  /\ StaticCluster /\ ElectOK(s, B) /\ u.ballots \subseteq B[s.id] => ElectOK(u, B)

LEMMA SoundTrans ==
  ASSUME NEW s, NEW t, NEW u, NEW B, Sound(s, t, B), Sound(t, u, B)
  PROVE  Sound(s, u, B)
BY DEF Sound, VoteSound

LEMMA SoundSelf ==
  ASSUME NEW s, NEW B
  PROVE  Sound(s, s, B)
BY DEF Sound, VoteSound

LEMMA SoundCore ==
  ASSUME NEW s \in NodeState, NEW u \in NodeState, NEW B,
         VoteCore(u) = VoteCore(s), Change = {} => Core(u) = Core(s)
  PROVE  Sound(s, u, B)
<1>1. u.id = s.id /\ u.ballots = s.ballots
  BY DEF VoteCore
<1>2. VoteOK(s) => VoteOK(u)
  BY DEF VoteCore, VoteOK
<1>3. StaticCluster /\ ElectOK(s, B) => ElectOK(u, B)
  BY DEF StaticCluster, Core, ElectOK
<1> QED BY <1>1, <1>2, <1>3 DEF Sound, VoteSound

LEMMA SoundSameCore ==
  ASSUME NEW s \in NodeState, NEW u \in NodeState, NEW B, Core(u) = Core(s)
  PROVE  Sound(s, u, B)
<1>1. VoteCore(u) = VoteCore(s)
  BY DEF Core, VoteCore
<1> QED BY <1>1, SoundCore

\* Ballots are pairs of a term and a node.
LEMMA BallotType ==
  ASSUME NEW s \in NodeState, NEW b \in s.ballots
  PROVE  b[1] \in Nat /\ b[2] \in Node /\ b = <<b[1], b[2]>>
<1>1. b \in Nat \X Node
  BY DEF NodeState, Ballot
<1> QED BY <1>1

LEMMA SoundBecomeFollower ==
  ASSUME NEW s \in NodeState, NEW t \in Nat, NEW B
  PROVE  Sound(s, BecomeFollower(s, t), B)
<1> DEFINE u == BecomeFollower(s, t)
<1>1. /\ u \in NodeState /\ u.id = s.id /\ u.peers = s.peers /\ u.learners = s.learners
      /\ u.role = "follower" /\ u.elected = s.elected /\ u.ballots = s.ballots
      /\ u.currentTerm = IF t > s.currentTerm THEN t ELSE s.currentTerm
      /\ u.votedFor = IF t > s.currentTerm THEN None ELSE s.votedFor
  BY BecomeFollowerType
<1>2. s.currentTerm \in Nat
  BY DEF NodeState
<1> HIDE DEF u
<1>3. ASSUME VoteOK(s) PROVE VoteOK(u)
  <2>1. \A b \in s.ballots : b[1] \in Nat /\ b[1] <= s.currentTerm
    BY <1>3, BallotType DEF VoteOK
  <2>2. CASE t > s.currentTerm
    <3>1. u.currentTerm = t
      BY <1>1, <2>2
    <3>2. \A b \in s.ballots : b[1] <= t /\ b[1] # t
      BY <1>2, <2>1, <2>2
    <3> QED BY <1>1, <1>3, <3>1, <3>2 DEF VoteOK
  <2>3. CASE ~ (t > s.currentTerm)
    BY <1>1, <1>3, <2>3 DEF VoteOK
  <2> QED BY <2>2, <2>3
<1>4. ElectOK(s, B) => ElectOK(u, B)
  BY <1>1 DEF ElectOK
<1> QED BY <1>1, <1>3, <1>4 DEF Sound, VoteSound, u

\* A new candidate votes for itself, in a term it has no ballot of.
LEMMA SoundCandidate ==
  ASSUME NEW s \in NodeState, NEW B, s.role = "pre-candidate"
  PROVE  Sound(s, Candidate(s), B)
<1> DEFINE u == Candidate(s)
<1>1. /\ u \in NodeState /\ u.id = s.id /\ u.peers = s.peers /\ u.learners = s.learners
      /\ u.role = "candidate" /\ u.votes = {s.id} /\ u.elected = s.elected
      /\ u.ballots = s.ballots \cup {<<s.currentTerm + 1, s.id>>}
      /\ u.currentTerm = s.currentTerm + 1 /\ u.votedFor = s.id
  BY CandidateType
<1>2. s.currentTerm \in Nat
  BY DEF NodeState
<1> HIDE DEF u
<1>3. ASSUME VoteOK(s) PROVE VoteOK(u)
  <2>1. \A b \in s.ballots : b[1] \in Nat /\ b[1] <= s.currentTerm
    BY <1>3, BallotType DEF VoteOK
  <2>2. \A b \in s.ballots : b[1] <= s.currentTerm + 1 /\ b[1] # s.currentTerm + 1
    BY <1>2, <2>1
  <2>3. \A b \in u.ballots : b \in s.ballots
                               \/ (b[1] = s.currentTerm + 1 /\ b[2] = s.id)
    BY <1>1
  <2> QED BY <1>1, <1>2, <1>3, <2>2, <2>3 DEF VoteOK
<1>4. ElectOK(s, B) /\ u.ballots \subseteq B[s.id] => ElectOK(u, B)
  BY <1>1 DEF ElectOK
<1> QED BY <1>1, <1>3, <1>4 DEF Sound, VoteSound, u

\* A candidate wins: its votes are the majority on record.
LEMMA SoundMaybeWinElection ==
  ASSUME NEW s \in NodeState, NEW B
  PROVE  Sound(s, MaybeWinElection(s), B)
<1>1. CASE ~ (s.role = "candidate" /\ HasMajority(Cardinality(s.votes), TotalVoters(s)))
  BY <1>1, SoundSelf DEF MaybeWinElection
<1>2. CASE s.role = "candidate" /\ HasMajority(Cardinality(s.votes), TotalVoters(s))
  <2> DEFINE u == BecomeLeader(s)
  <2>1. /\ u \in NodeState /\ u.id = s.id /\ u.peers = s.peers /\ u.learners = s.learners
        /\ u.role = "leader" /\ u.elected = s.elected \cup {s.currentTerm}
        /\ u.ballots = s.ballots /\ u.currentTerm = s.currentTerm /\ u.votedFor = s.votedFor
    BY BecomeLeaderType
  <2>2. MaybeWinElection(s) = u
    BY <1>2 DEF MaybeWinElection
  <2> HIDE DEF u
  <2>3. VoteOK(s) => VoteOK(u)
    BY <2>1 DEF VoteOK
  <2>4. ASSUME ElectOK(s, B) PROVE ElectOK(u, B)
    <3>1. s.id \in Voter /\ s.votes \subseteq Voter /\ s.peers = Voter \ {s.id}
      BY <1>2, <2>4 DEF ElectOK
    <3>2. IsFiniteSet(Voter)
      BY NodeAssumption, FS_Subset DEF Voter
    <3>3. /\ Cardinality(Voter \ {s.id}) = Cardinality(Voter) - 1
          /\ Cardinality(Voter) \in Nat
      BY <3>1, <3>2, FS_RemoveElement, FS_CardinalityType
    <3>4. TotalVoters(s) = Cardinality(Voter)
      BY <3>1, <3>3 DEF TotalVoters
    <3>5. Elected(s.currentTerm, s.id, B)
      <4>1. \A j \in s.votes : <<s.currentTerm, s.id>> \in B[j]
        BY <1>2, <2>4 DEF ElectOK
      <4> QED BY <1>2, <3>1, <3>4, <4>1 DEF Elected
    <3> QED BY <2>1, <2>4, <3>5 DEF ElectOK
  <2> QED BY <2>1, <2>2, <2>3, <2>4 DEF Sound, VoteSound
<1> QED BY <1>1, <1>2

LEMMA SoundMaybeStartRealElection ==
  ASSUME NEW s \in NodeState, NEW B
  PROVE  Sound(s, MaybeStartRealElection(s), B)
<1>1. CASE MaybeStartRealElection(s) = s
  BY <1>1, SoundSelf
<1>2. CASE s.role = "pre-candidate" /\ MaybeStartRealElection(s) = BecomeCandidateForReal(s)
  <2>1. PICK m \in PlainMsg :
          BecomeCandidateForReal(s) = MaybeWinElection(SendToPeers(Candidate(s), m))
    BY BecomeCandidateForRealIs
  <2> DEFINE c == Candidate(s)
             d == SendToPeers(c, m)
  <2>2. c \in NodeState /\ Sound(s, c, B)
    BY <1>2, CandidateType, SoundCandidate
  <2> HIDE DEF c
  <2>3. d \in NodeState /\ Sound(c, d, B)
    BY <2>2, SendToPeersType, SoundSameCore
  <2> HIDE DEF d
  <2>4. Sound(d, MaybeWinElection(d), B)
    BY <2>3, SoundMaybeWinElection
  <2>5. Sound(s, MaybeWinElection(d), B)
    BY <2>2, <2>3, <2>4, SoundTrans
  <2> QED BY <1>2, <2>1, <2>5 DEF c, d
<1> QED BY <1>1, <1>2 DEF MaybeStartRealElection

\* Only voters stand for election.
LEMMA SoundStartElection ==
  ASSUME NEW s \in NodeState, NEW B
  PROVE  Sound(s, StartElection(s), B)
<1>1. PICK m \in PlainMsg : StartElection(s) =
           IF IsLearner(s) THEN s
           ELSE MaybeStartRealElection(SendToPeers(PreCandidate(s), m))
  BY StartElectionIs
<1>2. CASE IsLearner(s)
  BY <1>1, <1>2, SoundSelf
<1>3. CASE ~ IsLearner(s)
  <2> DEFINE c == PreCandidate(s)
             d == SendToPeers(c, m)
  <2>1. /\ c \in NodeState /\ c.id = s.id /\ c.peers = s.peers /\ c.learners = s.learners
        /\ c.role = "pre-candidate" /\ c.elected = s.elected
        /\ c.ballots = s.ballots /\ c.currentTerm = s.currentTerm
        /\ c.votedFor = s.votedFor
    BY PreCandidateType
  <2>2. StartElection(s) = MaybeStartRealElection(d)
    BY <1>1, <1>3
  <2> HIDE DEF c
  <2>3. Sound(s, c, B)
    <3>1. VoteOK(s) => VoteOK(c)
      BY <2>1 DEF VoteOK
    <3>2. s.id \in Node
      BY DEF NodeState
    <3>3. ElectOK(s, B) => ElectOK(c, B)
      BY <1>3, <2>1, <3>2 DEF ElectOK, IsLearner
    <3> QED BY <2>1, <3>1, <3>3 DEF Sound, VoteSound
  <2>4. d \in NodeState /\ Sound(c, d, B)
    BY <2>1, SendToPeersType, SoundSameCore
  <2> HIDE DEF d
  <2>5. Sound(d, MaybeStartRealElection(d), B)
    BY <2>4, SoundMaybeStartRealElection
  <2>6. Sound(s, d, B)
    BY <2>3, <2>4, SoundTrans
  <2> QED BY <2>2, <2>5, <2>6, SoundTrans
<1> QED BY <1>2, <1>3

(***************************************************************************)
(* The handlers.                                                           *)
(***************************************************************************)

\* Granting a vote: the voter had no ballot of the term, or this one.
LEMMA SoundVoted ==
  ASSUME NEW s \in NodeState, NEW m \in RequestVoteMsg, NEW B
  PROVE  /\ Sound(s, Voted(s, m), B)
         /\ Granted(Updated(s, m), m) =>
              /\ <<Voted(s, m).currentTerm, m.from>> \in Voted(s, m).ballots
              /\ s.id \notin s.learners
<1> DEFINE u == Updated(s, m)
<1>1. m.term \in Nat /\ m.from \in Node /\ m.from # None /\ m.from \in NodeOrNone
  BY NodeAssumption DEF RequestVoteMsg, NodeOrNone
<1>2. u \in NodeState /\ Sound(s, u, B) /\ u.id = s.id /\ u.learners = s.learners
  BY <1>1, BecomeFollowerType, SoundBecomeFollower, SoundSelf DEF Updated
<1>3. Voted(s, m) = IF Granted(u, m)
                    THEN LogSaveMetadata(BecomeFollower(u, u.currentTerm), u.currentTerm, m.from)
                    ELSE u
  BY DEF Voted
<1>4. CASE ~ Granted(u, m)
  BY <1>2, <1>3, <1>4
<1>5. CASE Granted(u, m)
  <2> HIDE DEF u
  <2>0. u.currentTerm \in Nat
    BY <1>2 DEF NodeState
  <2>1. PICK t \in Nat : t = u.currentTerm
    BY <2>0
  <2> DEFINE f == BecomeFollower(u, t)
             v == LogSaveMetadata(f, t, m.from)
  <2>2. /\ f \in NodeState /\ f.id = u.id /\ f.peers = u.peers /\ f.learners = u.learners
        /\ f.role = "follower" /\ f.elected = u.elected /\ f.ballots = u.ballots
        /\ f.currentTerm = t /\ f.votedFor = u.votedFor
    BY <1>2, <2>1, BecomeFollowerType
  <2>3. Voted(s, m) = v
    BY <1>3, <1>5, <2>1
  <2> HIDE DEF f
  <2>4. /\ v.id = f.id /\ v.peers = f.peers /\ v.learners = f.learners
        /\ v.role = "follower" /\ v.elected = f.elected
        /\ v.ballots = f.ballots \cup {<<t, m.from>>}
        /\ v.currentTerm = t /\ v.votedFor = m.from
    BY <1>1, <2>2 DEF LogSaveMetadata, NodeState
  <2> HIDE DEF v
  <2>5. u.votedFor \in {None, m.from} /\ u.id \notin u.learners
    BY <1>5 DEF Granted, IsLearner
  <2>6. ASSUME VoteOK(u) PROVE VoteOK(v)
    <3>1. \A b \in u.ballots : b[1] = t => b[2] = m.from
      <4> TAKE b \in u.ballots
      <4>1. b[2] \in Node /\ b[2] # None
        BY <1>2, BallotType, NodeAssumption
      <4>2. b[1] = t => b[2] = u.votedFor
        BY <2>1, <2>6 DEF VoteOK
      <4> QED BY <2>5, <4>1, <4>2
    <3>2. \A b \in v.ballots : b \in u.ballots \/ (b[1] = t /\ b[2] = m.from)
      BY <2>2, <2>4
    <3>3. \A b \in v.ballots : b[1] <= t
      BY <2>1, <2>6, <3>2 DEF VoteOK
    <3>4. \A b \in v.ballots : b[1] = t => b[2] = m.from
      BY <3>1, <3>2
    <3>5. \A b, c \in v.ballots : b[1] = c[1] => b[2] = c[2]
      BY <2>6, <3>1, <3>2 DEF VoteOK
    <3> QED BY <2>4, <3>3, <3>4, <3>5 DEF VoteOK
  <2>7. ElectOK(u, B) => ElectOK(v, B)
    BY <2>2, <2>4 DEF ElectOK
  <2>8. Sound(u, v, B)
    BY <2>2, <2>4, <2>6, <2>7 DEF Sound, VoteSound
  <2>9. Sound(s, v, B)
    BY <1>2, <2>8, SoundTrans
  <2> QED BY <1>2, <2>3, <2>4, <2>5, <2>9
<1> QED BY <1>4, <1>5

\* Counting a vote that is on record.
LEMMA SoundRequestVoteResponse ==
  ASSUME NEW s \in NodeState, NEW m \in RequestVoteResponseMsg, NEW B
  PROVE  /\ VoteSound(s, HandleRequestVoteResponse(s, m))
         /\ Backed(m, s.id, B) => Sound(s, HandleRequestVoteResponse(s, m), B)
<1> DEFINE w == [s EXCEPT !.votes = @ \cup {m.from}]
<1>1. m.term \in Nat /\ m.from \in Node /\ m.type = "request-vote-response"
  BY DEF RequestVoteResponseMsg
<1>2. /\ w \in NodeState /\ w.id = s.id /\ w.peers = s.peers /\ w.learners = s.learners
      /\ w.role = s.role /\ w.currentTerm = s.currentTerm /\ w.votedFor = s.votedFor
      /\ w.votes = s.votes \cup {m.from} /\ w.ballots = s.ballots /\ w.elected = s.elected
  BY <1>1 DEF NodeState
<1>3. CASE m.term > s.currentTerm
  <2>1. HandleRequestVoteResponse(s, m) = BecomeFollower(s, m.term)
    <3>1. s.currentTerm \in Nat
      BY DEF NodeState
    <3> QED BY <1>1, <1>3, <3>1 DEF HandleRequestVoteResponse
  <2> QED BY <1>1, <2>1, SoundBecomeFollower DEF Sound
<1>4. CASE ~ (m.term > s.currentTerm)
           /\ m.term = s.currentTerm /\ s.role = "candidate" /\ m.granted
  <2>1. HandleRequestVoteResponse(s, m) = MaybeWinElection(w)
    BY <1>4 DEF HandleRequestVoteResponse
  <2> HIDE DEF w
  <2>2. VoteOK(s) => VoteOK(w)
    BY <1>2 DEF VoteOK
  <2>3. Backed(m, s.id, B) /\ ElectOK(s, B) => ElectOK(w, B)
    BY <1>1, <1>2, <1>4 DEF ElectOK, Backed
  <2>4. VoteSound(s, w) /\ (Backed(m, s.id, B) => Sound(s, w, B))
    BY <1>2, <2>2, <2>3 DEF Sound, VoteSound
  <2>5. Sound(w, MaybeWinElection(w), B)
    BY <1>2, SoundMaybeWinElection
  <2>6. VoteSound(s, MaybeWinElection(w))
    BY <2>4, <2>5 DEF Sound, VoteSound
  <2> QED BY <2>1, <2>4, <2>5, <2>6, SoundTrans
<1>5. CASE ~ (m.term > s.currentTerm)
           /\ ~ (m.term = s.currentTerm /\ s.role = "candidate" /\ m.granted)
  <2>1. HandleRequestVoteResponse(s, m) = s
    BY <1>5 DEF HandleRequestVoteResponse
  <2> QED BY <2>1, SoundSelf DEF Sound
<1> QED BY <1>3, <1>4, <1>5

LEMMA SoundPreVoteResponse ==
  ASSUME NEW s \in NodeState, NEW m \in PreVoteResponseMsg, NEW B
  PROVE  Sound(s, HandlePreVoteResponse(s, m), B)
<1> DEFINE w == [s EXCEPT !.prevotes = @ \cup {m.from}]
<1>1. m.term \in Nat /\ m.from \in Node
  BY DEF PreVoteResponseMsg
<1>2. w \in NodeState /\ Sound(s, w, B)
  BY <1>1, PrevoteCounted, SoundSameCore
<1>3. HandlePreVoteResponse(s, m)
        \in {BecomeFollower(s, m.term), MaybeStartRealElection(w), s}
  BY DEF HandlePreVoteResponse
<1> HIDE DEF w
<1>4. Sound(s, MaybeStartRealElection(w), B)
  BY <1>2, SoundMaybeStartRealElection, SoundTrans
<1>5. Sound(s, BecomeFollower(s, m.term), B)
  BY <1>1, SoundBecomeFollower
<1> QED BY <1>3, <1>4, <1>5, SoundSelf

LEMMA SoundFollowLeader ==
  ASSUME NEW s \in NodeState, NEW m, m.term \in Nat, m.from \in Node, NEW B
  PROVE  Sound(s, FollowLeader(s, m), B)
<1> DEFINE f == BecomeFollower(s, m.term)
           u == FollowLeader(s, m)
<1>1. f \in NodeState /\ Sound(s, f, B)
  BY BecomeFollowerType, SoundBecomeFollower
<1>2. u \in NodeState /\ (u = s \/ Core(u) = Core(f))
  BY FollowLeaderType
<1> HIDE DEF f, u
<1>3. CASE u = s
  BY <1>3, SoundSelf DEF u
<1>4. CASE Core(u) = Core(f)
  <2>1. Sound(f, u, B)
    BY <1>1, <1>2, <1>4, SoundSameCore
  <2> QED BY <1>1, <2>1, SoundTrans DEF u
<1> QED BY <1>2, <1>3, <1>4

LEMMA SoundReplication ==
  ASSUME NEW s \in NodeState, NEW B
  PROVE  /\ \A m \in PreVoteMsg : Sound(s, HandlePreVote(s, m), B)
         /\ \A m \in AppendEntriesMsg : Sound(s, HandleAppendEntries(s, m), B)
         /\ \A m \in AppendEntriesResponseMsg : Sound(s, HandleAppendEntriesResponse(s, m), B)
         /\ \A m \in InstallSnapshotMsg : Sound(s, HandleInstallSnapshot(s, m), B)
         /\ \A m \in InstallSnapshotResponseMsg :
              Sound(s, HandleInstallSnapshotResponse(s, m), B)
<1>1. \A m \in PreVoteMsg : Sound(s, HandlePreVote(s, m), B)
  BY HandlePreVoteType, SoundSameCore
<1>2. ASSUME NEW m \in AppendEntriesMsg PROVE Sound(s, HandleAppendEntries(s, m), B)
  <2> DEFINE f == FollowLeader(s, m)
             u == HandleAppendEntries(s, m)
  <2>1. m.term \in Nat /\ m.from \in Node
    BY DEF AppendEntriesMsg
  <2>2. f \in NodeState /\ Sound(s, f, B)
    BY <2>1, FollowLeaderType, SoundFollowLeader
  <2>3. /\ u \in NodeState /\ VoteCore(u) = VoteCore(f)
        /\ Change = {} => Core(u) = Core(f)
    BY HandleAppendEntriesType
  <2> HIDE DEF f, u
  <2>4. Sound(f, u, B)
    BY <2>2, <2>3, SoundCore
  <2> QED BY <2>2, <2>4, SoundTrans DEF u
<1>3. ASSUME NEW m \in InstallSnapshotMsg PROVE Sound(s, HandleInstallSnapshot(s, m), B)
  <2> DEFINE f == FollowLeader(s, m)
             u == HandleInstallSnapshot(s, m)
  <2>1. m.term \in Nat /\ m.from \in Node
    BY DEF InstallSnapshotMsg
  <2>2. f \in NodeState /\ Sound(s, f, B)
    BY <2>1, FollowLeaderType, SoundFollowLeader
  <2>3. u \in NodeState /\ Core(u) = Core(f)
    BY HandleInstallSnapshotType
  <2> HIDE DEF f, u
  <2>4. Sound(f, u, B)
    BY <2>2, <2>3, SoundSameCore
  <2> QED BY <2>2, <2>4, SoundTrans DEF u
<1>4. ASSUME NEW m \in AppendEntriesResponseMsg
      PROVE  Sound(s, HandleAppendEntriesResponse(s, m), B)
  <2> DEFINE u == HandleAppendEntriesResponse(s, m)
  <2>1. m.term \in Nat
    BY DEF AppendEntriesResponseMsg
  <2>2. /\ u \in NodeState
        /\ \/ u = BecomeFollower(s, m.term)
           \/ VoteCore(u) = VoteCore(s) /\ (Change = {} => Core(u) = Core(s))
    BY HandleAppendEntriesResponseType
  <2> HIDE DEF u
  <2>3. Sound(s, u, B)
    BY <2>1, <2>2, SoundBecomeFollower, SoundCore
  <2> QED BY <2>3 DEF u
<1>5. ASSUME NEW m \in InstallSnapshotResponseMsg
      PROVE  Sound(s, HandleInstallSnapshotResponse(s, m), B)
  <2> DEFINE u == HandleInstallSnapshotResponse(s, m)
  <2>1. m.term \in Nat
    BY DEF InstallSnapshotResponseMsg
  <2>2. /\ u \in NodeState
        /\ \/ u = BecomeFollower(s, m.term)
           \/ VoteCore(u) = VoteCore(s) /\ (Change = {} => Core(u) = Core(s))
    BY HandleInstallSnapshotResponseType
  <2> HIDE DEF u
  <2>3. Sound(s, u, B)
    BY <2>1, <2>2, SoundBecomeFollower, SoundCore
  <2> QED BY <2>3 DEF u
<1> QED BY <1>1, <1>2, <1>3, <1>4, <1>5

(***************************************************************************)
(* Mail.                                                                   *)
(***************************************************************************)
LEMMA BackedMonotone ==
  ASSUME NEW A, NEW B, \A j \in Node : A[j] \subseteq B[j],
         NEW q, NEW p, AllBacked(q, p, A)
  PROVE  AllBacked(q, p, B)
<1>1. Voter \subseteq Node
  BY DEF Voter
<1> QED BY <1>1 DEF AllBacked, Backed

LEMMA ElectMonotone ==
  ASSUME NEW A, NEW B, \A j \in Node : A[j] \subseteq B[j],
         NEW s, ElectOK(s, A)
  PROVE  ElectOK(s, B)
<1>1. Voter \subseteq Node
  BY DEF Voter
<1>2. \A e, c : Elected(e, c, A) => Elected(e, c, B)
  BY <1>1 DEF Elected
<1> QED BY <1>1, <1>2 DEF ElectOK

LEMMA PlainIsBacked ==
  ASSUME NEW q \in Seq(PlainMsg), NEW p, NEW B
  PROVE  AllBacked(q, p, B)
<1>1. \A m \in PlainMsg : m.type # "request-vote-response"
  BY DEF PlainMsg, RequestVoteMsg, PreVoteMsg, PreVoteResponseMsg, AppendEntriesMsg,
         AppendEntriesResponseMsg, InstallSnapshotMsg, InstallSnapshotResponseMsg
<1>2. \A k \in 1 .. Len(q) : q[k] \in PlainMsg
  BY ElementOfSeq
<1> QED BY <1>1, <1>2 DEF AllBacked, Backed

LEMMA ConcatIsBacked ==
  ASSUME NEW x \in Seq(Message), NEW y \in Seq(Message), NEW p, NEW B,
         AllBacked(x, p, B), AllBacked(y, p, B)
  PROVE  AllBacked(x \o y, p, B)
<1>1. /\ Len(x) \in Nat /\ Len(y) \in Nat /\ Len(x \o y) = Len(x) + Len(y)
      /\ \A i \in 1 .. Len(x) + Len(y) :
           (x \o y)[i] = IF i <= Len(x) THEN x[i] ELSE y[i - Len(x)]
  BY ConcatProperties, LenProperties
<1> SUFFICES ASSUME NEW k \in 1 .. Len(x \o y) PROVE Backed((x \o y)[k], p, B)
  BY DEF AllBacked
<1>2. CASE k <= Len(x)
  <2>1. (x \o y)[k] = x[k] /\ k \in 1 .. Len(x)
    BY <1>1, <1>2
  <2> QED BY <2>1 DEF AllBacked
<1>3. CASE ~ (k <= Len(x))
  <2>1. (x \o y)[k] = y[k - Len(x)] /\ k - Len(x) \in 1 .. Len(y)
    BY <1>1, <1>3
  <2> QED BY <2>1 DEF AllBacked
<1> QED BY <1>2, <1>3

LEMMA TailIsBacked ==
  ASSUME NEW q \in Seq(Message), q # <<>>, NEW p, NEW B, AllBacked(q, p, B)
  PROVE  AllBacked(Tail(q), p, B) /\ Backed(Head(q), p, B)
<1>1. /\ Tail(q) \in Seq(Message) /\ Len(Tail(q)) = Len(q) - 1 /\ Len(q) \in Nat
      /\ \A i \in 1 .. Len(Tail(q)) : Tail(q)[i] = q[i + 1]
  BY HeadTailProperties, LenProperties
<1>2. Head(q) = q[1] /\ Len(q) >= 1
  BY <1>1, EmptySeq, LenProperties
<1>3. \A i \in 1 .. Len(Tail(q)) : i + 1 \in 1 .. Len(q)
  BY <1>1
<1> QED BY <1>1, <1>2, <1>3 DEF AllBacked

LEMMA SubSeqIsBacked ==
  ASSUME NEW q \in Seq(Message), NEW k \in 1 .. Len(q) + 1, NEW p, NEW B, AllBacked(q, p, B)
  PROVE  AllBacked(SubSeq(q, k, Len(q)), p, B)
<1> DEFINE r == SubSeq(q, k, Len(q))
<1>1. Len(q) \in Nat /\ k \in Int
  BY LenProperties
<1>2. \A i \in k .. Len(q) : q[i] \in Message
  BY <1>1, ElementOfSeq
<1>3. /\ Len(r) = IF k <= Len(q) THEN Len(q) - k + 1 ELSE 0
      /\ \A i \in 1 .. Len(q) - k + 1 : r[i] = q[k + i - 1]
  BY <1>1, <1>2, SubSeqProperties
<1> HIDE DEF r
<1>4. \A i \in 1 .. Len(r) : r[i] = q[k + i - 1] /\ k + i - 1 \in 1 .. Len(q)
  BY <1>1, <1>3
<1>5. AllBacked(r, p, B)
  BY <1>4 DEF AllBacked
<1> QED BY <1>5 DEF r

LEMMA MailSound ==
  ASSUME TypeInv, NEW n \in Node, NEW s, NEW rest \in Seq(Message), NEW B,
         s.out \in [Node -> Seq(Message)], Continue(n, s, rest),
         \A p \in Node : AllBacked(inbox[p], p, B),
         \A p \in Node : AllBacked(s.out[p], p, B),
         AllBacked(rest, n, B)
  PROVE  \A p \in Node : AllBacked(inbox'[p], p, B)
<1> TAKE p \in Node
<1> DEFINE x == IF p = n THEN rest ELSE inbox[p]
           y == IF Partitioned(n, p) THEN <<>> ELSE s.out[p]
<1>1. inbox'[p] = x \o y
  BY DEF Continue
<1>2. x \in Seq(Message) /\ AllBacked(x, p, B)
  BY DEF TypeInv
<1>3. y \in Seq(Message) /\ AllBacked(y, p, B)
  <2>1. <<>> \in Seq(Message) /\ AllBacked(<<>>, p, B)
    BY EmptySeq DEF AllBacked
  <2> QED BY <2>1
<1> HIDE DEF x, y
<1> QED BY <1>1, <1>2, <1>3, ConcatIsBacked

(***************************************************************************)
(* Steps.                                                                  *)
(***************************************************************************)

\* A step that takes the table of n to w, soundly.
LEMMA TableStep ==
  ASSUME VoteInv, NEW n \in Node, NEW w \in NodeState, node' = [node EXCEPT ![n] = w],
         Sound(node[n], w, Record')
  PROVE  /\ \A j \in Node : VoteOK(node'[j])
         /\ \A j \in Node : Record[j] \subseteq Record'[j]
         /\ StaticCluster /\ (\A j \in Node : ElectOK(node[j], Record)) =>
              \A j \in Node : ElectOK(node'[j], Record')
<1>1. node \in [Node -> NodeState] /\ node[n].id = n /\ \A j \in Node : VoteOK(node[j])
  BY DEF VoteInv, TypeInv
<1>2. node'[n] = w /\ \A j \in Node \ {n} : node'[j] = node[j]
  BY <1>1
<1>3. \A j \in Node : VoteOK(node'[j])
  BY <1>1, <1>2 DEF Sound, VoteSound
<1>4. \A j \in Node : Record[j] = node[j].ballots /\ Record'[j] = node'[j].ballots
  BY DEF Record
<1>5. \A j \in Node : Record[j] \subseteq Record'[j]
  BY <1>1, <1>2, <1>4 DEF Sound, VoteSound
<1>6. ASSUME StaticCluster, \A j \in Node : ElectOK(node[j], Record)
      PROVE  \A j \in Node : ElectOK(node'[j], Record')
  <2>1. \A j \in Node : ElectOK(node[j], Record')
    BY <1>5, <1>6, ElectMonotone
  <2>2. w.ballots \subseteq Record'[n]
    BY <1>2, <1>4
  <2>3. ElectOK(w, Record')
    BY <1>1, <1>6, <2>1, <2>2 DEF Sound, VoteSound
  <2> QED BY <1>2, <2>1, <2>3
<1> QED BY <1>3, <1>5, <1>6

\* A handler or tick of n that leaves s and answers with plain messages.
LEMMA PlainStep ==
  ASSUME VoteInv, TypeInv', NEW n \in Node, NEW s \in NodeState, NEW rest \in Seq(Message),
         Continue(n, s, rest), Sound(node[n], s, Record'),
         \A B : AllBacked(inbox[n], n, B) => AllBacked(rest, n, B)
  PROVE  VoteInv' /\ (StaticCluster /\ ElectInv => ElectInv')
<1> DEFINE w == Cleaned(s)
<1>1. w \in NodeState /\ Core(w) = Core(s)
  BY CleanedType
<1>2. node' = [node EXCEPT ![n] = w]
  BY DEF Continue, Cleaned
<1> HIDE DEF w
<1>3. Sound(s, w, Record')
  BY <1>1, SoundSameCore
<1>4. Sound(node[n], w, Record')
  BY <1>3, SoundTrans
<1>5. /\ \A j \in Node : VoteOK(node'[j])
      /\ \A j \in Node : Record[j] \subseteq Record'[j]
      /\ StaticCluster /\ (\A j \in Node : ElectOK(node[j], Record)) =>
           \A j \in Node : ElectOK(node'[j], Record')
  BY <1>1, <1>2, <1>4, TableStep
<1>6. VoteInv'
  BY <1>5 DEF VoteInv
<1>7. ASSUME StaticCluster, ElectInv PROVE ElectInv'
  <2>1. TypeInv
    BY DEF VoteInv
  <2>2. \A p \in Node : AllBacked(inbox[p], p, Record')
    BY <1>5, <1>7, BackedMonotone DEF ElectInv
  <2>3. /\ s.out \in [Node -> Seq(Message)]
        /\ \A p \in Node : AllBacked(s.out[p], p, Record')
    BY OutType, PlainIsBacked
  <2>4. AllBacked(rest, n, Record')
    BY <2>2
  <2>5. \A p \in Node : AllBacked(inbox'[p], p, Record')
    BY <2>1, <2>2, <2>3, <2>4, MailSound
  <2> QED BY <1>5, <1>6, <1>7, <2>5 DEF ElectInv
<1> QED BY <1>6, <1>7

LEMMA TailStep ==
  ASSUME VoteInv, NEW n \in Node, inbox[n] # <<>>
  PROVE  /\ Tail(inbox[n]) \in Seq(Message) /\ Head(inbox[n]) \in Message
         /\ \A B : AllBacked(inbox[n], n, B) => AllBacked(Tail(inbox[n]), n, B)
<1>1. TypeInv /\ inbox[n] \in Seq(Message)
  BY DEF VoteInv, TypeInv
<1> QED BY <1>1, ReceivedType, TailIsBacked

\* Handing out a vote.
LEMMA VoteStep ==
  ASSUME VoteInv, TypeInv', NEW n \in Node, ReceiveRequestVote(n)
  PROVE  VoteInv' /\ (StaticCluster /\ ElectInv => ElectInv')
<1> DEFINE m == Head(inbox[n])
           v == Voted(node[n], m)
           r == VoteAnswer(node[n], m)
           s == Send(v, m.from, r)
           w == Cleaned(v)
           rest == Tail(inbox[n])
<1>1. TypeInv /\ node[n] \in NodeState /\ node[n].id = n
  BY DEF VoteInv, TypeInv
<1>2. inbox[n] # <<>> /\ m.type = "request-vote"
  BY DEF ReceiveRequestVote, Receives
<1>3. m \in RequestVoteMsg /\ rest \in Seq(Message) /\ m.from \in Node
  <2>1. m \in Message /\ rest \in Seq(Message)
    BY <1>2, TailStep
  <2>2. m \in RequestVoteMsg
    BY <1>2, <2>1, MessageFields
  <2> QED BY <2>1, <2>2 DEF RequestVoteMsg
<1>4. /\ v \in NodeState /\ v.id = n /\ r \in RequestVoteResponseMsg
      /\ r.from = n /\ r.term = v.currentTerm
      /\ r.granted = Granted(Updated(node[n], m), m)
  BY <1>1, <1>3, VotedType DEF VoteAnswer
<1>5. Sound(node[n], v, Record')
  BY <1>1, <1>3, SoundVoted
<1>6. r.granted => <<r.term, m.from>> \in v.ballots /\ n \notin node[n].learners
  BY <1>1, <1>3, <1>4, SoundVoted
<1>7. Continue(n, s, rest)
  BY HandleRequestVoteIs DEF ReceiveRequestVote, Handled
<1>8. \A B : AllBacked(inbox[n], n, B) => AllBacked(rest, n, B)
  BY <1>2, TailStep
<1> HIDE DEF m, v, r, rest
<1>9. /\ Cleaned(s) = w /\ s.out = [v.out EXCEPT ![m.from] = Append(@, r)]
      /\ s.out \in [Node -> Seq(Message)]
  BY <1>3, <1>4, VotedOut
<1>10. node' = [node EXCEPT ![n] = w]
  BY <1>7, <1>9 DEF Continue, Cleaned
<1> HIDE DEF s
<1>11. w \in NodeState /\ Core(w) = Core(v) /\ w.ballots = v.ballots
  BY <1>4, CleanedType DEF Core
<1> HIDE DEF w
<1>12. Sound(node[n], w, Record')
  BY <1>4, <1>5, <1>11, SoundSameCore, SoundTrans
<1>13. /\ \A j \in Node : VoteOK(node'[j])
       /\ \A j \in Node : Record[j] \subseteq Record'[j]
       /\ StaticCluster /\ (\A j \in Node : ElectOK(node[j], Record)) =>
            \A j \in Node : ElectOK(node'[j], Record')
  BY <1>10, <1>11, <1>12, TableStep
<1>14. VoteInv'
  BY <1>13 DEF VoteInv
<1>15. ASSUME StaticCluster, ElectInv PROVE ElectInv'
  <2>1. \A p \in Node : AllBacked(inbox[p], p, Record')
    BY <1>13, <1>15, BackedMonotone DEF ElectInv
  <2>2. Backed(r, m.from, Record')
    <3>1. Record'[n] = v.ballots
      BY <1>1, <1>10, <1>11 DEF Record, VoteInv, TypeInv
    <3>2. r.granted => n \in Voter
      BY <1>6, <1>15 DEF ElectInv, ElectOK
    <3> QED BY <1>4, <1>6, <3>1, <3>2 DEF Backed
  <2>3. \A p \in Node : AllBacked(s.out[p], p, Record')
    <3> TAKE p \in Node
    <3>1. v.out \in [Node -> Seq(PlainMsg)] /\ v.out \in [Node -> Seq(Message)]
      BY <1>4, OutType
    <3>2. AllBacked(v.out[p], p, Record')
      BY <3>1, PlainIsBacked
    <3>3. CASE p # m.from
      BY <1>3, <1>9, <3>1, <3>2, <3>3
    <3>4. CASE p = m.from
      <4>1. s.out[p] = Append(v.out[p], r)
        BY <1>9, <3>1, <3>4
      <4>2. r \in Message /\ v.out[p] \in Seq(Message)
        BY <1>4, <3>1 DEF Message
      <4>3. /\ Len(v.out[p]) \in Nat /\ Len(Append(v.out[p], r)) = Len(v.out[p]) + 1
            /\ \A i \in 1 .. Len(v.out[p]) : Append(v.out[p], r)[i] = v.out[p][i]
            /\ Append(v.out[p], r)[Len(v.out[p]) + 1] = r
        BY <4>2, AppendProperties, LenProperties
      <4>4. \A i \in 1 .. Len(v.out[p]) + 1 : Backed(Append(v.out[p], r)[i], p, Record')
        <5> TAKE i \in 1 .. Len(v.out[p]) + 1
        <5>1. CASE i = Len(v.out[p]) + 1
          BY <2>2, <3>4, <4>3, <5>1
        <5>2. CASE i \in 1 .. Len(v.out[p])
          BY <3>2, <4>3, <5>2 DEF AllBacked
        <5> QED BY <4>3, <5>1, <5>2
      <4> QED BY <4>1, <4>3, <4>4 DEF AllBacked
    <3> QED BY <3>3, <3>4
  <2>4. AllBacked(rest, n, Record')
    BY <1>8, <2>1
  <2>5. \A p \in Node : AllBacked(inbox'[p], p, Record')
    BY <1>1, <1>3, <1>7, <1>9, <2>1, <2>3, <2>4, MailSound
  <2> QED BY <1>13, <1>14, <1>15, <2>5 DEF ElectInv
<1> QED BY <1>14, <1>15

\* Counting a vote: the mail is backed in an elected cluster only.
LEMMA VoteResponseStep ==
  ASSUME VoteInv, TypeInv', NEW n \in Node, ReceiveRequestVoteResponse(n)
  PROVE  VoteInv' /\ (StaticCluster /\ ElectInv => ElectInv')
<1> DEFINE m == Head(inbox[n])
           s == HandleRequestVoteResponse(node[n], m)
           rest == Tail(inbox[n])
<1>1. node[n] \in NodeState /\ node[n].id = n /\ inbox[n] \in Seq(Message)
  BY DEF VoteInv, TypeInv
<1>2. inbox[n] # <<>> /\ m.type = "request-vote-response"
  BY DEF ReceiveRequestVoteResponse, Receives
<1>3. /\ m \in Message /\ rest \in Seq(Message)
      /\ \A B : AllBacked(inbox[n], n, B) => AllBacked(rest, n, B)
  BY <1>2, TailStep
<1>4. m \in RequestVoteResponseMsg
  BY <1>2, <1>3, MessageFields
<1>5. s \in NodeState /\ VoteSound(node[n], s)
  BY <1>1, <1>4, HandleRequestVoteResponseType, SoundRequestVoteResponse
<1>6. Continue(n, s, rest)
  BY DEF ReceiveRequestVoteResponse, Handled
<1>7. Backed(m, n, Record') => Sound(node[n], s, Record')
  BY <1>1, <1>4, SoundRequestVoteResponse
<1>8. \A B : AllBacked(inbox[n], n, B) => Backed(m, n, B)
  BY <1>1, <1>2, TailIsBacked
<1> HIDE DEF m, s, rest
<1>9. VoteInv' /\ \A j \in Node : Record[j] \subseteq Record'[j]
  <2>1. node' = [node EXCEPT ![n] = Cleaned(s)]
    BY <1>6 DEF Continue, Cleaned
  <2>2. Cleaned(s) \in NodeState /\ Core(Cleaned(s)) = Core(s)
    BY <1>5, CleanedType
  <2>3. VoteSound(node[n], Cleaned(s))
    BY <1>5, <2>2 DEF VoteSound, Core, VoteOK
  <2>4. \A j \in Node : VoteOK(node'[j]) /\ node[j].ballots \subseteq node'[j].ballots
    BY <2>1, <2>3 DEF VoteSound, VoteInv, TypeInv
  <2> QED BY <2>4 DEF VoteInv, Record
<1>10. ASSUME StaticCluster, ElectInv PROVE ElectInv'
  <2>1. AllBacked(inbox[n], n, Record')
    BY <1>9, <1>10, BackedMonotone DEF ElectInv
  <2>2. Sound(node[n], s, Record')
    BY <1>7, <1>8, <2>1
  <2> QED BY <1>3, <1>5, <1>6, <1>10, <2>2, PlainStep
<1> QED BY <1>9, <1>10

\* The other six handlers.
LEMMA ReceiveStep ==
  ASSUME VoteInv, TypeInv', NEW n \in Node, ReceiveAny(n)
  PROVE  VoteInv' /\ (StaticCluster /\ ElectInv => ElectInv')
<1> DEFINE m == Head(inbox[n])
           rest == Tail(inbox[n])
<1>1. node[n] \in NodeState
  BY DEF VoteInv, TypeInv
<1>2. CASE ReceiveRequestVote(n)
  BY <1>2, VoteStep
<1>3. CASE ReceiveRequestVoteResponse(n)
  BY <1>3, VoteResponseStep
<1>4. ASSUME NEW s \in NodeState, Sound(node[n], s, Record'), inbox[n] # <<>>, Handled(n, s)
      PROVE  VoteInv' /\ (StaticCluster /\ ElectInv => ElectInv')
  <2>1. /\ rest \in Seq(Message)
        /\ \A B : AllBacked(inbox[n], n, B) => AllBacked(rest, n, B)
    BY <1>4, TailStep
  <2>2. Continue(n, s, rest)
    BY <1>4 DEF Handled
  <2> QED BY <1>4, <2>1, <2>2, PlainStep
<1>5. inbox[n] # <<>> => m \in Message
  BY TailStep
<1> HIDE DEF m, rest
<1>6. CASE ReceivePreVote(n)
  <2>1. inbox[n] # <<>> /\ m.type = "pre-vote" /\ Handled(n, HandlePreVote(node[n], m))
    BY <1>6 DEF ReceivePreVote, Receives, m
  <2>2. m \in PreVoteMsg
    BY <1>5, <2>1, MessageFields
  <2> QED BY <1>1, <1>4, <2>1, <2>2, HandlersKeepIdentity, SoundReplication
<1>7. CASE ReceivePreVoteResponse(n)
  <2>1. /\ inbox[n] # <<>> /\ m.type = "pre-vote-response"
        /\ Handled(n, HandlePreVoteResponse(node[n], m))
    BY <1>7 DEF ReceivePreVoteResponse, Receives, m
  <2>2. m \in PreVoteResponseMsg
    BY <1>5, <2>1, MessageFields
  <2> QED BY <1>1, <1>4, <2>1, <2>2, HandlersKeepIdentity, SoundPreVoteResponse
<1>8. CASE ReceiveAppendEntries(n)
  <2>1. /\ inbox[n] # <<>> /\ m.type = "append-entries"
        /\ Handled(n, HandleAppendEntries(node[n], m))
    BY <1>8 DEF ReceiveAppendEntries, Receives, m
  <2>2. m \in AppendEntriesMsg
    BY <1>5, <2>1, MessageFields
  <2> QED BY <1>1, <1>4, <2>1, <2>2, HandlersKeepIdentity, SoundReplication
<1>9. CASE ReceiveAppendEntriesResponse(n)
  <2>1. /\ inbox[n] # <<>> /\ m.type = "append-entries-response"
        /\ Handled(n, HandleAppendEntriesResponse(node[n], m))
    BY <1>9 DEF ReceiveAppendEntriesResponse, Receives, m
  <2>2. m \in AppendEntriesResponseMsg
    BY <1>5, <2>1, MessageFields
  <2> QED BY <1>1, <1>4, <2>1, <2>2, HandlersKeepIdentity, SoundReplication
<1>10. CASE ReceiveInstallSnapshot(n)
  <2>1. /\ inbox[n] # <<>> /\ m.type = "install-snapshot"
        /\ Handled(n, HandleInstallSnapshot(node[n], m))
    BY <1>10 DEF ReceiveInstallSnapshot, Receives, m
  <2>2. m \in InstallSnapshotMsg
    BY <1>5, <2>1, MessageFields
  <2> QED BY <1>1, <1>4, <2>1, <2>2, HandlersKeepIdentity, SoundReplication
<1>11. CASE ReceiveInstallSnapshotResponse(n)
  <2>1. /\ inbox[n] # <<>> /\ m.type = "install-snapshot-response"
        /\ Handled(n, HandleInstallSnapshotResponse(node[n], m))
    BY <1>11 DEF ReceiveInstallSnapshotResponse, Receives, m
  <2>2. m \in InstallSnapshotResponseMsg
    BY <1>5, <2>1, MessageFields
  <2> QED BY <1>1, <1>4, <2>1, <2>2, HandlersKeepIdentity, SoundReplication
<1> QED BY <1>2, <1>3, <1>6, <1>7, <1>8, <1>9, <1>10, <1>11 DEF ReceiveAny

LEMMA OtherSteps ==
  ASSUME VoteInv, TypeInv', NEW n \in Node,
         \/ ElectionTimeout(n) \/ HeartbeatTick(n)
         \/ \E r \in Request : Ask(n, r)
         \/ SnapshotNow(n)
  PROVE  VoteInv' /\ (StaticCluster /\ ElectInv => ElectInv')
<1>1. node[n] \in NodeState /\ inbox[n] \in Seq(Message)
  BY DEF VoteInv, TypeInv
<1>2. ASSUME NEW s \in NodeState, Sound(node[n], s, Record'), Continue(n, s, inbox[n])
      PROVE  VoteInv' /\ (StaticCluster /\ ElectInv => ElectInv')
  BY <1>1, <1>2, PlainStep
<1>3. CASE ElectionTimeout(n)
  <2> DEFINE t == [node[n] EXCEPT !.ticker = FALSE]
             u == IF t.role = "leader" THEN t ELSE StartElection(t)
  <2>1. t \in NodeState /\ Core(t) = Core(node[n])
    BY <1>1, TickUsed
  <2>2. Continue(n, u, inbox[n])
    BY <1>3 DEF ElectionTimeout
  <2> HIDE DEF t
  <2>3. Sound(node[n], t, Record')
    BY <1>1, <2>1, SoundSameCore
  <2>4. u \in NodeState /\ Sound(t, u, Record')
    BY <2>1, StartElectionType, SoundStartElection, SoundSelf
  <2> HIDE DEF u
  <2>5. Sound(node[n], u, Record')
    BY <2>3, <2>4, SoundTrans
  <2> QED BY <1>2, <2>2, <2>4, <2>5
<1>4. CASE HeartbeatTick(n)
  <2>1. /\ ReplicateToPeers(node[n]) \in NodeState
        /\ Core(ReplicateToPeers(node[n])) = Core(node[n])
    BY <1>1, ReplicateToPeersType
  <2>2. Sound(node[n], ReplicateToPeers(node[n]), Record')
    BY <1>1, <2>1, SoundSameCore
  <2> QED BY <1>2, <1>4, <2>1, <2>2 DEF HeartbeatTick
<1>5. CASE \E r \in Request : Ask(n, r)
  <2>1. PICK r \in Request : Ask(n, r)
    BY <1>5
  <2>2. /\ ClientAppend(node[n], r) \in NodeState
        /\ VoteCore(ClientAppend(node[n], r)) = VoteCore(node[n])
        /\ Change = {} => Core(ClientAppend(node[n], r)) = Core(node[n])
    BY <1>1, ClientAppendType
  <2>3. Sound(node[n], ClientAppend(node[n], r), Record')
    BY <1>1, <2>2, SoundCore
  <2> QED BY <1>2, <2>1, <2>2, <2>3 DEF Ask
<1>6. CASE SnapshotNow(n)
  <2>1. DoSnapshot(node[n]) \in NodeState /\ Core(DoSnapshot(node[n])) = Core(node[n])
    BY <1>1, DoSnapshotType
  <2>2. Sound(node[n], DoSnapshot(node[n]), Record')
    BY <1>1, <2>1, SoundSameCore
  <2> QED BY <1>2, <1>6, <2>1, <2>2 DEF SnapshotNow
<1> QED BY <1>3, <1>4, <1>5, <1>6

\* Stopping, and starting again from the file, where the votes are.
LEMMA StopStartSteps ==
  ASSUME VoteInv, TypeInv', NEW n \in Node, Stop(n) \/ Start(n)
  PROVE  VoteInv' /\ (StaticCluster /\ ElectInv => ElectInv')
<1>1. /\ node \in [Node -> NodeState] /\ node[n] \in NodeState /\ node[n].id = n
      /\ inbox \in [Node -> Seq(Message)] /\ TypeInv
  BY DEF VoteInv, TypeInv
<1>2. \E w \in NodeState : node' = [node EXCEPT ![n] = w] /\ Sound(node[n], w, Record')
  <2>1. CASE Stop(n)
    <3> DEFINE w == [node[n] EXCEPT !.running = FALSE, !.ticker = FALSE]
    <3>1. w \in NodeState /\ Core(w) = Core(node[n])
      BY <1>1 DEF NodeState, Core
    <3>2. node' = [node EXCEPT ![n] = w]
      BY <1>1, <2>1 DEF Stop
    <3> HIDE DEF w
    <3>3. Sound(node[n], w, Record')
      BY <1>1, <3>1, SoundSameCore
    <3> QED BY <3>1, <3>2, <3>3
  <2>2. CASE Start(n)
    <3>1. PICK w \in NodeState :
           /\ node' = [node EXCEPT ![n] = w]
           /\ w.id = n /\ w.out = Nothing /\ w.role = "follower"
           /\ w.peers = InitPeers[n] /\ w.learners = InitLearners[n]
           /\ w.currentTerm = node[n].currentTerm /\ w.votedFor = node[n].votedFor
           /\ w.ballots = node[n].ballots /\ w.elected = node[n].elected
      BY <1>1, <2>2, StartIs
    <3>2. VoteSound(node[n], w)
      BY <1>1, <3>1 DEF VoteSound, VoteOK
    <3>3. StaticCluster /\ ElectOK(node[n], Record') => ElectOK(w, Record')
      BY <1>1, <3>1 DEF StaticCluster, ElectOK
    <3>4. Sound(node[n], w, Record')
      BY <3>2, <3>3 DEF Sound
    <3> QED BY <3>1, <3>4
  <2> QED BY <2>1, <2>2
<1>3. /\ \A j \in Node : VoteOK(node'[j])
      /\ \A j \in Node : Record[j] \subseteq Record'[j]
      /\ StaticCluster /\ (\A j \in Node : ElectOK(node[j], Record)) =>
           \A j \in Node : ElectOK(node'[j], Record')
  BY <1>2, TableStep
<1>4. VoteInv'
  BY <1>3 DEF VoteInv
<1>5. ASSUME StaticCluster, ElectInv PROVE ElectInv'
  <2>1. \A p \in Node : AllBacked(inbox[p], p, Record')
    BY <1>3, <1>5, BackedMonotone DEF ElectInv
  <2>2. \A p \in Node : AllBacked(inbox'[p], p, Record')
    <3>1. CASE Stop(n)
      BY <2>1, <3>1 DEF Stop
    <3>2. CASE Start(n)
      <4>1. PICK k \in 1 .. Len(inbox[n]) + 1 :
              inbox' = [inbox EXCEPT ![n] = SubSeq(@, k, Len(@))]
        BY <3>2 DEF Start
      <4>2. AllBacked(SubSeq(inbox[n], k, Len(inbox[n])), n, Record')
        BY <1>1, <2>1, SubSeqIsBacked
      <4> QED BY <1>1, <2>1, <4>1, <4>2
    <3> QED BY <3>1, <3>2
  <2> QED BY <1>3, <1>4, <1>5, <2>2 DEF ElectInv
<1> QED BY <1>4, <1>5

LEMMA ElectionInit == Init => VoteInv /\ (StaticCluster => ElectInv)
<1> SUFFICES ASSUME Init PROVE VoteInv /\ (StaticCluster => ElectInv)
  OBVIOUS
<1>1. TypeInv
  BY InitType
<1>2. \A n \in Node : /\ node[n].ballots = {} /\ node[n].elected = {}
                      /\ node[n].role = "follower" /\ node[n].id = n
                      /\ node[n].peers = InitPeers[n] /\ node[n].learners = InitLearners[n]
  BY DEF Init, NewState
<1>3. VoteInv
  BY <1>1, <1>2 DEF VoteInv, VoteOK
<1>4. \A n \in Node : AllBacked(inbox[n], n, Record)
  BY EmptySeq DEF Init, AllBacked
<1>5. StaticCluster => \A n \in Node : ElectOK(node[n], Record)
  BY <1>2 DEF StaticCluster, ElectOK
<1> QED BY <1>3, <1>4, <1>5 DEF ElectInv

LEMMA ElectionNext ==
  ASSUME VoteInv, [Next]_vars
  PROVE  VoteInv' /\ (StaticCluster /\ ElectInv => ElectInv')
<1>0. TypeInv'
  BY NextType DEF VoteInv
<1>1. CASE \E n \in Node : ReceiveAny(n)
  BY <1>0, <1>1, ReceiveStep
<1>2. CASE \E n \in Node : ElectionTimeout(n) \/ HeartbeatTick(n) \/ SnapshotNow(n)
  BY <1>0, <1>2, OtherSteps
<1>3. CASE \E n \in Node, r \in Request : Ask(n, r)
  BY <1>0, <1>3, OtherSteps
<1>4. CASE \E n \in Node : Stop(n) \/ Start(n)
  BY <1>0, <1>4, StopStartSteps
<1>5. CASE UNCHANGED <<node, inbox>>
  BY <1>0, <1>5 DEF VoteInv, ElectInv, Record
<1>6. CASE \E a, b \in Node : Partition(a, b) \/ Heal(a, b)
  BY <1>5, <1>6 DEF Partition, Heal
<1>7. CASE UNCHANGED vars
  BY <1>5, <1>7 DEF vars
<1> QED BY <1>1, <1>2, <1>3, <1>4, <1>6, <1>7 DEF Next

(***************************************************************************)
(* Theorems.                                                               *)
(***************************************************************************)

\* Whatever the membership and however often it restarts, a node puts at most
\* one candidate per term on record: raft-handle-request-vote and
\* raft-become-candidate-for-real! never overwrite the vote of a term.
THEOREM OneVote == Spec => []OneVotePerTerm
<1>1. Init => VoteInv
  BY ElectionInit
<1>2. VoteInv /\ [Next]_vars => VoteInv'
  BY ElectionNext
<1>3. VoteInv => OneVotePerTerm
  BY DEF VoteInv, VoteOK, OneVotePerTerm
<1> QED BY <1>1, <1>2, <1>3, PTL DEF Spec

\* Two majorities of the voters share one, which voted once.
LEMMA MajoritiesAgree ==
  ASSUME ElectInv
  PROVE  ElectionSafety
<1> SUFFICES ASSUME NEW m \in Node, NEW n \in Node,
                    NEW e \in node[m].elected \cap node[n].elected
             PROVE  m = n
  BY DEF ElectionSafety
<1>1. \A j \in Node : node[j].id = j
  BY DEF ElectInv, VoteInv, TypeInv
<1>2. Elected(e, m, Record) /\ Elected(e, n, Record)
  <2>1. ElectOK(node[m], Record) /\ ElectOK(node[n], Record)
    BY DEF ElectInv
  <2>2. /\ \A d \in node[m].elected : Elected(d, node[m].id, Record)
        /\ \A d \in node[n].elected : Elected(d, node[n].id, Record)
    BY <2>1 DEF ElectOK
  <2> QED BY <1>1, <2>2
<1>3. PICK P \in SUBSET Voter : /\ HasMajority(Cardinality(P), Cardinality(Voter))
                                /\ \A j \in P : <<e, m>> \in Record[j]
  BY <1>2 DEF Elected
<1>4. PICK Q \in SUBSET Voter : /\ HasMajority(Cardinality(Q), Cardinality(Voter))
                                /\ \A j \in Q : <<e, n>> \in Record[j]
  BY <1>2 DEF Elected
<1>5. Voter \subseteq Node /\ IsFiniteSet(Voter)
  BY NodeAssumption, FS_Subset DEF Voter
<1>6. Cardinality(P) \in Nat /\ Cardinality(Q) \in Nat /\ Cardinality(Voter) \in Nat
  BY <1>5, FS_Subset, FS_CardinalityType
<1>7. Cardinality(P) + Cardinality(Q) > Cardinality(Voter)
  BY <1>3, <1>4, <1>6 DEF HasMajority
<1>8. P \cap Q # {}
  BY <1>5, <1>7, FS_MajoritiesIntersect
<1>9. PICK j \in P \cap Q : TRUE
  BY <1>8
<1>10. j \in Node /\ <<e, m>> \in node[j].ballots /\ <<e, n>> \in node[j].ballots
  BY <1>3, <1>4, <1>5 DEF Record
<1>11. VoteOK(node[j])
  BY <1>10 DEF ElectInv, VoteInv
<1> QED BY <1>10, <1>11 DEF VoteOK

\* In a cluster whose members are fixed and known to all, of any size and with
\* any number of learners, no two nodes lead in one term, whatever is lost,
\* delayed, partitioned or restarted.
THEOREM SafeElections ==
  ASSUME StaticCluster
  PROVE  Spec => []ElectionSafety
<1>1. Init => ElectInv
  BY ElectionInit
<1>2. ElectInv /\ [Next]_vars => ElectInv'
  BY ElectionNext DEF ElectInv
<1>3. ElectInv => ElectionSafety
  BY MajoritiesAgree
<1> QED BY <1>1, <1>2, <1>3, PTL DEF Spec

=============================================================================
