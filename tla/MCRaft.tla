------------------------------- MODULE MCRaft -------------------------------
(***************************************************************************)
(* Small instances of Raft for TLC.                                        *)
(***************************************************************************)
EXTENDS Raft, TLC

CONSTANTS n1, n2, n3

\* raft-scheme-cluster: every node is a voter and has every other as a peer.
EveryOther == [n \in Node |-> Node \ {n}]
NoLearners == [n \in Node |-> {}]

\* In such a cluster nodes that start alike are interchangeable, and commands
\* are anywhere.
Alike == Permutations(Started) \cup Permutations(Command)

\* Two voters that do not know n3, which starts as a learner with no peers.
\* Membership calls are named for what they ask, and ask it for n3.
TwoAndAlone == [n \in Node |-> IF n = n3 THEN {} ELSE {n1, n2} \ {n}]
AloneLearner == [n \in Node |-> IF n = n3 THEN {n3} ELSE {}]
AsNamed == [c \in Change |-> c]
ForN3 == [c \in Change |-> n3]

\* A request to a node that does not lead is turned down and changes nothing
\* else: leaving such requests out makes room for more of the others.
ToLeaders == \A n \in Node, r \in Request : "not-leader" \notin Range(node[n].replies[r])

\* Bound: messages on their way to one node.
MaxInFlight == 4
FewInFlight == ToLeaders /\ \A n \in Node : Len(inbox[n]) <= MaxInFlight
=============================================================================
