SPECIFICATION Spec
CONSTANTS
  n1 = n1
  n2 = n2
  n3 = n3
  Node = {n1, n2, n3}
  None = None
  Command = {}
  Read = {r1}
  Change = {"add-learner", "promote-learner"}
  ActionOf <- AsNamed
  PeerOf <- ForN3
  InitPeers <- TwoAndAlone
  InitLearners <- AloneLearner
  Started = {n1, n2, n3}
  Threshold = 100
  MaxTimeouts = 2
  MaxHeartbeats = 1
  MaxSnapshots = 0
  MaxStops = 0
  MaxCuts = 0
CHECK_DEADLOCK FALSE
INVARIANTS OneReply 
