--------------------------- MODULE MCReplaySystem ---------------------------
(* Instances of ReplaySystem: fault budgets and key assignments for TLC.    *)
EXTENDS ReplaySystem, TLC

CONSTANTS j1, j2, j3

NoFaults == [k \in FaultKinds |-> 0]

SameKey == [j \in Jobs |-> "k"]
PairAndLone == [j \in Jobs |-> IF j = j3 THEN NoKey ELSE "k"]
OwnKeys == [j \in Jobs |-> j]

SubmitFaults == [NoFaults EXCEPT !["redis"] = 1, !["db"] = 1, !["api"] = 1, !["cancel"] = 1]
LateFaults == [NoFaults EXCEPT !["crash"] = 1, !["timeout"] = 2, !["db"] = 2, !["cancel"] = 1]
SettleFaults == [NoFaults EXCEPT !["crash"] = 1, !["shutdown"] = 1, !["cancel"] = 1]

TwoCrashes == [NoFaults EXCEPT !["crash"] = 2]
OneCancel == [NoFaults EXCEPT !["cancel"] = 1]
OneRedisError == [NoFaults EXCEPT !["redis"] = 1]
=============================================================================
