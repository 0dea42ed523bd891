---------------------------- MODULE MCWorkerPool ----------------------------
(* Small instances of WorkerPool for TLC.                                  *)
EXTENDS WorkerPool

CONSTANTS l1, l2, l3, w1, w2, w3, w4, w5

TwoLeases    == {l1, l2}
ThreeLeases  == {l1, l2, l3}
ThreeWorkers == {w1, w2, w3}
FourWorkers  == {w1, w2, w3, w4}
FiveWorkers  == {w1, w2, w3, w4, w5}

\* Every action treats all slots and all identities alike.
Symmetry3L5W == Permutations(ThreeLeases) \cup Permutations(FiveWorkers)
=============================================================================
