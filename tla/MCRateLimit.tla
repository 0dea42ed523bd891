----------------------------- MODULE MCRateLimit -----------------------------
(* A small instance of RateLimit for TLC.                                  *)
EXTENDS RateLimit, TLC

CONSTANTS c1, c2

TwoClients == {c1, c2}

\* Every action treats all clients alike.
Symmetry == Permutations(TwoClients)
=============================================================================
