----------------------------- MODULE MCACPWorker -----------------------------
(* A small instance of ACPWorker for TLC.                                  *)
EXTENDS ACPWorker
==============================================================================
