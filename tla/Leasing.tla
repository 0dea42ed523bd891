-------------------------------- MODULE Leasing --------------------------------
(***************************************************************************)
(* What a worker pool promises its callers (WorkerPool.lease in            *)
(* src/kiro_api/pool.py), without its queue, its stack or its sweeper: at  *)
(* most Limit calls are admitted at a time, and a worker is lent to one of *)
(* them at a time.  A call that fails or is cancelled where lease() owns a *)
(* permit but not yet, or no longer, its try block takes the permit along. *)
(***************************************************************************)
EXTENDS Naturals, FiniteSets

CONSTANTS Client, Worker, NoWorker, Limit

VARIABLES
  holders,   \* the callers that own a permit
  lent,      \* caller -> the worker its turn runs on
  lost       \* permits that nobody will give back

leaseVars == <<holders, lent, lost>>

LeasingInit ==
  /\ holders = {} /\ lent = [c \in Client |-> NoWorker] /\ lost = 0

Free(w) == \A c \in Client : lent[c] # w
Room    == Cardinality(holders) + lost < Limit

\* The caller c gets a permit, perhaps with an idle worker at once.
Admit(c) ==
  /\ c \notin holders /\ Room
  /\ holders' = holders \cup {c}
  /\ \/ lent' = lent
     \/ \E w \in Worker : Free(w) /\ lent' = [lent EXCEPT ![c] = w]
  /\ UNCHANGED lost

\* A worker has been found or spawned: the turn begins.
Lend(c, w) ==
  /\ c \in holders /\ lent[c] = NoWorker /\ Free(w)
  /\ lent' = [lent EXCEPT ![c] = w]
  /\ UNCHANGED <<holders, lost>>

\* The turn is over but its worker has to be stopped first.
TakeBack(c) ==
  /\ c \in holders /\ lent[c] # NoWorker
  /\ lent' = [lent EXCEPT ![c] = NoWorker]
  /\ UNCHANGED <<holders, lost>>

\* The lease ends and the permit is free again.
Return(c) ==
  /\ c \in holders
  /\ holders' = holders \ {c} /\ lent' = [lent EXCEPT ![c] = NoWorker]
  /\ UNCHANGED lost

\* The lease ends outside its try block, or inside its finally.
Lose(c) ==
  /\ c \in holders /\ lent[c] = NoWorker
  /\ holders' = holders \ {c} /\ lost' = lost + 1
  /\ UNCHANGED lent

LeasingNext ==
  \E c \in Client :
    Admit(c) \/ TakeBack(c) \/ Return(c) \/ Lose(c) \/ \E w \in Worker : Lend(c, w)

LeasingSpec == LeasingInit /\ [][LeasingNext]_leaseVars
================================================================================
