------------------------------- MODULE MCQueue -------------------------------
(***************************************************************************)
(* ImplicitProducer, BlockPool and ImplicitProducerHash for TLC: three     *)
(* parts of concurrentqueue.h that are checked each on its own, in one     *)
(* run.  A behaviour is one of the part it starts with.                    *)
(***************************************************************************)
EXTENDS ImplicitProducer, BlockPool, ImplicitProducerHash, TLC

VARIABLE part

MCInit == /\ part \in {"producer", "pool", "hash"}
          /\ QueueInit /\ PoolInit /\ HashInit

MCNext ==
  \/ part = "producer" /\ QueueNext /\ UNCHANGED << part, poolVars, hashVars >>
  \/ part = "pool" /\ PoolNext /\ UNCHANGED << part, queueVars, hashVars >>
  \/ part = "hash" /\ HashNext /\ UNCHANGED << part, queueVars, poolVars >>

MCSpec == MCInit /\ [][MCNext]_<< part, queueVars, poolVars, hashVars >>

\* The worst case of a hash: every id starts at the same slot.
SameSlot == [i \in Ids |-> 0]

\* The two consumers are threads of the pool and ids of the hash table too, and no part
\* tells them apart; nor does anything tell apart the producer's blocks.
Symmetry == Permutations(Consumers) \union Permutations(Blocks)
=============================================================================
