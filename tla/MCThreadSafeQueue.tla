-------------------------- MODULE MCThreadSafeQueue --------------------------
(* Instances of ThreadSafeQueue for TLC.                                   *)
EXTENDS ThreadSafeQueue, TLC

ProducerSymmetry == Permutations(Producers)

===============================================================================
