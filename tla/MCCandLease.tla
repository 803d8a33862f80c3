---------------------------- MODULE MCCandLease -----------------------------
(* Instances of CandLease for TLC.                                         *)
EXTENDS CandLease, TLC

Symmetric == Permutations(Procs) \cup Permutations(Keys)

=============================================================================
