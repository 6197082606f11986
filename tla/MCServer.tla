------------------------------ MODULE MCServer ------------------------------
(* TLC instances of Server: descriptors are interchangeable. *)
EXTENDS Server, TLC

FdSymmetry == Permutations(Fds)
=============================================================================
