----------------------------- MODULE MCReactor -----------------------------
(* TLC instances of Reactor: descriptors are interchangeable. *)
EXTENDS Reactor, TLC

FdSymmetry == Permutations(Fds)
=============================================================================
