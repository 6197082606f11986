--------------------------- MODULE MCWorldManager ---------------------------
(* TLC instance of WorldManager: sessions are interchangeable. *)
EXTENDS WorldManager, TLC

SessionSymmetry == Permutations(Sessions)
=============================================================================
