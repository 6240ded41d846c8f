------------------------ MODULE MCCoreDataRepository ------------------------
(* Small instances of CoreDataRepository.                                  *)
EXTENDS CoreDataRepository, TLC

CONSTANTS c1, c2, o1, o2, v1

Symmetry == Permutations({c1, c2}) \cup Permutations({o1, o2})
=============================================================================
