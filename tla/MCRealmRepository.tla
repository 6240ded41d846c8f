-------------------------- MODULE MCRealmRepository --------------------------
(* Small instances of RealmRepository.                                     *)
EXTENDS RealmRepository

CONSTANTS t1, t2, k1, k2, v1
=============================================================================
