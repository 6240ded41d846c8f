---------------------------- MODULE MCRealmCascade ----------------------------
(* Small instances of RealmCascade.                                        *)
EXTENDS RealmCascade, TLC

CONSTANTS a, b, c

Arrays == {<<x>> : x \in Models} \cup (Models \X Models)
===============================================================================
