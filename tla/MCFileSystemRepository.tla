----------------------- MODULE MCFileSystemRepository -----------------------
(* Small instances of FileSystemRepository.                                *)
EXTENDS FileSystemRepository, TLC

CONSTANTS t1, t2, i1, i2, v1, v2, v3, n1, n2

\* hashValue as the Swift 4.0 of the podspec has it
Stable == {(i1 :> n1) @@ (i2 :> n2)}

\* Launches that hash i2 alike and i1 not, and one of them both ids to the same value.
Seeds == {(i1 :> n1) @@ (i2 :> n2), (i1 :> n2) @@ (i2 :> n2)}

M(i, v) == [id |-> i, val |-> v]
Halves  == {<<M(i1, v1), M(i2, v3)>>, <<M(i2, v3)>>}
Arrays  == {<<M(i1, v1), M(i2, v2)>>}
=============================================================================
