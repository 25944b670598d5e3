-------------------------- MODULE MC_FileDescriptor --------------------------
(* Three objects, enough for a move chain a -> b -> c and a move-assign    *)
(* between two holders, and four descriptors, one more than the objects, so that the table can fill  *)
(* and a closed descriptor is handed out again.                            *)
EXTENDS FileDescriptor, TLC

CONSTANTS o1, o2, o3

MCObjs == {o1, o2, o3}

\* The objects are interchangeable storage.
ObjSymmetry == Permutations(MCObjs)
=============================================================================
