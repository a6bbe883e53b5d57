------------------------------ MODULE MCStore ------------------------------
(* StoreReports for TLC: cameras and tracker ids are interchangeable.      *)
EXTENDS StoreReports, TLC

Alike == Permutations(CameraIds) \cup Permutations(Ids)

=============================================================================
