--------------------------- MODULE MCTeacherRuns ---------------------------
(* A partition with two primaries and a reserve that expires later. *)
EXTENDS TeacherRuns, TLC
MCJobs        == {1, 2, 3}
MCPrimaries   == {1, 2}
MCPartitionOf == [j \in MCJobs |-> 1]
MCQuota       == [p \in {1} |-> 2]
MCExpiresAt   == 1 :> 2 @@ 2 :> 2 @@ 3 :> 4
MCSlots       == {0}
Symmetry      == Permutations(Procs)
=============================================================================
