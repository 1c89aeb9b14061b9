-------------------------- MODULE MCPipelineReplay --------------------------
(***************************************************************************)
(* Instances of PipelineReplay for TLC: two processes and, on two  *)
(* cut-off dates, two sources, two approvals and two processor bundles.    *)
(***************************************************************************)
EXTENDS PipelineReplay, TLC

CONSTANTS r1, r2, r3, d1, s1, s2, s3, m1, m2, m3, m4, f1, f2, pa, pb

TwoRuns == {r1, r2}
MCDigest == {d1}

\* an earlier cut-off date, a later one, the later one under other processors,
\* with another source, and under another approval of the same source
Earlier == [asOf |-> 1, sha |-> s1, approval |-> m1, processor |-> pa, file |-> f1]
Later == [asOf |-> 2, sha |-> s2, approval |-> m2, processor |-> pa, file |-> f2]
Reprocessed == [asOf |-> 2, sha |-> s2, approval |-> m2, processor |-> pb, file |-> f2]
Disputed == [asOf |-> 2, sha |-> s3, approval |-> m3, processor |-> pa, file |-> f2]
Reapproved == [asOf |-> 2, sha |-> s2, approval |-> m4, processor |-> pa, file |-> f2]

TwoIdentities == {Earlier, Later}
TwoApprovals == {Later, Reapproved}
FourIdentities == {Earlier, Later, Reprocessed, Disputed}

Symm == Permutations(Run)
=============================================================================
