------------------------------ MODULE MCAiJobs ------------------------------
(***************************************************************************)
(* Instances of AiJobs for TLC.                                            *)
(***************************************************************************)
EXTENDS AiJobs, TLC

CONSTANTS profileLot, arayanlarLot, w1, w2, r1, r2

OneLot == {profileLot}
OneEach == [l \in Lots |-> 1]
TwoWorkers == {w1, w2}
OneRequest == {r1}
TwoRequests == {r1, r2}
AllCallers == Workers \cup Requests

=============================================================================
