---------------------------- MODULE MCRecording ----------------------------
(***************************************************************************)
(* Instances of Recording for TLC: behaviours that start with a draft or   *)
(* with notes that are ready, and differ in who calls how often.           *)
(***************************************************************************)
EXTENDS Recording, TLC

CONSTANTS h1, h2

TwoHosts == {h1, h2}
ReadyDraft == [Draft EXCEPT !.status = "SUBMITTED", !.prep = "READY", !.rev = 1]
HostedReady == [ReadyDraft EXCEPT !.host = h1]
DraftOrReady == {Draft, HostedReady}

Cast(f) == [p \in Callers |-> IF p \in DOMAIN f THEN f[p] ELSE 0]
Mixed == {Cast(Admin :> 3 @@ h1 :> 1 @@ Candidate :> 2),
          Cast(Admin :> 1 @@ h1 :> 1 @@ Candidate :> 3),
          Cast(Admin :> 1 @@ h1 :> 1 @@ h2 :> 1 @@ Candidate :> 2)}

=============================================================================
