--------------------------- MODULE MCInvitations ---------------------------
(* A small instance of Invitations: an administrator and a member, one      *)
(* workspace, two links and two requests at a time.                         *)
EXTENDS Invitations, TLC

CONSTANTS admin, member, team1, link1, link2, req1, req2, None

Everyone == {admin, member}
Staff == {admin}
Teams == {team1}
TwoLinks == {link1, link2}
TwoRequests == {req1, req2}
Alike == Permutations(TwoRequests)
Kinds == link1 :> {<<"MEMBERSHIP", None>>, <<"EPISODE_ASSOCIATION", member>>}
      @@ link2 :> {<<"MEMBERSHIP", member>>, <<"SPEAKER_STATUS", None>>}
Ends == {member}
=============================================================================
