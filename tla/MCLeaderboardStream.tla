------------------------ MODULE MCLeaderboardStream ------------------------
(***************************************************************************)
(* Instances of LeaderboardStream for TLC.                                 *)
(***************************************************************************)
EXTENDS LeaderboardStream

CONSTANTS k1, k2

\* The first contest's board changes twice, the second's does not.
MCMaxScore == <<2, 0>>
=============================================================================
