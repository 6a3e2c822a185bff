------------------------- MODULE MCContestLifecycle -------------------------
(***************************************************************************)
(* Instances of ContestLifecycle for TLC.                                  *)
(***************************************************************************)
EXTENDS ContestLifecycle, TLC

CONSTANTS c1, c2, a1, a2, red

\* Two submissions of one team.
OneTeam == [s \in 1..2 |-> red]

\* A zero score, a score, and the same score with a better correctness.
ThreeGrades == {<<0, 0>>, <<1, 0>>, <<1, 1>>}

\* Contests and admins are interchangeable.
Symmetry == Permutations(Contests) \cup Permutations(Admins)

\* One score.
OneGrade == {<<1, 0>>}

=============================================================================
