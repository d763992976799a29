---------------------------- MODULE MCPoolHealth ----------------------------
(* Instances of PoolHealth for TLC: a subject whose bucket moves when its    *)
(* project is learned, with two account IDs that may stand for it in turn.   *)
EXTENDS PoolHealth, TLC

CONSTANTS p1, p2, g1, g2, gemini, kBlank, kProject

mcAccounts == {g1, g2}
mcSubjectOf == (g1 :> gemini) @@ (g2 :> gemini)
mcKeyFor == (<<gemini, "blank">> :> kBlank) @@ (<<gemini, "project">> :> kProject)
mcSymmetry == Permutations(mcAccounts)
=============================================================================
