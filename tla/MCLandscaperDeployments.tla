----------------------- MODULE MCLandscaperDeployments -----------------------
(***************************************************************************)
(* LandscaperDeployments for the runs that check safety: what deployments  *)
(* and ServiceTargetConfigs are called makes no difference.                *)
(***************************************************************************)
EXTENDS LandscaperDeployments, TLC

Symmetry == Permutations(Deployments) \cup Permutations(Targets)
=============================================================================
