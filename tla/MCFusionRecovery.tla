-------------------------- MODULE MCFusionRecovery --------------------------
(* Programs for model-checking FusionRecovery. *)
EXTENDS FusionRecovery

Only(kinds) == [p \in PCs |-> IF p \in DOMAIN kinds THEN kinds[p] ELSE "none"]

\* Two overlapping pairs, and two loads with a gap between them.
Pairs == Only(<<"pair", "pair", "none", "ncsf">>)
Triple == Only(<<"pair", "none", "triple">>)
=============================================================================
