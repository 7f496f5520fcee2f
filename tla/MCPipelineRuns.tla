---------------------------- MODULE MCPipelineRuns ----------------------------
(* Instances of PipelineRuns for TLC. *)
EXTENDS PipelineRuns, TLC

Symmetry == Permutations(Https)

(* Races for the status, races for the registry, and all kinds together.     *)
Settling == {"run", "webhook", "watch", "cron", "create"}
Accepting == {"run", "wait", "watch", "cron"}
Removing == {"run", "create", "delete"}

Races == {Settling, Accepting, Removing}
=============================================================================
