---------------------------- MODULE MCEngineSafe ----------------------------
(* The instances of MCEngine, with the mapping to SafeApply.               *)
EXTENDS MCEngine, EngineSafe
=============================================================================
