------------------------- MODULE MCPluginSupervisor -------------------------
(* Instances of the plugin supervisor for model checking.                   *)
EXTENDS PluginSupervisor
=============================================================================
