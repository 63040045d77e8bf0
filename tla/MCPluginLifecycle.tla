--------------------------- MODULE MCPluginLifecycle --------------------------
(* Model-checking instances of PluginLifecycle: the cfg files give the     *)
(* constants their values.  No symmetry: the model picks new container ids *)
(* with CHOOSE, and the runs have one administrator.                       *)
EXTENDS PluginLifecycle
=============================================================================
