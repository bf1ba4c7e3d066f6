---------------------------- MODULE MCNamespace -----------------------------
(* The instance of Namespace for NamespaceEarlyStop.cfg: one service that  *)
(* runs on demand and is stopped when idle.                                *)
EXTENDS Namespace

MCOnDemand ==
  [pod_spec: PodSpecs, respects_demand: {TRUE}, suspend_on_idle: {FALSE}, run_policy: {"Service"}]
=============================================================================
