---------------------------- MODULE MCReconcile ----------------------------
(* Instances of the driver with its watchdog: "a" a synchronous stage, "b"   *)
(* one that submits a task.                                                  *)
EXTENDS Reconcile

BothStages == {<<"a", "b">>}
TaskOnly   == {<<"b">>}
=============================================================================
