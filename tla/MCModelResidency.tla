-------------------------- MODULE MCModelResidency --------------------------
(* Two models with a file make a swap, a third name stands for one the rig *)
(* does not have; one task of each kind is enough for each pair to race.   *)
EXTENDS ModelResidency

CONSTANTS a, b, ghost, turn, job, command, reconciler, updater
TwoModels == {a, b}
AnyModel == {a, b, None}
DefaultA == {a, None}
OnlyA == {a}
OnlyNone == {None}
WithGhost == {a, b, ghost}
OneTurn == {turn}
OneJob == {job}
OneCommand == {command}
OneReconciler == {reconciler}
OneUpdater == {updater}
Nobody == {}
=============================================================================
