---------------------------- MODULE GovernanceGate ----------------------------
(***************************************************************************)
(* The bounded-autonomy gate of control_plane/governance.py: a pure        *)
(* decision over a role's profile and one task.  It answers "deny" (the    *)
(* task is isolated), "hold" (a human must validate it) or "go" (inside    *)
(* every boundary), or raises on a cost or a confidence that is no number  *)
(* in range.  Reason codes and messages are left out: callers branch on    *)
(* the answer alone.                                                       *)
(***************************************************************************)
EXTENDS Naturals

CONSTANTS
  Roles,               \* the role ids of the organization catalog
  Limit,               \* role -> financial ceiling; a role outside its domain
                       \* is unlimited (limit None)
  Reads,               \* role -> classifications it may touch
  Owns,                \* role -> engines it owns
  NoEngine,            \* the target_engine None of a task without an engine
  OversightOnly,       \* roles that propose and review but never execute
  AutonomyConfidence   \* MIN_AUTONOMY_CONFIDENCE, in the unit of a task

ASSUME GateAssumption ==
  /\ DOMAIN Limit \subseteq Roles
  /\ \A role \in DOMAIN Limit : Limit[role] \in Nat
  /\ AutonomyConfidence \in Nat
  /\ OversightOnly \subseteq Roles

\* The early returns of evaluate_gate that no approval can lift.
OutsideProfile(task) ==
  \/ task.role \notin Roles
  \/ task.classification \notin Reads[task.role]
  \/ task.engine # NoEngine /\ task.engine \notin Owns[task.role]

ExceedsLimit(role, cost) == role \in DOMAIN Limit /\ cost > Limit[role]

\* The boundaries that freeze a task for a human.
NeedsHuman(task) ==
  \/ ExceedsLimit(task.role, task.cost)
  \/ task.confidence < AutonomyConfidence
  \/ task.asks

\* The oversight check comes last, after the boundaries that hold a task.
EvaluateGate(task) ==
  IF ~task.numeric THEN "raise"
  ELSE IF OutsideProfile(task) THEN "deny"
  ELSE IF NeedsHuman(task) THEN "hold"
  ELSE IF task.role \in OversightOnly THEN "deny" ELSE "go"

===============================================================================
