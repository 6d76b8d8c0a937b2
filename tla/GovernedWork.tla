----------------------------- MODULE GovernedWork -----------------------------
(***************************************************************************)
(* What the control plane promises the submitter of a request, whatever    *)
(* the engine does underneath (control_plane/README.md, "Approval" and     *)
(* "Execution"): a request is decided once; work that a person must        *)
(* validate waits for that person; a handler is attempted only for cleared *)
(* work; and a request that was stopped, or has its result, stays there.   *)
(***************************************************************************)
CONSTANTS
  Keys,            \* idempotency keys
  Refused,         \* keys no submission ever clears
  Held             \* keys that need a person; none of them is refused

VARIABLES
  stage,           \* key -> where its request stands
  tried            \* keys whose handler was attempted

Stages == {"none", "held", "cleared", "done", "stopped"}

Init == stage = [k \in Keys |-> "none"] /\ tried = {}

Move(k, from, to) ==
  /\ stage[k] = from
  /\ stage' = [stage EXCEPT ![k] = to]
  /\ UNCHANGED tried

Hold(k) == k \in Held /\ Move(k, "none", "held")

Admit(k) == k \notin Refused \cup Held /\ Move(k, "none", "cleared")

Approve(k) == Move(k, "held", "cleared")

Attempt(k) ==
  /\ stage[k] = "cleared"
  /\ tried' = tried \cup {k}
  /\ UNCHANGED stage

Finish(k) == k \in tried /\ Move(k, "cleared", "done")

Stop(k) == \E from \in {"none", "held", "cleared"} : Move(k, from, "stopped")

Next == \E k \in Keys :
  Hold(k) \/ Admit(k) \/ Approve(k) \/ Attempt(k) \/ Finish(k) \/ Stop(k)

Spec == Init /\ [][Next]_<<stage, tried>>
===============================================================================
