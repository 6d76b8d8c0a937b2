--------------------------- MODULE CockpitEngine ---------------------------
(***************************************************************************)
(* CockpitStateEngine of ingest_engine.py: it takes in telemetry ticks,    *)
(* raises a recommendation when a tick calls for one, waits for a manager  *)
(* to decide on it, and marks an approved one executed on the next tick.   *)
(*                                                                         *)
(* Every method runs under one lock and awaits nothing inside it, so each  *)
(* is a step.  Whether a tick triggers (a service level below the limit or *)
(* the velocity of the backlog over the window) is chosen.  The texts and  *)
(* figures of a recommendation, and the log of transitions, which nothing  *)
(* reads back, are left out.                                               *)
(***************************************************************************)
EXTENDS Integers, Sequences

CONSTANTS
    CooldownTicks,  \* POST_DECISION_COOLDOWN_TICKS
    MaxRecs         \* bound: the recommendations ever raised

ASSUME CockpitAssumption == CooldownTicks \in Nat /\ MaxRecs \in Nat

VARIABLES
    window,     \* the ticks taken in, in the order they were
    recs,       \* the status of each recommendation, in the order raised
    pending,    \* _pending_id: its place in recs, or 0
    cooldown,   \* ticks to let pass before another one
    decided     \* how many ticks had been taken in at the last decision

engineVars == <<window, recs, pending, cooldown, decided>>

Statuses == {"PENDING", "APPROVED", "REJECTED", "EXECUTED"}

EngineTypeOK ==
    /\ window \in Seq(Nat)
    /\ recs \in Seq(Statuses) /\ Len(recs) <= MaxRecs
    /\ pending \in 0..Len(recs)
    /\ cooldown \in 0..CooldownTicks
    /\ decided \in 0..Len(window)

EngineInit ==
    /\ window = <<>> /\ recs = <<>> /\ pending = 0 /\ cooldown = 0
    /\ decided = 0

\* _dispatch_approved: what a tick does to the recommendations there are.
Executed == [i \in DOMAIN recs |-> IF recs[i] = "APPROVED" THEN "EXECUTED" ELSE recs[i]]

\* Mutant of MayRaise: the cooldown is not looked at.
RaiseAnyway == pending = 0

MayRaise == pending = 0 /\ cooldown = 0

\* ingest
Ingest(t, triggered) ==
    LET raise == triggered /\ MayRaise
        next == IF raise THEN Append(Executed, "PENDING") ELSE Executed IN
    /\ raise => Len(recs) < MaxRecs
    /\ window' = Append(window, t)
    /\ recs' = next
    /\ pending' = IF raise THEN Len(next) ELSE pending
    /\ cooldown' = IF cooldown > 0 THEN cooldown - 1 ELSE 0
    /\ UNCHANGED decided

\* decide: only what is still pending can be decided, and once.
Decide(i, status) ==
    /\ recs[i] = "PENDING"
    /\ recs' = [recs EXCEPT ![i] = status]
    /\ pending' = 0
    /\ cooldown' = CooldownTicks
    /\ decided' = Len(window)
    /\ UNCHANGED window
=============================================================================
