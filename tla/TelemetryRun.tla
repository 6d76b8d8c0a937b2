---------------------------- MODULE TelemetryRun ----------------------------
(***************************************************************************)
(* The supervisor posts the twin's ticks to the ingest engine, where a     *)
(* manager decides on what it recommends (supervisor.py and the routes     *)
(* POST /api/v1/telemetry and /api/v1/cockpit/approve of ingest_engine.py).*)
(* The engine does not restart, and the manager holds the key.             *)
(***************************************************************************)
EXTENDS FiniteSets, TelemetryRelay, CockpitEngine

vars == <<relayVars, engineVars>>

TypeOK == RelayTypeOK /\ EngineTypeOK

Init == RelayInit /\ EngineInit

\* POST /api/v1/telemetry
PostTelemetry(r, triggered) ==
    /\ Handled(r)
    /\ Ingest(r.tick, triggered)

\* POST /api/v1/cockpit/approve
PostApprove(i, status) ==
    /\ Decide(i, status)
    /\ UNCHANGED relayVars

Next ==
    \/ RelayNext /\ UNCHANGED engineVars
    \/ \E r \in requests, triggered \in BOOLEAN : PostTelemetry(r, triggered)
    \/ \E i \in DOMAIN recs, status \in {"APPROVED", "REJECTED"} : PostApprove(i, status)

Spec == Init /\ [][Next]_vars

-----------------------------------------------------------------------------
\* The engine takes the ticks in once each and in their order, except those whose
\* attempt timed out: the engine may have handled it, or handle it yet.
OrderKept ==
    \A i, j \in DOMAIN window :
        i < j => window[i] < window[j] \/ {window[i], window[j]} \cap overtime # {}

\* The supervisor reports success only when the twin ended by itself and the
\* engine took in every one of its ticks; however it ends, unless while it reaps
\* the twin, the twin is gone, and what it counted as delivered was taken in.
AccountTrue ==
    LET taken == {window[i] : i \in DOMAIN window} IN
    /\ delivered \subseteq taken
    /\ relay.at = "ended" => twin # "running"
    /\ relay.exit = "success" => twin = "clean" /\ taken = 1..Ticks

\* After a decision CooldownTicks different ticks pass before the next
\* recommendation, unless one of those that passed was delivered again, which
\* counts twice.
CooldownKept ==
    [][Len(recs') > Len(recs) /\ decided # 0 =>
          LET quiet == {window[i] : i \in (decided + 1)..Len(window)} IN
          Cardinality(quiet) >= CooldownTicks \/ quiet \cap overtime # {}]_vars
=============================================================================
