--------------------------- MODULE TelemetryRelay ---------------------------
(***************************************************************************)
(* supervisor.py: it starts the operations twin, reads one line for each   *)
(* tick from the twin's output, posts the tick to the ingest engine, holds *)
(* it through a budget of attempts, and reaps the twin.                    *)
(*                                                                         *)
(* A request that was sent stays in requests until the engine handles it:  *)
(* the supervisor's time-out does not take it back, and a request that is  *)
(* lost is one that is never handled.  The backoff between two attempts    *)
(* and the grace periods are times, and left out.  So is how far the twin  *)
(* is ahead of its reader: its next line may be read while it runs, after  *)
(* it exited, or after it failed, which may have been before it wrote that *)
(* line.  Waiting for the twin, terminating and killing it is one step,    *)
(* Reap.                                                                   *)
(***************************************************************************)
EXTENDS Integers, Sequences

CONSTANTS
    Ticks,     \* the number of ticks the twin was asked for
    Attempts   \* RetryPolicy.attempts

ASSUME RelayAssumption == Ticks \in Nat \ {0} /\ Attempts \in Nat \ {0}

VARIABLES
    twin,       \* "running", "clean", "failed", "stopped"
    relay,      \* where the supervisor is; "left": without the end of its twin
    requests,   \* the attempts the engine may still handle
    answered,   \* it has handled the attempt the supervisor waits for
    delivered,  \* the ticks counted as delivered
    dropped,    \* the ticks counted as dropped
    overtime    \* the ticks of attempts that timed out after they were sent

relayVars == <<twin, relay, requests, answered, delivered, dropped, overtime>>

Request == [tick : 1..Ticks, attempt : 1..Attempts]

RelayTypeOK ==
    /\ twin \in {"running", "clean", "failed", "stopped"}
    /\ relay \in [at : {"reading", "posting", "waiting", "reaping", "ended", "left"},
                  tick : 0..Ticks, attempt : 0..Attempts,
                  exit : {"none", "success", "failure", "interrupted"}]
    /\ requests \subseteq Request
    /\ answered \in BOOLEAN
    /\ delivered \subseteq 1..Ticks
    /\ dropped \subseteq 1..Ticks
    /\ overtime \subseteq 1..Ticks

RelayInit ==
    /\ twin = "running"
    /\ relay = [at |-> "reading", tick |-> 0, attempt |-> 0, exit |-> "none"]
    /\ requests = {} /\ answered = FALSE
    /\ delivered = {} /\ dropped = {} /\ overtime = {}

Current == [tick |-> relay.tick, attempt |-> relay.attempt]

-----------------------------------------------------------------------------
\* The twin exits, its lines written, or it fails.
TwinExits ==
    /\ twin = "running"
    /\ twin' \in {"clean", "failed"}
    /\ UNCHANGED <<relay, requests, answered, delivered, dropped, overtime>>

-----------------------------------------------------------------------------
\* The supervisor goes on; an answer it does not wait for reaches nobody.
Moves(next) ==
    /\ relay' = next
    /\ answered' = FALSE
    /\ UNCHANGED twin

\* The next line is an envelope.
Read ==
    /\ relay.at = "reading" /\ relay.tick < Ticks
    /\ Moves([relay EXCEPT !.at = "posting", !.tick = @ + 1, !.attempt = 1])
    /\ UNCHANGED <<requests, delivered, dropped, overtime>>

\* The run is over before its stream is: a line a failing twin left unfinished,
\* a tick the engine refuses, an interruption.
Abort(exit) ==
    /\ Moves([relay EXCEPT !.at = "reaping", !.exit = exit])
    /\ UNCHANGED <<requests, delivered, dropped, overtime>>

BadLine ==
    /\ relay.at = "reading" /\ relay.tick < Ticks /\ twin = "failed"
    /\ Abort("failure")

Interrupt ==
    /\ relay.at \in {"reading", "posting", "waiting"}
    /\ Abort("interrupted")

\* An interruption of the reaping leaves the twin as it is.
InterruptReap ==
    /\ relay.at = "reaping"
    /\ Moves([relay EXCEPT !.at = "left", !.exit = "interrupted"])
    /\ UNCHANGED <<requests, delivered, dropped, overtime>>

\* The output of the twin ends before the twin does.
EndOfStream ==
    /\ relay.at = "reading"
    /\ twin = "failed" \/ relay.tick = Ticks
    /\ Moves([relay EXCEPT !.at = "reaping"])
    /\ UNCHANGED <<requests, delivered, dropped, overtime>>

Post ==
    /\ relay.at = "posting"
    /\ requests' = requests \cup {Current}
    /\ Moves([relay EXCEPT !.at = "waiting"])
    /\ UNCHANGED <<delivered, dropped, overtime>>

\* Mutant of Delivered: a sent request counts as delivered.
DeliveredWhenSent ==
    /\ relay.at = "waiting"
    /\ delivered' = delivered \cup {relay.tick}
    /\ Moves([relay EXCEPT !.at = "reading"])
    /\ UNCHANGED <<requests, dropped, overtime>>

Delivered ==
    /\ relay.at = "waiting" /\ answered
    /\ delivered' = delivered \cup {relay.tick}
    /\ Moves([relay EXCEPT !.at = "reading"])
    /\ UNCHANGED <<requests, dropped, overtime>>

\* A 4xx: the engine refuses this tick, and would refuse every one.
Refused ==
    /\ relay.at = "waiting" /\ Current \in requests
    /\ requests' = requests \ {Current}
    /\ Moves([relay EXCEPT !.at = "reaping", !.exit = "failure"])
    /\ UNCHANGED <<delivered, dropped, overtime>>

\* The payload is given up and counted, and the next line read.
Drop ==
    /\ dropped' = dropped \cup {relay.tick}
    /\ Moves([relay EXCEPT !.at = "reading"])

\* Mutant of Held: one attempt more than the budget.
HeldOnceMore ==
    \/ /\ relay.attempt <= Attempts
       /\ Moves([relay EXCEPT !.at = "posting", !.attempt = @ + 1])
       /\ UNCHANGED dropped
    \/ relay.attempt > Attempts /\ Drop

\* Mutant of Held: a payload that ran out of attempts is not counted.
DroppedUnseen ==
    \/ /\ relay.attempt < Attempts
       /\ Moves([relay EXCEPT !.at = "posting", !.attempt = @ + 1])
       /\ UNCHANGED dropped
    \/ /\ relay.attempt = Attempts
       /\ Moves([relay EXCEPT !.at = "reading"])
       /\ UNCHANGED dropped

\* Another attempt, or the payload is dropped.
Held ==
    \/ /\ relay.attempt < Attempts
       /\ Moves([relay EXCEPT !.at = "posting", !.attempt = @ + 1])
       /\ UNCHANGED dropped
    \/ relay.attempt = Attempts /\ Drop

\* The engine cannot be reached, or answers 5xx or 429: it did not handle it.
Unreachable ==
    /\ \/ relay.at = "posting" /\ UNCHANGED requests
       \/ /\ relay.at = "waiting" /\ Current \in requests
          /\ requests' = requests \ {Current}
    /\ Held
    /\ UNCHANGED <<delivered, overtime>>

\* An answer that is none of 2xx, 4xx and 5xx, as a redirection, which the client
\* does not follow: no other attempt is made, and the run goes on.
Diverted ==
    /\ relay.at = "waiting" /\ Current \in requests
    /\ requests' = requests \ {Current}
    /\ Drop
    /\ UNCHANGED <<delivered, overtime>>

\* No answer in time, or the connection breaks: the engine may have handled the
\* request, may handle it yet, or never will.
TimeOut ==
    /\ relay.at = "waiting"
    /\ overtime' = overtime \cup {relay.tick}
    /\ Held
    /\ UNCHANGED <<requests, delivered>>

\* The engine's side of a request, with Ingest of the engine.
Handled(r) ==
    /\ requests' = requests \ {r}
    /\ answered' = (answered \/ (relay.at = "waiting" /\ r = Current))
    /\ UNCHANGED <<twin, relay, delivered, dropped, overtime>>

Exit ==
    IF relay.exit # "none" THEN relay.exit
    ELSE IF twin' # "clean" \/ dropped # {} THEN "failure" ELSE "success"

\* _reap and _classify.  After the end of its stream the twin has time to exit.
Reap ==
    /\ relay.at = "reaping"
    /\ IF twin = "running"
       THEN twin' \in {"stopped"} \cup (IF relay.exit = "none" THEN {"clean"} ELSE {})
       ELSE UNCHANGED twin
    /\ relay' = [relay EXCEPT !.at = "ended", !.exit = Exit]
    /\ UNCHANGED <<requests, answered, delivered, dropped, overtime>>

RelayNext ==
    \/ TwinExits
    \/ Read \/ BadLine \/ Interrupt \/ InterruptReap \/ EndOfStream
    \/ Post \/ Delivered \/ Refused \/ Unreachable \/ Diverted \/ TimeOut
    \/ Reap
=============================================================================
