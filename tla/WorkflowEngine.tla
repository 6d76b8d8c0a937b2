---------------------------- MODULE WorkflowEngine ----------------------------
(***************************************************************************)
(* The control-plane workflow engine (control_plane/engine.py) over its    *)
(* durable store (control_plane/store.py).                                 *)
(*                                                                         *)
(* Each caller of submit, approve, execute or cancel is a thread of a      *)
(* worker pool or a process of its own.  A call works on a private copy of *)
(* the workflow and touches shared state one store operation at a time, so *)
(* a call is a sequence of phases and a phase is                           *)
(*                                                                         *)
(*    save    transition the copy and write the whole row back             *)
(*    number  read the next event sequence number      \ once per event    *)
(*    append  insert the event under that number       / of the phase      *)
(*    audit   append to the audit trail                                    *)
(*                                                                         *)
(* after which the call enters its next phase or returns.  A call may die  *)
(* between any two of these steps, and any of its store operations may     *)
(* fail and raise.  Store operations are atomic here, as they are between  *)
(* connections: one that fails leaves nothing behind.  Callers that share  *)
(* one connection are the subject of StoreConnection.  Idempotency keys    *)
(* stand for the workflows they are unique to: a key carries the same      *)
(* request each time.                                                      *)
(***************************************************************************)
EXTENDS Naturals, Sequences, WorkflowStates, GovernanceGate, SegregationOfDuties

CONSTANTS
  Threads,             \* concurrent callers
  Keys,                \* idempotency keys
  Request,             \* key -> the request submitted under it
  Approvers,           \* the approvers a decision may name
  NoApprover,          \* the approver of a call that is not an approval
  MaxRetries,          \* max_retries of a workflow
  MaxCalls,            \* bound: calls begun in a behaviour
  MaxAuditFailures,    \* bound: audit writes that fail
  MaxDeaths,           \* bound: calls cut off by a crash
  MaxStoreFailures,    \* bound: store operations that fail
  MaxHalts             \* bound: engagements of the kill switch

ASSUME EngineAssumption ==
  /\ Keys # {} /\ \A k \in Keys : Request[k].asks \in BOOLEAN
  /\ {MaxRetries, MaxCalls, MaxAuditFailures, MaxDeaths, MaxStoreFailures, MaxHalts}
       \subseteq Nat

VARIABLES
  row,          \* workflows table: key -> the stored workflow
  events,       \* events table: key -> the workflow's event stream
  orphans,      \* keys whose refusal was logged under an id no row has
  trail,        \* audit trail: key -> phases with an audit record
  halted,       \* halt_state covers the callers' tenant
  overdue,      \* key -> its deadline has passed
  call,         \* thread -> the call it is in
  runs,         \* key -> times its handler was invoked
  wins,         \* key -> times its handler returned a result
  grace,        \* threads already past the halt check at the last engagement
  faults,       \* key -> calls on it cut short by a crash or a failing store
  calls, auditFailures, deaths, storeFailures, halts   \* counters for the bounds

vars == <<row, events, orphans, trail, halted, overdue, call, runs, wins, grace,
          faults, calls, auditFailures, deaths, storeFailures, halts>>
counters == <<faults, calls, auditFailures, deaths, storeFailures, halts>>
-------------------------------------------------------------------------------
(* What a phase does.                                                       *)

\* Mutant of Target: failing closed assigns a state that does not exist.
MisspeltTarget ==
  [ created  |-> "proposed",          refused   |-> "dead_letter",
    validate |-> "validated",         invalid   |-> "failed",
    gatefail |-> "failed",            isolate   |-> "dead_letter",
    hold     |-> "awaiting_approval", late      |-> "dead_letter",
    go       |-> "executing",         grant     |-> "approved",
    deny     |-> "dead_letter",       nohandler |-> "dead_letter",
    succeed  |-> "succeeded",         close     |-> "closed",
    retry    |-> "executing",         fail      |-> "failed",
    exhaust  |-> "dead_letter",       cancel    |-> "cancelled",
    withdraw |-> "closed",            failclosed |-> "dead" ]

\* The state a phase moves the workflow to; "retry" only updates the row.
Target ==
  [ created  |-> "proposed",          refused   |-> "dead_letter",
    validate |-> "validated",         invalid   |-> "failed",
    gatefail |-> "failed",            isolate   |-> "dead_letter",
    hold     |-> "awaiting_approval", late      |-> "dead_letter",
    go       |-> "executing",         grant     |-> "approved",
    deny     |-> "dead_letter",       nohandler |-> "dead_letter",
    succeed  |-> "succeeded",         close     |-> "closed",
    retry    |-> "executing",         fail      |-> "failed",
    exhaust  |-> "dead_letter",       cancel    |-> "cancelled",
    withdraw |-> "closed",            failclosed |-> "dead_letter" ]

Phases == DOMAIN Target

\* Phases that emit two events; every other phase emits one.
TwoEvents == {"late", "grant", "deny", "nohandler", "succeed", "retry"}

\* Mutant of Consequential: the record of a success is best effort.
BestEffortSuccess == {"created", "validate", "go", "grant", "deny", "close", "fail"}

\* Phases whose audit record is consequential: losing it fails the call closed.
Consequential == {"created", "validate", "go", "grant", "deny", "succeed",
                  "close", "fail"}

\* Phases that write no audit record.
Unaudited == {"cancel", "withdraw", "failclosed"}

\* Phases that assign workflow.state instead of calling transition().
Assigned == {"invalid", "failclosed"}

\* Mutant of Following: execute does not go on to close.
NeverClosing == [created |-> "validate", gatefail |-> "isolate", grant |-> "go",
                 fail |-> "exhaust", cancel |-> "withdraw"]

\* The phase that follows unconditionally.
Following == [created |-> "validate", gatefail |-> "isolate", grant |-> "go",
              succeed |-> "close", fail |-> "exhaust", cancel |-> "withdraw"]

\* The except clause a phase runs under: submit's `except ValueError` around
\* validation, execute's `except Exception` around an attempt.
Guards == [validate |-> "validation", succeed |-> "attempt", close |-> "attempt"]
-------------------------------------------------------------------------------
(* Rows and calls.                                                          *)

NoRow == [state |-> "none", needs |-> FALSE, retries |-> 0, out |-> FALSE]

NewRow(k, s) == [state |-> s, needs |-> Request[k].asks, retries |-> 0, out |-> FALSE]

Idle == [op |-> "none", key |-> CHOOSE k \in Keys : TRUE, phase |-> "created",
         point |-> "check", guard |-> "none", row |-> NoRow, seq |-> 0,
         left |-> 0, attempt |-> 0, by |-> NoApprover]

Busy(t) == call[t].op # "none"

Invoke(op, k, phase, point, r, by) ==
  [Idle EXCEPT !.op = op, !.key = k, !.phase = phase, !.point = point,
               !.row = r, !.by = by]

\* The call enters a phase: its next step saves the row.
InPhase(c, p) ==
  [c EXCEPT !.phase = p, !.point = "save",
            !.guard = IF p \in DOMAIN Guards THEN Guards[p]
                      ELSE IF p = "failclosed" THEN @ ELSE "none"]

\* Mutant of Raised: the store operation is attempted again instead.
TryingAgain(c) ==
  IF c.guard = "validation" THEN InPhase(c, "invalid") ELSE c

\* Where an exception takes the call: an enclosing handler, or its caller.
Raised(c) ==
  IF c.guard = "validation" THEN InPhase(c, "invalid")
  ELSE IF c.guard = "attempt" THEN InPhase(c, "retry") ELSE Idle

\* Where a failing store operation takes the call: only the attempt loop catches
\* every exception, and not the ones raised while it handles one.
Failing(c) == IF c.guard = "attempt" THEN InPhase(c, "retry") ELSE Idle

\* Mutant of AfterRetry: one attempt too many.
OneMoreRetry(c) ==
  IF c.attempt > MaxRetries + 1 THEN InPhase(c, "fail")
  ELSE [c EXCEPT !.point = "run", !.guard = "none"]

\* The handler loop: break once retry_count exceeds max_retries.
AfterRetry(c) ==
  IF c.attempt > MaxRetries THEN InPhase(c, "fail")
  ELSE [c EXCEPT !.point = "run", !.guard = "none"]

\* The call once the writes of its phase are done.
Continue(c) ==
  IF c.phase \in DOMAIN Following THEN InPhase(c, Following[c.phase])
  ELSE IF c.phase = "validate" THEN [c EXCEPT !.point = "gate"]
  ELSE IF c.phase = "retry" THEN AfterRetry(c)
  ELSE Idle

\* The row a phase writes.
Saved(c) ==
  [c.row EXCEPT !.state = IF c.phase = "retry" THEN @ ELSE Target[c.phase],
                !.needs = @ \/ c.phase = "hold",
                !.retries = IF c.phase = "retry" THEN c.attempt ELSE @]

CanSave(c) ==
  c.phase \in Assigned \cup {"retry"} \/ IsValidTransition(c.row.state, Target[c.phase])

\* Mutant of Verdict: only an explicit request for approval holds the work.
IgnoringHold(c) ==
  LET answer == EvaluateGate(Request[c.key]) IN
  IF answer = "deny" THEN "gatefail"
  ELSE IF overdue[c.key] THEN "late"
  ELSE IF c.row.needs THEN "hold" ELSE "go"

\* submit's branch on the gate, the deadline and the approval flag.
Verdict(c) ==
  LET answer == EvaluateGate(Request[c.key]) IN
  IF answer = "deny" THEN "gatefail"
  ELSE IF answer = "hold" THEN "hold"
  ELSE IF overdue[c.key] THEN "late"
  ELSE IF c.row.needs THEN "hold" ELSE "go"
-------------------------------------------------------------------------------
Init ==
  /\ row = [k \in Keys |-> NoRow]
  /\ events = [k \in Keys |-> <<>>]
  /\ orphans = {}
  /\ trail = [k \in Keys |-> {}]
  /\ halted = FALSE
  /\ overdue = [k \in Keys |-> FALSE]
  /\ call = [t \in Threads |-> Idle]
  /\ runs = [k \in Keys |-> 0]
  /\ wins = [k \in Keys |-> 0]
  /\ grace = {}
  /\ faults = [k \in Keys |-> 0]
  /\ calls = 0 /\ auditFailures = 0 /\ deaths = 0 /\ storeFailures = 0 /\ halts = 0

Begin(t, c) ==
  /\ ~Busy(t) /\ calls < MaxCalls
  /\ call' = [call EXCEPT ![t] = c]
  /\ calls' = calls + 1
  /\ grace' = grace \ {t}
  /\ UNCHANGED <<row, events, orphans, trail, halted, overdue, runs, wins,
                 faults, auditFailures, deaths, storeFailures, halts>>

\* submit checks the halt before it looks for the key.
CallSubmit(t, k) == Begin(t, Invoke("submit", k, "created", "check", NoRow, NoApprover))

\* approve and execute read the row first; cancel is not gated by the halt.
CallApprove(t, k, a, decision) ==
  /\ row[k].state # "none"
  /\ Begin(t, Invoke("approve", k, decision, "check", row[k], a))

CallExecute(t, k) ==
  /\ row[k].state # "none"
  /\ Begin(t, Invoke("execute", k, "succeed", "check", row[k], NoApprover))

CallCancel(t, k) ==
  /\ row[k].state \notin {"none", "closed", "cancelled", "dead_letter"}
  /\ IsValidTransition(row[k].state, "cancelled")
  /\ Begin(t, Invoke("cancel", k, "cancel", "save", row[k], NoApprover))

\* A step of a call that changes only the call.
Local(t, c) ==
  /\ call' = [call EXCEPT ![t] = c]
  /\ UNCHANGED <<row, events, orphans, trail, halted, overdue, runs, wins, grace, counters>>

\* _enforce_not_halted: refuse on a halt, or on a halt state that cannot be read,
\* with an audit record unless that write fails too.
HaltRefuses(t) ==
  LET c == call[t] IN
  /\ Busy(t) /\ c.point = "check"
  /\ \/ halted /\ UNCHANGED storeFailures
     \/ /\ storeFailures < MaxStoreFailures
        /\ storeFailures' = storeFailures + 1
  /\ call' = [call EXCEPT ![t] = Idle]
  /\ \/ trail' = [trail EXCEPT ![c.key] = @ \cup {"halt"}] /\ UNCHANGED auditFailures
     \/ /\ auditFailures < MaxAuditFailures
        /\ auditFailures' = auditFailures + 1 /\ UNCHANGED trail
  /\ UNCHANGED <<row, events, orphans, halted, overdue, runs, wins, grace,
                 faults, calls, deaths, halts>>

CheckSubmit(t) ==
  LET c == call[t] IN
  /\ c.op = "submit" /\ c.point = "check" /\ ~halted
  /\ Local(t, [c EXCEPT !.point = "lookup"])

\* Mutant of CheckApprove: segregation of duties is not checked.
UncheckedApprover(t) ==
  LET c == call[t] IN
  /\ c.op = "approve" /\ c.point = "check" /\ ~halted
  /\ Local(t, IF c.row.state = "awaiting_approval" THEN InPhase(c, c.phase) ELSE Idle)

\* The approver is validated against the copy of the row the call read.
CheckApprove(t) ==
  LET c == call[t]
      q == Request[c.key]
  IN
  /\ c.op = "approve" /\ c.point = "check" /\ ~halted
  /\ Local(t, IF /\ c.row.state = "awaiting_approval"
                 /\ MayApprove(q.actor, q.owner, c.by)
              THEN InPhase(c, c.phase) ELSE Idle)

\* Mutant of CheckExecute: the halt is not checked.
Unhalted(t) ==
  LET c == call[t] IN
  /\ c.op = "execute" /\ c.point = "check"
  /\ Local(t, IF c.row.state # "executing" THEN Idle ELSE [c EXCEPT !.point = "run"])

CheckExecute(t) ==
  LET c == call[t] IN
  /\ c.op = "execute" /\ c.point = "check" /\ ~halted
  /\ Local(t, IF c.row.state # "executing" THEN Idle
              ELSE IF overdue[c.key] THEN InPhase(c, "late")
              ELSE IF ~Request[c.key].handled THEN InPhase(c, "nohandler")
              ELSE [c EXCEPT !.point = "run"])

\* Mutant of LookUp: submit does not look for the key.
NoLookUp(t) ==
  LET c == call[t] IN
  /\ Busy(t) /\ c.point = "lookup"
  /\ Local(t, [c EXCEPT !.point = "create",
                        !.phase = IF Request[c.key].admissible THEN "created"
                                  ELSE "refused"])

\* get_workflow_by_idempotency: a known key returns its workflow.
LookUp(t) ==
  LET c == call[t] IN
  /\ Busy(t) /\ c.point = "lookup"
  /\ Local(t, IF row[c.key].state # "none" THEN Idle
              ELSE [c EXCEPT !.point = "create",
                             !.phase = IF Request[c.key].admissible THEN "created"
                                       ELSE "refused"])

\* Mutant of Create: a refusal logs under the workflow that was there first.
SharedRefusal(t) ==
  LET c == call[t]
      k == c.key
      r == IF row[k].state = "none" THEN NewRow(k, Target[c.phase]) ELSE row[k]
  IN
  /\ Busy(t) /\ c.point = "create"
  /\ row' = [row EXCEPT ![k] = r]
  /\ call' = [call EXCEPT ![t].row = r, ![t].left = 1, ![t].point = "number"]
  /\ UNCHANGED <<events, orphans, trail, halted, overdue, runs, wins, grace, counters>>

\* create_workflow inserts, or returns the row another call inserted first.
\* A refusal ignores what is returned and logs under its own workflow id.
Create(t) ==
  LET c == call[t]
      k == c.key
      absent == row[k].state = "none"
      r == IF absent THEN NewRow(k, Target[c.phase]) ELSE row[k]
      stray == c.phase = "refused" /\ ~absent
  IN
  /\ Busy(t) /\ c.point = "create"
  /\ row' = [row EXCEPT ![k] = r]
  /\ orphans' = IF stray THEN orphans \cup {k} ELSE orphans
  /\ call' = [call EXCEPT ![t].row = r, ![t].left = 1,
                          ![t].point = IF stray THEN "audit" ELSE "number"]
  /\ UNCHANGED <<events, trail, halted, overdue, runs, wins, grace, counters>>

\* workflow.transition or assignment, then an unconditional UPDATE of the row.
Save(t) ==
  LET c == call[t] IN
  /\ Busy(t) /\ c.point = "save" /\ CanSave(c)
  /\ row' = [row EXCEPT ![c.key] = Saved(c)]
  /\ call' = [call EXCEPT ![t].row = Saved(c), ![t].point = "number",
                          ![t].left = IF c.phase \in TwoEvents THEN 2 ELSE 1]
  /\ UNCHANGED <<events, orphans, trail, halted, overdue, runs, wins, grace, counters>>

SaveRaises(t) ==
  LET c == call[t] IN
  /\ Busy(t) /\ c.point = "save" /\ ~CanSave(c)
  /\ Local(t, Raised(c))

Number(t) ==
  LET c == call[t] IN
  /\ Busy(t) /\ c.point = "number"
  /\ Local(t, [c EXCEPT !.seq = Len(events[c.key]) + 1, !.point = "append"])

\* The call after one of its events is in the log.
Logged(c) ==
  IF c.left > 1 THEN [c EXCEPT !.point = "number", !.left = @ - 1]
  ELSE IF c.phase \in Unaudited THEN Continue(c)
  ELSE [c EXCEPT !.point = "audit", !.left = 0]

AppendEvent(t) ==
  LET c == call[t] IN
  /\ Busy(t) /\ c.point = "append" /\ c.seq = Len(events[c.key]) + 1
  /\ events' = [events EXCEPT ![c.key] = Append(@, [phase |-> c.phase, by |-> c.by])]
  /\ call' = [call EXCEPT ![t] = Logged(c)]
  /\ UNCHANGED <<row, orphans, trail, halted, overdue, runs, wins, grace, counters>>

\* append_event: out-of-order sequence.
AppendRaises(t) ==
  LET c == call[t] IN
  /\ Busy(t) /\ c.point = "append" /\ c.seq # Len(events[c.key]) + 1
  /\ Local(t, Raised(c))

AuditWritten(t) ==
  LET c == call[t] IN
  /\ Busy(t) /\ c.point = "audit"
  /\ trail' = [trail EXCEPT ![c.key] = @ \cup {c.phase}]
  /\ call' = [call EXCEPT ![t] = Continue(c)]
  /\ UNCHANGED <<row, events, orphans, halted, overdue, runs, wins, grace, counters>>

\* AuditUnavailable for a consequential record; otherwise the loss is logged only.
AuditLost(t) ==
  LET c == call[t] IN
  /\ Busy(t) /\ c.point = "audit" /\ auditFailures < MaxAuditFailures
  /\ auditFailures' = auditFailures + 1
  /\ call' = [call EXCEPT ![t] = IF c.phase \in Consequential
                                 THEN InPhase(c, "failclosed") ELSE Continue(c)]
  /\ UNCHANGED <<row, events, orphans, trail, halted, overdue, runs, wins, grace,
                 faults, calls, deaths, storeFailures, halts>>

\* A gate that raises leaves submit: no handler encloses it.
Gate(t) ==
  LET c == call[t] IN
  /\ Busy(t) /\ c.point = "gate"
  /\ Local(t, IF EvaluateGate(Request[c.key]) = "raise" THEN Idle
              ELSE InPhase(c, Verdict(c)))

\* One invocation of the handler: it returns a result, or raises.
RunHandler(t) ==
  LET c == [call[t] EXCEPT !.attempt = @ + 1] IN
  /\ Busy(t) /\ c.point = "run"
  /\ runs' = [runs EXCEPT ![c.key] = @ + 1]
  /\ \/ /\ wins' = [wins EXCEPT ![c.key] = @ + 1]
        /\ call' = [call EXCEPT ![t] = InPhase([c EXCEPT !.row.out = TRUE], "succeed")]
     \/ /\ call' = [call EXCEPT ![t] = InPhase(c, "retry")]
        /\ UNCHANGED wins
  /\ UNCHANGED <<row, events, orphans, trail, halted, overdue, grace, counters>>

Step(t) ==
  \/ HaltRefuses(t) \/ CheckSubmit(t) \/ CheckApprove(t) \/ CheckExecute(t)
  \/ LookUp(t) \/ Create(t) \/ Save(t) \/ SaveRaises(t) \/ Number(t)
  \/ AppendEvent(t) \/ AppendRaises(t) \/ AuditWritten(t) \/ AuditLost(t)
  \/ Gate(t) \/ RunHandler(t)
-------------------------------------------------------------------------------
(* The environment.                                                         *)

\* The caller's process or worker is killed: what it wrote stays.
Die(t) ==
  /\ Busy(t) /\ deaths < MaxDeaths
  /\ call' = [call EXCEPT ![t] = Idle]
  /\ deaths' = deaths + 1
  /\ faults' = [faults EXCEPT ![call[t].key] = @ + 1]
  /\ UNCHANGED <<row, events, orphans, trail, halted, overdue, runs, wins, grace,
                 calls, auditFailures, storeFailures, halts>>

\* A store operation of the call raises (the database is locked, the disk full) and
\* has stored nothing; a copy that was to be saved has made its transition already.
StoreFails(t) ==
  LET c == call[t] IN
  /\ Busy(t) /\ storeFailures < MaxStoreFailures
  /\ \/ c.point \in {"lookup", "create", "number", "append"}
        /\ call' = [call EXCEPT ![t] = Failing(c)]
     \/ c.point = "save" /\ CanSave(c)
        /\ call' = [call EXCEPT ![t] = Failing([c EXCEPT !.row = Saved(c)])]
  /\ storeFailures' = storeFailures + 1
  /\ faults' = [faults EXCEPT ![c.key] = @ + 1]
  /\ UNCHANGED <<row, events, orphans, trail, halted, overdue, runs, wins, grace,
                 calls, auditFailures, deaths, halts>>

Expire(k) ==
  /\ Request[k].timed /\ row[k].state # "none" /\ ~overdue[k]
  /\ overdue' = [overdue EXCEPT ![k] = TRUE]
  /\ UNCHANGED <<row, events, orphans, trail, halted, call, runs, wins, grace, counters>>

Engage ==
  /\ ~halted /\ halts < MaxHalts
  /\ halted' = TRUE /\ halts' = halts + 1
  /\ grace' = {t \in Threads : Busy(t) /\ call[t].point # "check"}
  /\ UNCHANGED <<row, events, orphans, trail, overdue, call, runs, wins,
                 faults, calls, auditFailures, deaths, storeFailures>>

Release ==
  /\ halted /\ halted' = FALSE
  /\ UNCHANGED <<row, events, orphans, trail, overdue, call, runs, wins, grace, counters>>

Invocation(t) ==
  \E k \in Keys :
    \/ CallSubmit(t, k)
    \/ \E a \in Approvers, decision \in {"grant", "deny"} : CallApprove(t, k, a, decision)
    \/ CallExecute(t, k)
    \/ CallCancel(t, k)

Next ==
  \/ \E t \in Threads : Invocation(t) \/ Step(t) \/ Die(t) \/ StoreFails(t)
  \/ \E k \in Keys : Expire(k)
  \/ Engage \/ Release

\* A call in progress keeps running until it returns; nobody has to call.
Fairness == \A t \in Threads : WF_vars(Step(t))

Spec == Init /\ [][Next]_vars /\ Fairness
-------------------------------------------------------------------------------
(* Properties.                                                              *)

Row == [state : WorkflowState \cup {"none"}, needs : BOOLEAN, retries : Nat,
        out : BOOLEAN]

Call == [op : {"none", "submit", "approve", "execute", "cancel"}, key : Keys,
         phase : Phases, guard : {"none", "validation", "attempt"},
         point : {"check", "lookup", "create", "save", "number", "append",
                  "audit", "gate", "run"},
         row : Row, seq : Nat, left : Nat, attempt : Nat,
         by : Approvers \cup {NoApprover}]

Event == [phase : Phases, by : Approvers \cup {NoApprover}]

TypeOK ==
  /\ row \in [Keys -> Row]
  /\ events \in [Keys -> Seq(Event)]
  /\ orphans \subseteq Keys
  /\ trail \in [Keys -> SUBSET (Phases \cup {"halt"})]
  /\ halted \in BOOLEAN
  /\ overdue \in [Keys -> BOOLEAN]
  /\ call \in [Threads -> Call]
  /\ runs \in [Keys -> Nat] /\ wins \in [Keys -> Nat]
  /\ grace \subseteq Threads
  /\ faults \in [Keys -> Nat]
  /\ {calls, auditFailures, deaths, storeFailures, halts} \subseteq Nat

\* An approval by someone else, in another role, with authority over the owner.
Granted(k) ==
  \E i \in DOMAIN events[k] :
    /\ events[k][i].phase = "grant"
    /\ MayApprove(Request[k].actor, Request[k].owner, events[k][i].by)

Cleared(k) ==
  /\ Request[k].admissible
  /\ \/ EvaluateGate(Request[k]) = "go"
     \/ EvaluateGate(Request[k]) = "hold" /\ Granted(k)

\* Whatever the interleaving of calls and wherever calls die, a handler has run
\* only for a request that passed the admission checks and was either inside
\* every autonomy boundary or approved, on the record, by an independent and
\* authorised reviewer (Engine.submit, approve and execute together).
ClearedBeforeRun == \A k \in Keys : runs[k] > 0 => Cleared(k)

\* A cancellation of the workflow is on record in its event stream.
Withdrawn(k) == \E i \in DOMAIN events[k] : events[k][i].phase = "cancel"

\* A workflow stored as closed has the audit record of its success, or its
\* cancellation in its event stream, although an audit write may fail and calls
\* race at any point: execute never closes a workflow whose handler_succeeded
\* record was lost, and cancel closes nothing before the cancellation is logged.
NoUnauditedCompletion ==
  \A k \in Keys : row[k].state = "closed" => "succeed" \in trail[k] \/ Withdrawn(k)

\* Once the kill switch is engaged, stored workflows change and handlers run
\* only in calls already past their halt check at that moment, and in
\* cancellations (Engine._enforce_not_halted, and cancel which it does not gate).
HaltStopsNewWork ==
  [][halted /\ (row' # row \/ runs' # runs) =>
       \E t \in Threads : /\ call'[t] # call[t]
                          /\ t \in grace \/ call[t].op = "cancel"]_vars

AtRest == \A t \in Threads : ~Busy(t)

\* A request refused on admission stays dead-lettered with the one event of its
\* refusal and never runs, however many callers resubmit its key at once
\* (submit's early returns over Store.create_workflow).
RefusalsFinal ==
  \A k \in Keys : ~Request[k].admissible =>
    /\ row[k].state \in {"none", "dead_letter"} /\ runs[k] = 0
    /\ Len(events[k]) <= 1 /\ \A i \in DOMAIN events[k] : events[k][i].phase = "refused"

\* With one caller, a call always leaves a workflow where another operation, or a
\* human, can take it up, or at an end: never half way through submission or
\* approval, and never succeeded but not closed.  The exceptions are a request
\* whose gate raises, which submit leaves validated, and a workflow on which a
\* call was cut short, by a crash or a failing store operation: one that fails
\* after the handler returned leaves the row succeeded for good (execute).
Settled ==
  AtRest => \A k \in Keys : faults[k] = 0 =>
    \/ row[k].state \in {"none", "awaiting_approval", "executing", "failed",
                         "dead_letter", "closed"}
    \/ row[k].state = "validated" /\ EvaluateGate(Request[k]) = "raise"

\* With one caller, the last event of a stream is the one of the phase that wrote
\* the stored state, unless a call on the workflow was cut short: the log and the
\* row agree.
LogMatchesRow ==
  AtRest => \A k \in Keys : faults[k] = 0 /\ row[k].state # "none" =>
    LET log == events[k] IN log # <<>> /\ Target[log[Len(log)].phase] = row[k].state

\* One caller at a time leaves every workflow no call of which was cut short where
\* it can be taken up, with a log that says so.
LeftInOrder == Settled /\ LogMatchesRow

\* A workflow's handler is invoked at most max_retries + 1 times for each of its
\* executions: one, and one more for each call on it that was cut short.
RetryBudget == \A k \in Keys : runs[k] <= (MaxRetries + 1) * (1 + faults[k])

\* The handler of a key delivers its result at most once, unless a call on it was
\* cut short: a store operation that fails after the handler returned is caught by
\* the attempt loop, which runs the handler again (execute).
NoDuplicateExecution == \A k \in Keys : faults[k] = 0 => wins[k] <= 1

\* One caller at a time has a handler tried within its budget, and has one result
\* of it unless a call was cut short by a crash or a failing store operation.
ExecutionBounded == RetryBudget /\ NoDuplicateExecution

\* The stored state of a workflow changes only along VALID_TRANSITIONS, or to
\* dead_letter when a call fails closed.
StoredTransitionsLegal ==
  [][\A k \in Keys : row[k].state \notin {"none", row'[k].state} =>
       IsValidTransition(row[k].state, row'[k].state) \/ row'[k].state = "dead_letter"]_vars

\* The promise of GovernedWork, read off the stored row: a result is an end
\* whatever the state, and work is held, cleared or stopped by its state.
StageOf(r) ==
  IF r.out THEN "done"
  ELSE CASE r.state \in {"none", "proposed", "validated"} -> "none"
         [] r.state = "awaiting_approval" -> "held"
         [] r.state \in {"approved", "executing"} -> "cleared"
         [] OTHER -> "stopped"

Work == INSTANCE GovernedWork WITH
  Refused <- {k \in Keys : \/ ~Request[k].admissible
                           \/ EvaluateGate(Request[k]) \in {"deny", "raise"}},
  Held    <- {k \in Keys : Request[k].admissible /\ EvaluateGate(Request[k]) = "hold"},
  stage   <- [k \in Keys |-> StageOf(row[k])],
  tried   <- {k \in Keys : runs[k] > 0}

\* Callers who take turns get what GovernedWork promises, although calls die and
\* store operations and audit writes fail: held work waits for a decision, only
\* cleared work is attempted, and a stopped or finished request stays stopped or
\* finished (submit, approve, execute and cancel together).
KeepsPromise == Work!Spec

\* Every call returns: retries are bounded and no failure leaves it waiting.
CallsReturn == \A t \in Threads : Busy(t) ~> ~Busy(t)
===============================================================================
