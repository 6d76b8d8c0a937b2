----------------------------- MODULE GovernedTasks -----------------------------
(***************************************************************************)
(* The governed task manager, GovernedWorkflowManager of                   *)
(* control_plane/governance.py, over the workflow_tasks and audit_events   *)
(* tables of control_plane/store.py.                                       *)
(*                                                                         *)
(* A call commits one state after another along a route.  A commit is the  *)
(* write of the task's row and then the append of a ledger event, which    *)
(* reads the head of the ledger, compares it again, and inserts: four      *)
(* accesses, each a transaction of its own.  The ledger is one chain for   *)
(* all tasks, and an append that finds the head moved is refused and not   *)
(* tried again, after its row was written.                                 *)
(***************************************************************************)
EXTENDS Naturals, Sequences, WorkflowStates, GovernanceGate, SegregationOfDuties

CONSTANTS
  Threads,       \* concurrent callers of the manager
  Tasks,         \* task ids
  Task,          \* task -> what was requested
  Approvers,     \* who may be named as approver; the role of one may be unknown
  NoApprover,    \* the approver of a call that is not an approval
  MaxCalls,      \* bound: calls begun in a behaviour
  MaxCuts        \* bound: calls cut off by a crash or a failing database

\* TaskRequest checks its numbers before a task reaches the manager.
ASSUME TasksAssumption ==
  /\ Tasks # {} /\ \A k \in Tasks : Task[k].numeric = TRUE /\ Task[k].cost \in Nat
  /\ NoApprover \notin Approvers /\ MaxCalls \in Nat /\ MaxCuts \in Nat

VARIABLES
  row,           \* workflow_tasks: task -> its stored state
  ledger,        \* audit_events in insertion order
  call,          \* thread -> the call it is in
  released,      \* <<task, approver>> whose approval was committed
  contested,     \* tasks written by one call while another was in flight on them
  lost,          \* tasks with a commit that was cut short or has no ledger event
  calls, cuts

vars == <<row, ledger, call, released, contested, lost, calls, cuts>>

Idle == [op |-> "none", task |-> CHOOSE k \in Tasks : TRUE, by |-> NoApprover,
         to |-> "none", step |-> 1, copy |-> "none", point |-> "save",
         from |-> "none", head |-> 0]

Busy(t) == call[t].op # "none"

Gate(k) == EvaluateGate(Task[k])

\* The states submit commits, by the answer of the gate.
SubmitRoute ==
  [ deny |-> <<"proposed", "failed", "dead_letter">>,
    hold |-> <<"proposed", "validated", "awaiting_approval">>,
    go   |-> <<"proposed", "validated", "executing">> ]

\* Mutant of Route: an approval is committed and the task not released.
ApprovedOnly(c) ==
  IF c.op = "submit" THEN SubmitRoute[Gate(c.task)]
  ELSE IF c.op = "approve" THEN <<"approved">>
  ELSE <<c.to>>

\* The states the call commits, in order.
Route(c) ==
  IF c.op = "submit" THEN SubmitRoute[Gate(c.task)]
  ELSE IF c.op = "approve" THEN <<"approved", "executing">>
  ELSE <<c.to>>

\* What _commit_state writes: without a human's approval a task that would
\* execute is asked of the gate again, and held if the gate holds it.
Committed(c) ==
  LET to == Route(c)[c.step] IN
  IF /\ to = "executing" /\ c.op # "approve"
     /\ EvaluateGate([Task[c.task] EXCEPT !.asks = FALSE]) = "hold"
  THEN "awaiting_approval" ELSE to

Init ==
  /\ row = [k \in Tasks |-> "none"]
  /\ ledger = <<>>
  /\ call = [t \in Threads |-> Idle]
  /\ released = {} /\ contested = {} /\ lost = {}
  /\ calls = 0 /\ cuts = 0
-------------------------------------------------------------------------------
(* Calls begin.                                                             *)

Begin(t, op, k, by, to) ==
  /\ ~Busy(t) /\ calls < MaxCalls
  /\ calls' = calls + 1
  /\ call' = [call EXCEPT ![t] = [Idle EXCEPT !.op = op, !.task = k, !.by = by,
                                              !.to = to, !.copy = row[k]]]
  /\ UNCHANGED <<row, ledger, released, contested, lost, cuts>>

\* Every submission makes a task id of its own.
Submit(t, k) ==
  /\ row[k] = "none"
  /\ \A v \in Threads : call[v].op = "submit" => call[v].task # k
  /\ Begin(t, "submit", k, NoApprover, "none")

\* Mutant of MayRelease: the requester is not compared with the approver.
AnyoneMayRelease(k, by) == by.role \in Roles /\ ~ExceedsLimit(by.role, Task[k].cost)

\* Not the requester, a known role, and a ceiling that covers the cost.
MayRelease(k, by) ==
  /\ ~SelfApproval(Task[k].actor, by)
  /\ by.role \in Roles
  /\ ~ExceedsLimit(by.role, Task[k].cost)

Approve(t, k, by) ==
  /\ row[k] = "awaiting_approval"
  /\ MayRelease(k, by)
  /\ Begin(t, "approve", k, by, "none")

\* A rejection asks for no authority.
Reject(t, k) ==
  /\ row[k] = "awaiting_approval"
  /\ Begin(t, "reject", k, NoApprover, "cancelled")

Complete(t, k, to) ==
  /\ row[k] # "none"
  /\ Begin(t, "complete", k, NoApprover, to)
-------------------------------------------------------------------------------
(* A commit.                                                                *)

Inserts(c) == c.op = "submit" /\ c.step = 1

Overlaps(t) == \E v \in Threads \ {t} : Busy(v) /\ call[v].task = call[t].task

\* Mutant of Allowed: the transition is not checked.
Always(c) == TRUE

\* _commit_state asks the state machine about its copy of the task.
Allowed(c) == Inserts(c) \/ IsValidTransition(c.copy, Route(c)[c.step])

\* The row is written whatever it holds by now: the update names the task alone.
Save(t) ==
  LET c == call[t]
      s == Committed(c)
  IN /\ Busy(t) /\ c.point = "save" /\ Allowed(c)
     /\ row' = [row EXCEPT ![c.task] = s]
     /\ call' = [call EXCEPT ![t].point = "head", ![t].copy = s,
                             ![t].from = IF Inserts(c) THEN "none" ELSE c.copy]
     /\ released' = IF c.op = "approve" THEN released \cup {<<c.task, c.by>>} ELSE released
     /\ contested' = IF Overlaps(t) THEN contested \cup {c.task} ELSE contested
     /\ UNCHANGED <<ledger, lost, calls, cuts>>

\* An invalid transition raises; nothing was written for it.
Refuse(t) ==
  /\ Busy(t) /\ call[t].point = "save" /\ ~Allowed(call[t])
  /\ call' = [call EXCEPT ![t] = Idle]
  /\ UNCHANGED <<row, ledger, released, contested, lost, calls, cuts>>

\* Mutant of ReadHead: the event before the last.
ReadBehind(t) ==
  /\ Busy(t) /\ call[t].point = "head"
  /\ call' = [call EXCEPT ![t].point = "compare", ![t].head = Len(ledger) - 1]
  /\ UNCHANGED <<row, ledger, released, contested, lost, calls, cuts>>

ReadHead(t) ==
  /\ Busy(t) /\ call[t].point = "head"
  /\ call' = [call EXCEPT ![t].point = "compare", ![t].head = Len(ledger)]
  /\ UNCHANGED <<row, ledger, released, contested, lost, calls, cuts>>

\* "ledger fork rejected": the call raises, and the row stays as it was written.
CompareHead(t) ==
  LET c == call[t] IN
  /\ Busy(t) /\ c.point = "compare"
  /\ \/ /\ c.head = Len(ledger)
        /\ call' = [call EXCEPT ![t].point = "insert"]
        /\ UNCHANGED lost
     \/ /\ c.head # Len(ledger)
        /\ call' = [call EXCEPT ![t] = Idle]
        /\ lost' = lost \cup {c.task}
  /\ UNCHANGED <<row, ledger, released, contested, calls, cuts>>

Record(t) ==
  LET c == call[t] IN
  /\ Busy(t) /\ c.point = "insert"
  /\ ledger' = Append(ledger, [task |-> c.task, from |-> c.from, to |-> c.copy])
  /\ call' = [call EXCEPT ![t] =
                IF c.step < Len(Route(c))
                THEN [c EXCEPT !.step = c.step + 1, !.point = "save"] ELSE Idle]
  /\ UNCHANGED <<row, released, contested, lost, calls, cuts>>

\* The process dies, or the database refuses an access and the call raises.
CutOff(t) ==
  /\ Busy(t) /\ cuts < MaxCuts
  /\ cuts' = cuts + 1
  /\ lost' = lost \cup {call[t].task}
  /\ call' = [call EXCEPT ![t] = Idle]
  /\ UNCHANGED <<row, ledger, released, contested, calls>>

Next == \E t \in Threads :
  \/ \E k \in Tasks :
       \/ Submit(t, k)
       \/ \E by \in Approvers : Approve(t, k, by)
       \/ Reject(t, k)
       \/ \E to \in {"succeeded", "failed"} : Complete(t, k, to)
  \/ Save(t) \/ Refuse(t) \/ ReadHead(t) \/ CompareHead(t) \/ Record(t) \/ CutOff(t)

Spec == Init /\ [][Next]_vars
-------------------------------------------------------------------------------
(* Properties.                                                              *)

Call == [op : {"none", "submit", "approve", "reject", "complete"},
         task : Tasks, by : Approvers \cup {NoApprover},
         to : {"none", "cancelled", "succeeded", "failed"}, step : 1..3,
         copy : WorkflowState \cup {"none"}, point : {"save", "head", "compare", "insert"},
         from : WorkflowState \cup {"none"}, head : Nat]

TypeOK ==
  /\ row \in [Tasks -> WorkflowState \cup {"none"}]
  /\ ledger \in Seq([task : Tasks, from : WorkflowState \cup {"none"}, to : WorkflowState])
  /\ call \in [Threads -> Call]
  /\ released \subseteq Tasks \X Approvers
  /\ contested \subseteq Tasks /\ lost \subseteq Tasks
  /\ calls \in Nat /\ cuts \in Nat

\* A task may run: it was inside every boundary, or the gate held it and an
\* approver other than its requester, whose ceiling covers it, has released it.
Cleared(k) ==
  \/ Gate(k) = "go"
  \/ Gate(k) = "hold" /\ \E by \in Approvers :
       /\ <<k, by>> \in released
       /\ by.actor # Task[k].actor
       /\ by.role \in DOMAIN Limit => Task[k].cost <= Limit[by.role]

\* No task executes or has succeeded without being cleared, whatever calls
\* race and whatever is cut off: a denied task in particular never does.
ClearedToRun == \A k \in Tasks : row[k] \in {"executing", "succeeded"} => Cleared(k)

\* A call leaves its task where some call can take it up, or for good: only a
\* commit that was cut short or lost the race for the ledger strands a task.
Settled ==
  \A k \in Tasks \ lost :
    (\A t \in Threads : Busy(t) => call[t].task # k) =>
      row[k] \notin {"proposed", "validated", "approved"}

\* Where the first n events of the ledger lead a task: to what the last of them
\* that is about it says.
Reached(k, n) ==
  LET about == {i \in 1 .. n : ledger[i].task = k}
  IN IF about = {} THEN "none"
     ELSE ledger[CHOOSE i \in about : \A j \in about : j <= i].to

\* The ledger of a task that one call at a time worked on, and that lost no
\* event, leads without a gap from its creation to the state of its row.
LedgerLeadsToRow ==
  \A k \in Tasks \ (lost \cup contested) :
    /\ \A i \in DOMAIN ledger : ledger[i].task = k => ledger[i].from = Reached(k, i - 1)
    /\ (\A t \in Threads : Busy(t) => call[t].task # k) => row[k] = Reached(k, Len(ledger))

\* A task is left in order, and its ledger says how it came there.
LeftInOrder == Settled /\ LedgerLeadsToRow

\* A row moves against the state machine only when two calls worked on the
\* task at once: a call alone on its task never does, even after a crash.
LegalUnlessContested ==
  [][\A k \in Tasks :
       \/ row'[k] = row[k] \/ row[k] = "none" \/ k \in contested'
       \/ IsValidTransition(row[k], row'[k])]_vars
===============================================================================
