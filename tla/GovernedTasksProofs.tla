-------------------------- MODULE GovernedTasksProofs --------------------------
(***************************************************************************)
(* Proofs about GovernedTasks, for any threads, tasks, roles and bounds:   *)
(* its state is well typed, no task runs without being cleared, a task is  *)
(* left in order with its ledger explaining it, and a row moves against    *)
(* the state machine only when two calls worked on it at once.             *)
(*                                                                         *)
(* ClearedToRun is not inductive: a call writes from its own copy of the   *)
(* task.  IInv adds what a call knows: its copy is of a cleared task if it *)
(* says the task ran, and an approval under way is one its approver may    *)
(* give on a task the gate did not deny.                                   *)
(*                                                                         *)
(* LeftInOrder and LegalUnlessContested need more, in OrderInv: a call's   *)
(* copy is what it wrote last, a task halfway along a route has a call     *)
(* underway on it unless a commit was lost, and calls that take turns on a *)
(* task read its row, so the event one of them is about to record starts   *)
(* where the ledger has led the task so far.                               *)
(***************************************************************************)
EXTENDS GovernedTasks, TLAPS

Ran == {"executing", "succeeded"}

\* What holds of a call in progress.
CallInv(c) ==
  /\ c.step \in 1 .. Len(Route(c))
  /\ c.point # "save" => c.copy \in WorkflowState
  /\ c.op = "approve" => /\ Gate(c.task) # "deny"
                         /\ c.by \in Approvers /\ MayRelease(c.task, c.by)
  /\ c.op = "reject" => c.to = "cancelled"
  /\ c.op = "complete" => c.to \in {"succeeded", "failed"}
  /\ c.copy \in Ran => Cleared(c.task)

IInv ==
  /\ TypeOK
  /\ \A k \in Tasks : row[k] = "awaiting_approval" => Gate(k) # "deny"
  /\ ClearedToRun
  /\ \A t \in Threads : Busy(t) => CallInv(call[t])
-------------------------------------------------------------------------------
\* The gate answers deny, hold or go: it raises only on numbers that
\* TaskRequest has refused.
LEMMA GateAnswers == ASSUME NEW k \in Tasks PROVE Gate(k) \in {"deny", "hold", "go"}
BY TasksAssumption DEF Gate, EvaluateGate

\* A route commits states of the state machine, at most three of them, and runs
\* a task only on the gate's word, on an approval, or on its completion.
LEMMA RouteStates ==
  ASSUME NEW c \in Call, c.op # "none",
         c.op = "reject" => c.to = "cancelled",
         c.op = "complete" => c.to \in {"succeeded", "failed"}
  PROVE  /\ Len(Route(c)) \in 1 .. 3
         /\ \A i \in 1 .. Len(Route(c)) : Route(c)[i] \in WorkflowState
         /\ \A i \in 1 .. Len(Route(c)) :
              /\ Route(c)[i] = "executing" =>
                   (c.op = "submit" /\ Gate(c.task) = "go") \/ c.op = "approve"
              /\ Route(c)[i] = "succeeded" => c.op = "complete"
              /\ Route(c)[i] = "awaiting_approval" =>
                   c.op = "submit" /\ Gate(c.task) = "hold"
<1>1. c.task \in Tasks /\ c.op \in {"submit", "approve", "reject", "complete"} BY DEF Call
<1>2. CASE c.op = "submit"
  <2>1. Route(c) = SubmitRoute[Gate(c.task)] BY <1>2 DEF Route
  <2>2. CASE Gate(c.task) = "deny"
    <3>1. Route(c) = <<"proposed", "failed", "dead_letter">> BY <2>1, <2>2 DEF SubmitRoute
    <3> QED BY <3>1 DEF WorkflowState
  <2>3. CASE Gate(c.task) = "hold"
    <3>1. Route(c) = <<"proposed", "validated", "awaiting_approval">>
      BY <2>1, <2>3 DEF SubmitRoute
    <3> QED BY <3>1, <2>3, <1>2 DEF WorkflowState
  <2>4. CASE Gate(c.task) = "go"
    <3>1. Route(c) = <<"proposed", "validated", "executing">> BY <2>1, <2>4 DEF SubmitRoute
    <3> QED BY <3>1, <2>4, <1>2 DEF WorkflowState
  <2> QED BY <1>1, <2>2, <2>3, <2>4, GateAnswers
<1>3. CASE c.op = "approve"
  <2>1. Route(c) = <<"approved", "executing">> BY <1>3 DEF Route
  <2> QED BY <2>1, <1>3 DEF WorkflowState
<1>4. CASE c.op \in {"reject", "complete"}
  <2>1. Route(c) = <<c.to>> BY <1>4 DEF Route
  <2> QED BY <2>1, <1>4 DEF WorkflowState
<1> QED BY <1>1, <1>2, <1>3, <1>4

\* Route depends on the call's operation, task and target alone.
LEMMA SameRoute ==
  ASSUME NEW c, NEW d, d.op = c.op, d.task = c.task, d.to = c.to
  PROVE  Route(d) = Route(c)
BY DEF Route

\* A release that is added only clears more.
LEMMA ClearedStays ==
  ASSUME NEW k, Cleared(k), released \subseteq released' PROVE Cleared(k)'
BY DEF Cleared, Gate
-------------------------------------------------------------------------------
LEMMA IdleType ==
  Idle \in Call /\ Idle.op = "none" /\ Idle.step = 1 /\ Idle.point = "save"
BY TasksAssumption DEF Idle, Call

LEMMA InitIInv == Init => IInv
<1> SUFFICES ASSUME Init PROVE IInv OBVIOUS
<1>1. TypeOK BY IdleType, TasksAssumption DEF Init, TypeOK
<1>2. \A t \in Threads : ~Busy(t) BY DEF Init, Busy, Idle
<1>3. \A k \in Tasks : row[k] = "none" BY DEF Init
<1> QED BY <1>1, <1>2, <1>3 DEF IInv, ClearedToRun

\* A step that leaves the rows and the releases alone, and a call either alone,
\* idle or as it should be, keeps what the invariant says beyond the types.
LEMMA CallOnly ==
  ASSUME IInv, TypeOK', UNCHANGED <<row, released>>, NEW t \in Threads,
         \A v \in Threads \ {t} : call'[v] = call[v],
         call'[t].op = "none" \/ CallInv(call'[t])
  PROVE  IInv'
<1>1. \A k : Cleared(k) => Cleared(k)' BY DEF Cleared, Gate
<1>2. \A k : Gate(k)' = Gate(k) BY DEF Gate
<1>3. ClearedToRun' BY <1>1 DEF IInv, ClearedToRun
<1>4. ASSUME NEW v \in Threads, Busy(v)' PROVE CallInv(call[v])'
  <2>1. CallInv(call'[v])
    BY <1>4 DEF IInv, Busy
  <2> QED BY <2>1, <1>1, <1>2 DEF CallInv, Route, Cleared, Gate
<1> QED BY <1>2, <1>3, <1>4 DEF IInv
-------------------------------------------------------------------------------
\* A call begins.
LEMMA BeginIInv ==
  ASSUME IInv, NEW t \in Threads, NEW k \in Tasks,
         NEW op \in {"submit", "approve", "reject", "complete"},
         NEW by \in Approvers \cup {NoApprover},
         NEW to \in {"none", "cancelled", "succeeded", "failed"},
         Begin(t, op, k, by, to),
         op = "approve" => Gate(k) # "deny" /\ by \in Approvers /\ MayRelease(k, by),
         op = "reject" => to = "cancelled",
         op = "complete" => to \in {"succeeded", "failed"}
  PROVE  IInv'
<1> DEFINE d == [Idle EXCEPT !.op = op, !.task = k, !.by = by, !.to = to, !.copy = row[k]]
<1>1. TypeOK BY DEF IInv
<1>2. d \in Call /\ d.op = op /\ d.task = k /\ d.by = by /\ d.to = to /\ d.copy = row[k]
      /\ d.step = 1 /\ d.point = "save"
  <2>1. row[k] \in WorkflowState \cup {"none"} BY <1>1 DEF TypeOK
  <2>2. [Idle EXCEPT !.op = op, !.task = k] \in Call BY IdleType DEF Call
  <2>3. ASSUME NEW c \in Call
        PROVE  [c EXCEPT !.by = by, !.to = to, !.copy = row[k]] \in Call
    BY <2>1 DEF Call
  <2>4. d \in Call BY <2>2, <2>3
  <2>5. d.op = op /\ d.task = k /\ d.by = by /\ d.to = to /\ d.copy = row[k]
    BY IdleType DEF Call
  <2>6. d.step = 1 /\ d.point = "save" BY IdleType DEF Call
  <2> QED BY <2>4, <2>5, <2>6
<1>3. call' = [call EXCEPT ![t] = d] /\ UNCHANGED <<row, released>> BY DEF Begin
<1>4. call'[t] = d /\ \A v \in Threads \ {t} : call'[v] = call[v] BY <1>1, <1>3 DEF TypeOK
<1>5. TypeOK' BY <1>1, <1>2, <1>3 DEF TypeOK, Begin
<1>6. CallInv(d)
  <2>1. Len(Route(d)) \in 1 .. 3 BY <1>2, RouteStates
  <2>2. d.copy \in Ran => Cleared(d.task) BY <1>2 DEF IInv, ClearedToRun, Ran
  <2> QED BY <1>2, <2>1, <2>2 DEF CallInv
<1> HIDE DEF d
<1> QED BY <1>3, <1>4, <1>5, <1>6, CallOnly

LEMMA InvocationIInv ==
  ASSUME IInv, NEW t \in Threads, NEW k \in Tasks,
         \/ Submit(t, k)
         \/ \E by \in Approvers : Approve(t, k, by)
         \/ Reject(t, k)
         \/ \E to \in {"succeeded", "failed"} : Complete(t, k, to)
  PROVE  IInv'
<1>1. CASE Submit(t, k)
  BY <1>1, BeginIInv DEF Submit
<1>2. CASE \E by \in Approvers : Approve(t, k, by)
  <2> PICK by \in Approvers : Approve(t, k, by) BY <1>2
  <2>1. Gate(k) # "deny" BY DEF Approve, IInv
  <2> QED BY <2>1, BeginIInv DEF Approve
<1>3. CASE Reject(t, k)
  BY <1>3, BeginIInv DEF Reject
<1>4. CASE \E to \in {"succeeded", "failed"} : Complete(t, k, to)
  <2> PICK to \in {"succeeded", "failed"} : Complete(t, k, to) BY <1>4
  <2> QED BY BeginIInv DEF Complete
<1> QED BY <1>1, <1>2, <1>3, <1>4
-------------------------------------------------------------------------------
\* A commit writes the row.
LEMMA SaveIInv == ASSUME IInv, NEW t \in Threads, Save(t) PROVE IInv'
<1> PICK c \in Call : c = call[t] BY DEF IInv, TypeOK
<1> DEFINE s == Committed(c)
           d == [c EXCEPT !.point = "head", !.copy = s,
                          !.from = IF Inserts(c) THEN "none" ELSE c.copy]
<1>1. TypeOK /\ CallInv(c) /\ c.op # "none" BY DEF IInv, TypeOK, Save, Busy
<1>2. c.task \in Tasks /\ c.step \in 1 .. Len(Route(c)) BY <1>1 DEF Call, CallInv
<1>3. /\ Route(c)[c.step] \in WorkflowState
      /\ Route(c)[c.step] = "executing" =>
           (c.op = "submit" /\ Gate(c.task) = "go") \/ c.op = "approve"
      /\ Route(c)[c.step] = "succeeded" => c.op = "complete"
      /\ Route(c)[c.step] = "awaiting_approval" => c.op = "submit" /\ Gate(c.task) = "hold"
  BY <1>1, <1>2, RouteStates DEF CallInv
<1>4. s \in WorkflowState
  BY <1>3 DEF Committed, WorkflowState
<1>5. s = "awaiting_approval" => Gate(c.task) # "deny"
  BY <1>3 DEF Committed
<1>6. s \in Ran => s = Route(c)[c.step]
  BY DEF Committed, Ran
<1>7. row' = [row EXCEPT ![c.task] = s] /\ call' = [call EXCEPT ![t] = d]
  BY <1>1 DEF Save, TypeOK
<1>8. released \subseteq released' /\ (c.op = "approve" => <<c.task, c.by>> \in released')
  BY DEF Save
<1>9. \A k : Cleared(k) => Cleared(k)' BY <1>8, ClearedStays
<1>10. s \in Ran => Cleared(c.task)'
  <2> SUFFICES ASSUME s \in Ran PROVE Cleared(c.task)' OBVIOUS
  <2>1. CASE c.op = "submit"
    BY <2>1, <1>3, <1>6 DEF Ran, Cleared, Gate
  <2>2. CASE c.op = "approve"
    <3>1. /\ Gate(c.task) \in {"hold", "go"}
          /\ c.by \in Approvers /\ MayRelease(c.task, c.by)
      BY <1>1, <1>2, <2>2, GateAnswers DEF CallInv
    <3>2. /\ c.by.actor # Task[c.task].actor
          /\ c.by.role \in DOMAIN Limit => Task[c.task].cost <= Limit[c.by.role]
      <4>1. c.by.actor # Task[c.task].actor BY <3>1 DEF MayRelease, SelfApproval
      <4>2. ~ExceedsLimit(c.by.role, Task[c.task].cost) BY <3>1 DEF MayRelease
      <4> QED BY <4>1, <4>2, GateAssumption, TasksAssumption, <1>2 DEF ExceedsLimit
    <3> QED BY <3>1, <3>2, <2>2, <1>8 DEF Cleared, Gate
  <2>3. CASE c.op \in {"reject", "complete"}
    <3>1. s = "succeeded" BY <2>3, <1>3, <1>6 DEF Ran
    <3>2. IsValidTransition(c.copy, "succeeded")
      BY <3>1, <1>6, <2>3 DEF Save, Allowed, Inserts, Ran
    <3>3. c.copy = "executing"
      BY <3>2 DEF IsValidTransition, ValidTransitions, WorkflowState
    <3> QED BY <3>3, <1>1, <1>9 DEF CallInv, Ran
  <2> QED BY <1>1, <2>1, <2>2, <2>3 DEF Call
<1>11. d \in Call /\ d.op = c.op /\ d.task = c.task /\ d.to = c.to /\ d.by = c.by
       /\ d.step = c.step /\ d.copy = s
  <2> DEFINE f == IF Inserts(c) THEN "none" ELSE c.copy
  <2>1. f \in WorkflowState \cup {"none"} BY DEF Call
  <2>2. d = [c EXCEPT !.point = "head", !.copy = s, !.from = f] OBVIOUS
  <2> HIDE DEF f, s, d
  <2> QED BY <1>4, <2>1, <2>2 DEF Call
<1> HIDE DEF d, s
<1>12. TypeOK'
  <2>1. row' \in [Tasks -> WorkflowState \cup {"none"}] BY <1>1, <1>4, <1>7 DEF TypeOK
  <2>2. call' \in [Threads -> Call] BY <1>1, <1>7, <1>11 DEF TypeOK
  <2>3. released' \subseteq Tasks \X Approvers BY <1>1, <1>2 DEF Save, TypeOK, CallInv
  <2>4. contested' \subseteq Tasks BY <1>1, <1>2 DEF Save, TypeOK
  <2> QED BY <1>1, <2>1, <2>2, <2>3, <2>4 DEF Save, TypeOK
<1>13. \A k \in Tasks : row'[k] = (IF k = c.task THEN s ELSE row[k])
  BY <1>1, <1>7 DEF TypeOK
<1>14. \A k \in Tasks : row'[k] = "awaiting_approval" => Gate(k) # "deny"
  BY <1>5, <1>13 DEF IInv
<1>15. ClearedToRun'
  BY <1>9, <1>10, <1>13 DEF IInv, ClearedToRun, Ran
<1>16. ASSUME NEW v \in Threads, Busy(v)' PROVE CallInv(call[v])'
  <2>1. CASE v = t
    <3>1. call'[v] = d /\ Route(d) = Route(c) BY <1>1, <1>7, <1>11, <2>1, SameRoute DEF TypeOK
    <3>2. d.step \in 1 .. Len(Route(d)) /\ d.copy \in WorkflowState
      BY <3>1, <1>2, <1>4, <1>11
    <3>3. d.copy \in Ran => Cleared(d.task)' BY <1>10, <1>11
    <3>4. /\ d.op = "approve" => /\ Gate(d.task) # "deny"
                                 /\ d.by \in Approvers /\ MayRelease(d.task, d.by)
          /\ d.op = "reject" => d.to = "cancelled"
          /\ d.op = "complete" => d.to \in {"succeeded", "failed"}
      BY <1>1, <1>11 DEF CallInv
    <3> QED BY <3>1, <3>2, <3>3, <3>4 DEF CallInv, Route, Gate
  <2>2. CASE v # t
    <3>1. call'[v] = call[v] BY <2>2, <1>1, <1>7 DEF TypeOK
    <3>2. CallInv(call[v]) BY <3>1, <1>16 DEF IInv, Busy
    <3> QED BY <3>1, <3>2, <1>9 DEF CallInv, Route, Gate
  <2> QED BY <2>1, <2>2
<1> QED BY <1>12, <1>14, <1>15, <1>16 DEF IInv, Gate
-------------------------------------------------------------------------------
\* The steps that leave the rows alone.
LEMMA LedgerIInv ==
  ASSUME IInv, NEW t \in Threads,
         Refuse(t) \/ ReadHead(t) \/ CompareHead(t) \/ Record(t) \/ CutOff(t)
  PROVE  IInv'
<1> PICK c \in Call : c = call[t] BY DEF IInv, TypeOK
<1>1. TypeOK /\ Busy(t) /\ CallInv(c) /\ c.task \in Tasks
  BY DEF IInv, Refuse, ReadHead, CompareHead, Record, CutOff, Call
<1>2. UNCHANGED <<row, released>> BY DEF Refuse, ReadHead, CompareHead, Record, CutOff
<1>3. ASSUME NEW d \in Call, call' = [call EXCEPT ![t] = d], d.op = "none" \/ CallInv(d),
             ledger' \in Seq([task : Tasks, from : WorkflowState \cup {"none"},
                              to : WorkflowState]),
             lost' \subseteq Tasks, UNCHANGED contested, calls' \in Nat, cuts' \in Nat
      PROVE  IInv'
  <2>1. TypeOK' BY <1>1, <1>2, <1>3 DEF TypeOK
  <2>2. call'[t] = d /\ \A v \in Threads \ {t} : call'[v] = call[v] BY <1>1, <1>3 DEF TypeOK
  <2> QED BY <1>2, <1>3, <2>1, <2>2, CallOnly
<1>4. CASE Refuse(t) BY <1>1, <1>3, <1>4, IdleType DEF Refuse, TypeOK
<1>5. CASE CutOff(t)
  <2>1. call' = [call EXCEPT ![t] = Idle] /\ UNCHANGED <<ledger, contested, calls>>
    BY <1>5 DEF CutOff
  <2>2. lost' \subseteq Tasks BY <1>1, <1>5 DEF CutOff, TypeOK
  <2>3. cuts' \in Nat BY <1>1, <1>5 DEF CutOff, TypeOK
  <2>4. Idle.op = "none" BY DEF Idle
  <2> QED BY <1>1, <1>3, <2>1, <2>2, <2>3, <2>4, IdleType DEF TypeOK
<1>6. CASE ReadHead(t)
  <2> DEFINE n == Len(ledger)
             d == [c EXCEPT !.point = "compare", !.head = n]
  <2>1. n \in Nat BY <1>1 DEF TypeOK
  <2>2. call' = [call EXCEPT ![t] = d]
    BY <1>1, <1>6 DEF ReadHead, TypeOK
  <2> HIDE DEF n
  <2>3. d \in Call /\ CallInv(d)
    <3>1. d \in Call /\ d.op = c.op /\ d.task = c.task /\ d.to = c.to /\ d.by = c.by
          /\ d.step = c.step /\ d.copy = c.copy
      BY <2>1 DEF Call
    <3>2. c.copy \in WorkflowState BY <1>1, <1>6 DEF CallInv, ReadHead
    <3>3. Route(d) = Route(c) BY <3>1, SameRoute
    <3> HIDE DEF d
    <3> QED BY <1>1, <3>1, <3>2, <3>3 DEF CallInv
  <2> HIDE DEF d
  <2> QED BY <1>1, <1>3, <1>6, <2>2, <2>3 DEF ReadHead, TypeOK
<1>7. CASE CompareHead(t)
  <2> DEFINE d == [c EXCEPT !.point = "insert"]
  <2>1. (call' = [call EXCEPT ![t] = d] /\ UNCHANGED lost)
        \/ (call' = [call EXCEPT ![t] = Idle] /\ lost' = lost \cup {c.task})
    BY <1>1, <1>7 DEF CompareHead, TypeOK
  <2>2. d \in Call /\ CallInv(d)
    <3>1. d \in Call /\ d.op = c.op /\ d.task = c.task /\ d.to = c.to /\ d.by = c.by
          /\ d.step = c.step /\ d.copy = c.copy
      BY DEF Call
    <3>2. c.copy \in WorkflowState BY <1>1, <1>7 DEF CallInv, CompareHead
    <3>3. Route(d) = Route(c) BY <3>1, SameRoute
    <3> HIDE DEF d
    <3> QED BY <1>1, <3>1, <3>2, <3>3 DEF CallInv
  <2>3. UNCHANGED <<ledger, contested, calls, cuts>> BY <1>7 DEF CompareHead
  <2> HIDE DEF d
  <2> QED BY <1>1, <1>3, <2>1, <2>2, <2>3, IdleType DEF TypeOK
<1>8. CASE Record(t)
  <2> DEFINE n == c.step + 1
             e == [task |-> c.task, from |-> c.from, to |-> c.copy]
             d == [c EXCEPT !.step = n, !.point = "save"]
  <2>1. c.copy \in WorkflowState /\ c.from \in WorkflowState \cup {"none"}
    BY <1>1, <1>8 DEF CallInv, Record, Call
  <2>2. ledger' \in Seq([task : Tasks, from : WorkflowState \cup {"none"},
                         to : WorkflowState])
    <3>1. ledger' = Append(ledger, e) BY <1>8 DEF Record
    <3>2. e \in [task : Tasks, from : WorkflowState \cup {"none"}, to : WorkflowState]
      BY <1>1, <2>1
    <3> HIDE DEF e
    <3> QED BY <1>1, <3>1, <3>2 DEF TypeOK
  <2>3. call' = [call EXCEPT ![t] = IF c.step < Len(Route(c)) THEN d ELSE Idle]
    BY <1>1, <1>8 DEF Record, TypeOK
  <2>4. ASSUME c.step < Len(Route(c)) PROVE d \in Call /\ CallInv(d)
    <3>1. Len(Route(c)) \in 1 .. 3 /\ c.step \in 1 .. 3
      BY <1>1, RouteStates DEF CallInv, Call, Busy
    <3>2. n \in 1 .. 3 /\ n \in 1 .. Len(Route(c))
      <4> DEFINE m == Len(Route(c))
                 i == c.step
      <4>1. i < m /\ m \in 1 .. 3 /\ i \in 1 .. 3 /\ n = i + 1 BY <2>4, <3>1
      <4> HIDE DEF m, i, n
      <4>2. n \in 1 .. 3 /\ n \in 1 .. m BY <4>1
      <4> QED BY <4>2 DEF m
    <3> HIDE DEF n
    <3>3. d \in Call /\ d.op = c.op /\ d.task = c.task /\ d.to = c.to /\ d.by = c.by
          /\ d.step = n /\ d.copy = c.copy
      BY <3>2 DEF Call
    <3>4. Route(d) = Route(c) BY <3>3, SameRoute
    <3> HIDE DEF d
    <3> QED BY <1>1, <2>1, <3>2, <3>3, <3>4 DEF CallInv
  <2>5. UNCHANGED <<contested, lost, calls, cuts>> BY <1>8 DEF Record
  <2> HIDE DEF d
  <2>6. CASE c.step < Len(Route(c)) BY <1>1, <1>3, <2>2, <2>3, <2>4, <2>5, <2>6 DEF TypeOK
  <2>7. CASE ~(c.step < Len(Route(c)))
    BY <1>1, <1>3, <2>2, <2>3, <2>5, <2>7, IdleType DEF TypeOK
  <2> QED BY <2>6, <2>7
<1> QED BY <1>4, <1>5, <1>6, <1>7, <1>8

LEMMA StutterIInv == ASSUME IInv, UNCHANGED vars PROVE IInv'
BY DEF IInv, vars, TypeOK, ClearedToRun, Cleared, Gate, Busy, CallInv, Route

\* The invariant holds in every reachable state.
THEOREM TasksInvariant == Spec => []IInv
<1>1. IInv /\ [Next]_vars => IInv'
  <2> SUFFICES ASSUME IInv, [Next]_vars PROVE IInv' OBVIOUS
  <2>1. CASE Next
    <3> PICK t \in Threads :
          \/ \E k \in Tasks :
               \/ Submit(t, k)
               \/ \E by \in Approvers : Approve(t, k, by)
               \/ Reject(t, k)
               \/ \E to \in {"succeeded", "failed"} : Complete(t, k, to)
          \/ Save(t) \/ Refuse(t) \/ ReadHead(t) \/ CompareHead(t) \/ Record(t) \/ CutOff(t)
      BY <2>1 DEF Next
    <3> QED BY InvocationIInv, SaveIInv, LedgerIInv
  <2>2. CASE UNCHANGED vars BY <2>2, StutterIInv
  <2> QED BY <2>1, <2>2
<1> QED BY <1>1, InitIInv, PTL DEF Spec

\* Every reachable state of the task manager is well typed.
THEOREM TasksTyped == Spec => []TypeOK
BY TasksInvariant, PTL DEF IInv

\* No task executes or has succeeded unless it was inside every boundary, or an
\* approver other than its requester, whose ceiling covers it, released it:
\* GovernedWorkflowManager.submit, approve, reject and complete together, for
\* any number of callers, tasks and roles, with crashes and refused appends.
THEOREM ClearedTasksOnly == Spec => []ClearedToRun
BY TasksInvariant, PTL DEF IInv
-------------------------------------------------------------------------------
(* How a task is left, and what its ledger says.                            *)

Halfway == {"proposed", "validated", "approved"}

On(t, k) == Busy(t) /\ call[t].task = k

\* The call has written one state and will write another one.
Underway(c) == IF c.point = "save" THEN c.step > 1 ELSE c.step < Len(Route(c))

\* The copy is what the call wrote last; a submission starts from no task.
Follows(c) ==
  IF c.point # "save" THEN c.copy = Committed(c)
  ELSE IF c.step > 1 THEN c.copy = Route(c)[c.step - 1]
  ELSE c.op = "submit" => c.copy = "none"

Recording(t, k) == On(t, k) /\ call[t].point # "save"

\* Reached, of any sequence of events.
About(l, k, n) == {i \in 1 .. n : l[i].task = k}

After(l, k, n) ==
  IF About(l, k, n) = {} THEN "none"
  ELSE l[CHOOSE i \in About(l, k, n) : \A j \in About(l, k, n) : j <= i].to

HasLast(l, k, n) ==
  About(l, k, n) # {} => \E i \in About(l, k, n) : \A j \in About(l, k, n) : j <= i

\* Calls that take turns on a task know its row, and one of them writes at a time.
TurnsOn(k) ==
  /\ \A t \in Threads : On(t, k) => call[t].copy = row[k]
  /\ \A t, v \in Threads : Recording(t, k) /\ Recording(v, k) => t = v

\* The events about k follow each other, and the last one is of the row, or of the
\* state the row was in before the call that is about to record.
Explains(l, k) ==
  /\ \A i \in DOMAIN l : l[i].task = k => l[i].from = After(l, k, i - 1)
  /\ (\A t \in Threads : ~Recording(t, k)) => row[k] = After(l, k, Len(l))
  /\ \A t \in Threads : Recording(t, k) => call[t].from = After(l, k, Len(l))

OrderInv ==
  /\ \A t \in Threads : Busy(t) => Follows(call[t])
  /\ \A k \in Tasks \ lost :
       row[k] \in Halfway => \E t \in Threads : On(t, k) /\ Underway(call[t])
  /\ \A k \in Tasks \ contested : TurnsOn(k)
  /\ \A k \in Tasks, n \in 0 .. Len(ledger) : HasLast(ledger, k, n)
  /\ \A k \in Tasks \ (lost \cup contested) : Explains(ledger, k)
-------------------------------------------------------------------------------
\* The states of a route follow each other in the state machine, those before the
\* last are written as they are, and the last one is never halfway.
LEMMA RouteOrder ==
  ASSUME NEW c \in Call, c.op # "none", CallInv(c)
  PROVE  /\ \A i \in 2 .. Len(Route(c)) : IsValidTransition(Route(c)[i - 1], Route(c)[i])
         /\ c.step < Len(Route(c)) => Committed(c) = Route(c)[c.step]
         /\ Committed(c) \in Halfway => c.step < Len(Route(c))
         /\ Committed(c) # Route(c)[c.step] =>
              /\ Committed(c) = "awaiting_approval"
              /\ c.step > 1 /\ Route(c)[c.step - 1] = "validated"
<1> DEFINE r == Route(c)
<1>1. /\ c.task \in Tasks /\ c.op \in {"submit", "approve", "reject", "complete"}
      /\ c.step \in 1 .. Len(r)
  BY DEF Call, CallInv
<1>2. \/ Committed(c) = r[c.step]
      \/ r[c.step] = "executing" /\ c.op # "approve" /\ Committed(c) = "awaiting_approval"
  BY DEF Committed
<1>3. CASE c.op = "submit"
  <2>1. r \in {<<"proposed", "failed", "dead_letter">>,
              <<"proposed", "validated", "awaiting_approval">>,
              <<"proposed", "validated", "executing">>}
    <3>1. r = SubmitRoute[Gate(c.task)] /\ Gate(c.task) \in {"deny", "hold", "go"}
      BY <1>1, <1>3, GateAnswers DEF Route
    <3>2. /\ SubmitRoute["deny"] = <<"proposed", "failed", "dead_letter">>
          /\ SubmitRoute["hold"] = <<"proposed", "validated", "awaiting_approval">>
          /\ SubmitRoute["go"] = <<"proposed", "validated", "executing">>
      BY DEF SubmitRoute
    <3> QED BY <3>1, <3>2
  <2>2. /\ Len(r) = 3 /\ c.step \in 1 .. 3 /\ r[1] = "proposed"
        /\ \/ r[2] = "failed" /\ r[3] = "dead_letter"
           \/ r[2] = "validated" /\ r[3] \in {"awaiting_approval", "executing"}
    <3> HIDE DEF r
    <3>1. CASE r = <<"proposed", "failed", "dead_letter">> BY <1>1, <3>1
    <3>2. CASE r = <<"proposed", "validated", "awaiting_approval">> BY <1>1, <3>2
    <3>3. CASE r = <<"proposed", "validated", "executing">> BY <1>1, <3>3
    <3> QED BY <2>1, <3>1, <3>2, <3>3
  <2> HIDE DEF r
  <2>3. \A i \in 2 .. 3 : IsValidTransition(r[i - 1], r[i])
    <3>1. IsValidTransition(r[1], r[2])
      BY <2>2 DEF IsValidTransition, ValidTransitions, WorkflowState
    <3>2. IsValidTransition(r[2], r[3])
      BY <2>2 DEF IsValidTransition, ValidTransitions, WorkflowState
    <3> QED BY <3>1, <3>2
  <2>4. c.step < 3 => Committed(c) = r[c.step] BY <1>2, <2>2
  <2>5. Committed(c) \in Halfway => c.step < 3 BY <1>2, <2>2 DEF Halfway
  <2>6. Committed(c) # r[c.step] =>
          Committed(c) = "awaiting_approval" /\ c.step > 1 /\ r[c.step - 1] = "validated"
    <3>1. r[c.step] = "executing" => c.step = 3 /\ r[2] = "validated" BY <2>2
    <3> QED BY <1>2, <3>1
  <2> QED BY <2>2, <2>3, <2>4, <2>5, <2>6 DEF r
<1>4. CASE c.op = "approve"
  <2>1. r = <<"approved", "executing">> BY <1>4 DEF Route
  <2>2. Len(r) = 2 /\ c.step \in 1 .. 2 /\ r[1] = "approved" /\ r[2] = "executing"
        /\ Committed(c) = r[c.step]
    BY <1>1, <1>2, <1>4, <2>1
  <2> HIDE DEF r
  <2>3. IsValidTransition(r[1], r[2])
    BY <2>2 DEF IsValidTransition, ValidTransitions, WorkflowState
  <2>4. \A i \in 2 .. 2 : IsValidTransition(r[i - 1], r[i]) BY <2>3
  <2>5. Committed(c) \in Halfway => c.step < 2 BY <2>2 DEF Halfway
  <2> QED BY <2>2, <2>4, <2>5 DEF r
<1>5. CASE c.op \in {"reject", "complete"}
  <2>1. r = <<c.to>> BY <1>5 DEF Route
  <2>2. /\ Len(r) = 1 /\ c.step = 1 /\ r[c.step] \in {"cancelled", "succeeded", "failed"}
        /\ Committed(c) = r[c.step]
    BY <1>1, <1>2, <1>5, <2>1 DEF CallInv
  <2> HIDE DEF r
  <2>3. Committed(c) \notin Halfway BY <2>2 DEF Halfway
  <2>4. \A i \in 2 .. 1 : FALSE OBVIOUS
  <2> QED BY <2>2, <2>3, <2>4 DEF r
<1> QED BY <1>1, <1>3, <1>4, <1>5

\* Committed depends on the call's operation, task, target and step alone.
LEMMA SameCommitted ==
  ASSUME NEW c, NEW d, d.op = c.op, d.task = c.task, d.to = c.to, d.step = c.step
  PROVE  Committed(d) = Committed(c)
BY SameRoute DEF Committed
-------------------------------------------------------------------------------
(* What an event adds to a ledger.                                          *)

\* The events before it lead where they led.
LEMMA AfterBefore ==
  ASSUME NEW S, NEW l \in Seq(S), NEW e \in S, NEW k, NEW n \in 0 .. Len(l)
  PROVE  /\ About(Append(l, e), k, n) = About(l, k, n)
         /\ HasLast(l, k, n) => After(Append(l, e), k, n) = After(l, k, n)
<1> DEFINE m == Append(l, e)
<1>1. \A i \in 1 .. n : m[i] = l[i] OBVIOUS
<1> HIDE DEF m
<1>2. About(m, k, n) = About(l, k, n) BY <1>1 DEF About
<1>3. ASSUME HasLast(l, k, n) PROVE After(m, k, n) = After(l, k, n)
  <2>1. CASE About(l, k, n) = {} BY <1>2, <2>1 DEF After
  <2>2. CASE About(l, k, n) # {}
    <3> DEFINE x == CHOOSE i \in About(l, k, n) : \A j \in About(l, k, n) : j <= i
    <3>1. x \in About(l, k, n) BY <1>3, <2>2 DEF HasLast
    <3>2. After(l, k, n) = l[x].to /\ After(m, k, n) = m[x].to BY <1>2, <2>2 DEF After
    <3> HIDE DEF x
    <3>3. x \in 1 .. n BY <3>1 DEF About
    <3> QED BY <1>1, <3>2, <3>3
  <2> QED BY <2>1, <2>2
<1> QED BY <1>2, <1>3 DEF m

\* An event about a task leads it to what the event says, and no other task anywhere.
LEMMA AfterLast ==
  ASSUME NEW S, NEW l \in Seq(S), NEW e \in S, NEW k, HasLast(l, k, Len(l))
  PROVE  /\ HasLast(Append(l, e), k, Len(l) + 1)
         /\ After(Append(l, e), k, Len(l) + 1)
            = IF e.task = k THEN e.to ELSE After(l, k, Len(l))
<1> DEFINE m == Append(l, e)
           h == Len(l)
           n == h + 1
<1>1. /\ h \in Nat /\ n \in Nat /\ m[n] = e /\ n \in 1 .. n
      /\ \A i \in 1 .. n : i \in 1 .. h \/ i = n
      /\ \A i \in 1 .. h : i \in 1 .. n /\ m[i] = l[i] /\ i < n
  OBVIOUS
<1>2. HasLast(l, k, h) OBVIOUS
<1> HIDE DEF m, n, h
<1>3. About(l, k, h) \subseteq 1 .. h BY DEF About
<1>4. CASE e.task = k
  <2>1. About(m, k, n) = About(l, k, h) \cup {n} BY <1>1, <1>4 DEF About
  <2>2. n \in About(m, k, n) /\ \A j \in About(m, k, n) : j <= n BY <1>1, <1>3, <2>1
  <2>3. ASSUME NEW i \in About(m, k, n), \A j \in About(m, k, n) : j <= i PROVE i = n
    <3>1. n <= i /\ (i \in 1 .. h \/ i = n) BY <1>1, <1>3, <2>1, <2>2, <2>3
    <3>2. i \in 1 .. h => i \in Nat /\ i < n BY <1>1
    <3> QED BY <1>1, <3>1, <3>2
  <2>4. (CHOOSE i \in About(m, k, n) : \A j \in About(m, k, n) : j <= i) = n
    BY <2>2, <2>3
  <2>5. HasLast(m, k, n) BY <2>2 DEF HasLast
  <2>6. After(m, k, n) = e.to BY <1>1, <2>2, <2>4 DEF After
  <2> QED BY <1>4, <2>5, <2>6 DEF m, n, h
<1>5. CASE e.task # k
  <2>1. About(m, k, n) = About(l, k, h) BY <1>1, <1>5 DEF About
  <2>2. HasLast(m, k, n) BY <1>2, <2>1 DEF HasLast
  <2>3. After(m, k, n) = After(l, k, h)
    <3>1. CASE About(l, k, h) = {} BY <2>1, <3>1 DEF After
    <3>2. CASE About(l, k, h) # {}
      <4> DEFINE x == CHOOSE i \in About(l, k, h) : \A j \in About(l, k, h) : j <= i
      <4>1. x \in About(l, k, h) BY <1>2, <3>2 DEF HasLast
      <4>2. After(l, k, h) = l[x].to /\ After(m, k, n) = m[x].to BY <2>1, <3>2 DEF After
      <4> HIDE DEF x
      <4> QED BY <1>1, <1>3, <4>1, <4>2
    <3> QED BY <3>1, <3>2
  <2> QED BY <1>5, <2>2, <2>3 DEF m, n, h
<1> QED BY <1>4, <1>5
-------------------------------------------------------------------------------
(* The steps keep the order.                                                *)

LEMMA InitOrder == Init => OrderInv
<1> SUFFICES ASSUME Init PROVE OrderInv OBVIOUS
<1>1. \A t \in Threads : ~Busy(t) BY DEF Init, Busy, Idle
<1>2. \A k \in Tasks : row[k] = "none" /\ ledger = <<>> BY DEF Init
<1>3. \A k : About(ledger, k, 0) = {} /\ After(ledger, k, 0) = "none"
  BY DEF About, After
<1>4. \A k \in Tasks : TurnsOn(k) BY <1>1 DEF TurnsOn, Recording, On
<1>5. \A k \in Tasks : Explains(ledger, k)
  BY <1>1, <1>2, <1>3 DEF Explains, Recording, On
<1>6. \A k \in Tasks : row[k] \notin Halfway BY <1>2 DEF Halfway
<1>7. \A k \in Tasks, n \in 0 .. Len(ledger) : HasLast(ledger, k, n)
  BY <1>2, <1>3 DEF HasLast
<1> QED BY <1>1, <1>4, <1>5, <1>6, <1>7 DEF OrderInv

\* The other calls are where they were.
LEMMA OthersOn ==
  ASSUME NEW t \in Threads, NEW d, call \in [Threads -> Call], call' = [call EXCEPT ![t] = d],
         NEW v \in Threads \ {t}
  PROVE  /\ call'[v] = call[v] /\ (Busy(v)' <=> Busy(v))
         /\ \A k : (On(v, k)' <=> On(v, k)) /\ (Recording(v, k)' <=> Recording(v, k))
<1>1. call'[v] = call[v] OBVIOUS
<1> QED BY <1>1 DEF Busy, On, Recording

\* A ledger explains a task on as long as the same calls record the same events.
LEMMA ExplainsKept ==
  ASSUME NEW j \in Tasks, Explains(ledger, j), row'[j] = row[j], ledger' = ledger,
         \A v \in Threads : Recording(v, j)' <=> Recording(v, j),
         \A v \in Threads : Recording(v, j) => call'[v].from = call[v].from
  PROVE  Explains(ledger, j)'
<1>1. \A i \in DOMAIN ledger' :
        ledger'[i].task = j => ledger'[i].from = After(ledger', j, i - 1)
  BY DEF Explains
<1>2. (\A v \in Threads : ~Recording(v, j)') => row'[j] = After(ledger', j, Len(ledger'))
  BY DEF Explains
<1>3. \A v \in Threads :
        Recording(v, j)' => call'[v].from = After(ledger', j, Len(ledger'))
  BY DEF Explains
<1> QED BY <1>1, <1>2, <1>3 DEF Explains, After, About

\* A call that begins knows the row, and records nothing yet.
LEMMA BeginOrder ==
  ASSUME TypeOK, OrderInv, NEW t \in Threads, NEW k \in Tasks,
         NEW op \in {"submit", "approve", "reject", "complete"}, NEW by, NEW to,
         Begin(t, op, k, by, to), op = "submit" => row[k] = "none"
  PROVE  OrderInv'
<1> DEFINE d == [Idle EXCEPT !.op = op, !.task = k, !.by = by, !.to = to, !.copy = row[k]]
<1>1. /\ d.op = op /\ d.task = k /\ d.copy = row[k] /\ d.step = 1 /\ d.point = "save"
      /\ call' = [call EXCEPT ![t] = d] /\ call \in [Threads -> Call] /\ ~Busy(t)
      /\ UNCHANGED <<row, ledger, contested, lost>>
  BY DEF Idle, Begin, TypeOK
<1> HIDE DEF d
<1>2. call'[t] = d BY <1>1
<1>3. \A j : ~Recording(t, j)' /\ ~Recording(t, j) /\ ~On(t, j)
  BY <1>1, <1>2 DEF Recording, On
<1>4. \A v \in Threads, j \in Tasks : Recording(v, j)' <=> Recording(v, j)
  BY <1>1, <1>3, OthersOn DEF Recording, On
<1>5. ASSUME NEW v \in Threads, Busy(v)' PROVE Follows(call'[v])
  <2>1. CASE v = t BY <1>1, <1>2, <2>1 DEF Follows
  <2>2. CASE v # t BY <1>1, <1>5, <2>2, OthersOn DEF OrderInv
  <2> QED BY <2>1, <2>2
<1>6. ASSUME NEW j \in Tasks \ lost', row'[j] \in Halfway
      PROVE  \E v \in Threads : On(v, j)' /\ Underway(call'[v])
  <2>1. PICK v \in Threads : On(v, j) /\ Underway(call[v]) BY <1>1, <1>6 DEF OrderInv
  <2>2. v # t BY <1>3, <2>1
  <2> QED BY <1>1, <2>1, <2>2, OthersOn
<1>7. ASSUME NEW j \in Tasks \ contested' PROVE TurnsOn(j)'
  <2>1. TurnsOn(j) BY <1>1, <1>7 DEF OrderInv
  <2>2. \A v \in Threads : On(v, j)' => call'[v].copy = row'[j]
    BY <1>1, <1>2, <2>1, OthersOn DEF TurnsOn, On
  <2> QED BY <1>3, <1>4, <2>1, <2>2 DEF TurnsOn
<1>8. ASSUME NEW j \in Tasks \ (lost' \cup contested') PROVE Explains(ledger, j)'
  <2>1. Explains(ledger, j) BY <1>1, <1>8 DEF OrderInv
  <2>2. \A v \in Threads : Recording(v, j)' => call'[v].from = call[v].from
    BY <1>1, <1>3, OthersOn
  <2> QED BY <1>1, <1>4, <2>1, <2>2, ExplainsKept
<1>9. \A j \in Tasks, n \in 0 .. Len(ledger') : HasLast(ledger', j, n) BY <1>1 DEF OrderInv
<1> QED BY <1>5, <1>6, <1>7, <1>8, <1>9 DEF OrderInv, Follows, Route, Committed, Underway,
                                            HasLast, About

\* A call that is between two accesses of its append goes on.
LEMMA AccessOrder ==
  ASSUME TypeOK, OrderInv, NEW t \in Threads, NEW d, Busy(t), call' = [call EXCEPT ![t] = d],
         d.op = call[t].op, d.task = call[t].task, d.to = call[t].to, d.step = call[t].step,
         d.copy = call[t].copy, d.from = call[t].from,
         call[t].point # "save", d.point # "save", UNCHANGED <<row, ledger, contested, lost>>
  PROVE  OrderInv'
<1>1. call \in [Threads -> Call] /\ call'[t] = d BY DEF TypeOK
<1>2. ASSUME NEW v \in Threads
      PROVE  /\ (Busy(v)' <=> Busy(v)) /\ call'[v].copy = call[v].copy
             /\ call'[v].from = call[v].from
             /\ \A j : (On(v, j)' <=> On(v, j)) /\ (Recording(v, j)' <=> Recording(v, j))
             /\ (Underway(call'[v]) <=> Underway(call[v]))
             /\ (Follows(call'[v]) <=> Follows(call[v]))
  <2>1. CASE v = t
    <3>1. Route(d) = Route(call[t]) /\ Committed(d) = Committed(call[t])
      BY SameRoute, SameCommitted
    <3>2. Underway(d) <=> Underway(call[t]) BY <3>1 DEF Underway
    <3>3. Follows(d) <=> Follows(call[t]) BY <3>1 DEF Follows
    <3>4. Busy(t)' <=> Busy(t) BY <1>1 DEF Busy
    <3>5. \A j : (On(t, j)' <=> On(t, j)) /\ (Recording(t, j)' <=> Recording(t, j))
      BY <1>1, <3>4 DEF On, Recording
    <3> QED BY <1>1, <2>1, <3>2, <3>3, <3>4, <3>5
  <2>2. CASE v # t BY <1>1, <2>2, OthersOn
  <2> QED BY <2>1, <2>2
<1>3. \A v \in Threads : Busy(v)' => Follows(call'[v]) BY <1>2 DEF OrderInv
<1>4. \A j \in Tasks \ lost' :
        row'[j] \in Halfway => \E v \in Threads : On(v, j)' /\ Underway(call'[v])
  BY <1>2 DEF OrderInv
<1>5. \A j \in Tasks \ contested' : TurnsOn(j)' BY <1>2 DEF OrderInv, TurnsOn
<1>6. \A j \in Tasks \ (lost' \cup contested') : Explains(ledger, j)'
  BY <1>2, ExplainsKept DEF OrderInv
<1>7. \A j \in Tasks, n \in 0 .. Len(ledger') : HasLast(ledger', j, n) BY DEF OrderInv
<1> QED BY <1>3, <1>4, <1>5, <1>6, <1>7 DEF OrderInv, Follows, Route, Committed, Underway,
                                            HasLast, About

\* A call ends that was not underway, or whose commit is counted as lost.
LEMMA EndsOrder ==
  ASSUME TypeOK, OrderInv, NEW t \in Threads, call' = [call EXCEPT ![t] = Idle],
         UNCHANGED <<row, ledger, contested>>, lost \subseteq lost',
         call[t].task \in lost' \/ (call[t].point = "save" /\ ~Underway(call[t]))
  PROVE  OrderInv'
<1>1. call \in [Threads -> Call] /\ ~Busy(t)' BY DEF TypeOK, Busy, Idle
<1>2. \A j : ~On(t, j)' /\ ~Recording(t, j)' BY <1>1 DEF On, Recording
<1>3. ASSUME NEW v \in Threads, Busy(v)' PROVE Follows(call'[v])
  BY <1>1, <1>3, OthersOn DEF OrderInv
<1>4. ASSUME NEW j \in Tasks \ lost', row'[j] \in Halfway
      PROVE  \E v \in Threads : On(v, j)' /\ Underway(call'[v])
  <2>1. PICK v \in Threads : On(v, j) /\ Underway(call[v]) BY <1>4 DEF OrderInv
  <2>2. v # t BY <1>4, <2>1 DEF On
  <2> QED BY <1>1, <2>1, <2>2, OthersOn
<1>5. ASSUME NEW j \in Tasks \ contested' PROVE TurnsOn(j)'
  <2>1. TurnsOn(j) BY <1>5 DEF OrderInv
  <2>2. ASSUME NEW v \in Threads, On(v, j)' PROVE call'[v].copy = row'[j]
    <3>1. v # t BY <1>2, <2>2
    <3>2. On(v, j) /\ call'[v] = call[v] BY <1>1, <2>2, <3>1, OthersOn
    <3> QED BY <2>1, <3>2 DEF TurnsOn
  <2>3. \A v, w \in Threads : Recording(v, j)' /\ Recording(w, j)' => v = w
    BY <1>1, <1>2, <2>1, OthersOn DEF TurnsOn
  <2> QED BY <2>2, <2>3 DEF TurnsOn
<1>6. ASSUME NEW j \in Tasks \ (lost' \cup contested') PROVE Explains(ledger, j)'
  <2>1. Explains(ledger, j) BY <1>6 DEF OrderInv
  <2>2. ~Recording(t, j) BY <1>6 DEF Recording, On
  <2>3. \A v \in Threads : Recording(v, j)' <=> Recording(v, j)
    BY <1>1, <1>2, <2>2, OthersOn
  <2>4. \A v \in Threads : Recording(v, j)' => call'[v].from = call[v].from
    BY <1>1, <1>2, OthersOn
  <2> QED BY <2>1, <2>3, <2>4, ExplainsKept
<1>7. \A j \in Tasks, n \in 0 .. Len(ledger') : HasLast(ledger', j, n) BY DEF OrderInv
<1> QED BY <1>3, <1>4, <1>5, <1>6, <1>7 DEF OrderInv, Follows, Route, Committed, Underway,
                                            HasLast, About

\* A commit writes the row: alone on its task, what the call read or wrote last
\* is the row it overwrites.
LEMMA SaveOrder ==
  ASSUME IInv, OrderInv, NEW t \in Threads, Save(t)
  PROVE  OrderInv'
<1> PICK c \in Call : c = call[t] BY DEF IInv, TypeOK
<1> DEFINE s == Committed(c)
           f == IF Inserts(c) THEN "none" ELSE c.copy
           d == [c EXCEPT !.point = "head", !.copy = s, !.from = f]
<1>0. /\ TypeOK /\ call \in [Threads -> Call] /\ row \in [Tasks -> WorkflowState \cup {"none"}]
      /\ Busy(t) /\ CallInv(c) /\ c.op # "none" /\ c.task \in Tasks /\ c.point = "save"
      /\ On(t, c.task) /\ Follows(c)
  BY DEF IInv, TypeOK, Save, Busy, Call, On, OrderInv
<1>1. /\ d.op = c.op /\ d.task = c.task /\ d.to = c.to /\ d.step = c.step
      /\ d.copy = s /\ d.from = f /\ d.point = "head"
  BY DEF Call
<1>2. /\ call' = [call EXCEPT ![t] = d] /\ row' = [row EXCEPT ![c.task] = s]
      /\ contested' = IF Overlaps(t) THEN contested \cup {c.task} ELSE contested
      /\ UNCHANGED <<ledger, lost>>
  BY <1>0 DEF Save
<1> HIDE DEF d
<1>3. Route(d) = Route(c) /\ Committed(d) = s BY <1>1, SameRoute, SameCommitted
<1>4. s \in Halfway => Underway(d)
  BY <1>0, <1>1, <1>3, RouteOrder DEF Underway
<1>5. f = c.copy BY <1>0 DEF Inserts, Follows
<1> HIDE DEF s, f
<1>6. call'[t] = d /\ row'[c.task] = s /\ \A j \in Tasks : j # c.task => row'[j] = row[j]
  BY <1>0, <1>2
<1>7. \A j \in Tasks : On(t, j)' <=> j = c.task BY <1>0, <1>1, <1>6 DEF On, Busy
<1>8. \A j \in Tasks : (Recording(t, j)' <=> j = c.task) /\ ~Recording(t, j)
  BY <1>0, <1>1, <1>6, <1>7 DEF Recording
<1>9. ASSUME c.task \notin contested'
      PROVE  /\ c.task \notin contested
             /\ \A v \in Threads \ {t} : ~On(v, c.task) /\ ~On(v, c.task)'
  <2>1. ~Overlaps(t) /\ contested' = contested BY <1>2, <1>9
  <2>2. \A v \in Threads \ {t} : ~On(v, c.task) BY <1>0, <2>1 DEF Overlaps, On
  <2> QED BY <1>0, <1>2, <1>9, <2>1, <2>2, OthersOn
<1>10. contested \subseteq contested' BY <1>2
<1>11. ASSUME NEW v \in Threads, Busy(v)' PROVE Follows(call'[v])
  <2>1. CASE v = t BY <1>1, <1>3, <1>6, <2>1 DEF Follows
  <2>2. CASE v # t BY <1>0, <1>2, <1>11, <2>2, OthersOn DEF OrderInv
  <2> QED BY <2>1, <2>2
<1>12. ASSUME NEW j \in Tasks \ lost', row'[j] \in Halfway
       PROVE  \E v \in Threads : On(v, j)' /\ Underway(call'[v])
  <2>1. CASE j = c.task BY <1>4, <1>6, <1>7, <1>12, <2>1
  <2>2. CASE j # c.task
    <3>1. PICK v \in Threads : On(v, j) /\ Underway(call[v])
      BY <1>2, <1>6, <1>12, <2>2 DEF OrderInv
    <3>2. v # t BY <1>0, <2>2, <3>1 DEF On
    <3> QED BY <1>0, <1>2, <3>1, <3>2, OthersOn
  <2> QED BY <2>1, <2>2
<1>13. ASSUME NEW j \in Tasks \ contested' PROVE TurnsOn(j)'
  <2>1. CASE j = c.task
    <3>1. \A v \in Threads : On(v, j)' => v = t BY <1>9, <1>13, <2>1
    <3>2. \A v \in Threads : Recording(v, j)' => v = t BY <3>1 DEF Recording
    <3> QED BY <1>1, <1>6, <2>1, <3>1, <3>2 DEF TurnsOn
  <2>2. CASE j # c.task
    <3>1. TurnsOn(j) BY <1>10, <1>13 DEF OrderInv
    <3>2. ~On(t, j)' /\ ~Recording(t, j)' BY <1>7, <1>8, <2>2
    <3>3. ASSUME NEW v \in Threads, On(v, j)' PROVE call'[v].copy = row'[j]
      <4>1. v # t BY <3>2, <3>3
      <4>2. On(v, j) /\ call'[v] = call[v] BY <1>0, <1>2, <3>3, <4>1, OthersOn
      <4> QED BY <1>6, <2>2, <3>1, <4>2 DEF TurnsOn
    <3>4. ASSUME NEW v \in Threads, NEW w \in Threads, Recording(v, j)', Recording(w, j)'
          PROVE  v = w
      <4>1. v # t /\ w # t BY <3>2, <3>4
      <4>2. Recording(v, j) /\ Recording(w, j) BY <1>0, <1>2, <3>4, <4>1, OthersOn
      <4> QED BY <3>1, <4>2 DEF TurnsOn
    <3> QED BY <3>3, <3>4 DEF TurnsOn
  <2> QED BY <2>1, <2>2
<1>14. ASSUME NEW j \in Tasks \ (lost' \cup contested') PROVE Explains(ledger, j)'
  <2>0. Explains(ledger, j) /\ TurnsOn(j) BY <1>2, <1>10, <1>14 DEF OrderInv
  <2>1. CASE j = c.task
    <3>1. \A v \in Threads \ {t} : ~On(v, j) /\ ~On(v, j)' BY <1>9, <1>14, <2>1
    <3>2. \A v \in Threads : ~Recording(v, j)
      BY <1>8, <3>1 DEF Recording
    <3>3. row[j] = After(ledger, j, Len(ledger)) BY <2>0, <3>2 DEF Explains
    <3>4. d.from = row[j] BY <1>0, <1>1, <1>5, <2>0, <2>1 DEF TurnsOn
    <3>5. \A v \in Threads : Recording(v, j)' => v = t BY <3>1 DEF Recording
    <3>6. Recording(t, j)' BY <1>8, <2>1
    <3>7. \A i \in DOMAIN ledger' :
            ledger'[i].task = j => ledger'[i].from = After(ledger', j, i - 1)
      BY <1>2, <2>0 DEF Explains
    <3>8. \A v \in Threads :
            Recording(v, j)' => call'[v].from = After(ledger', j, Len(ledger'))
      BY <1>2, <1>6, <3>3, <3>4, <3>5
    <3> QED BY <3>6, <3>7, <3>8 DEF Explains, After, About
  <2>2. CASE j # c.task
    <3>1. ~Recording(t, j)' /\ ~Recording(t, j) BY <1>8, <2>2
    <3>2. \A v \in Threads : Recording(v, j)' <=> Recording(v, j)
      BY <1>0, <1>2, <3>1, OthersOn
    <3>3. \A v \in Threads : Recording(v, j) => call'[v].from = call[v].from
      BY <1>0, <1>2, <3>1, OthersOn
    <3>4. row'[j] = row[j] /\ ledger' = ledger BY <1>2, <1>6, <2>2
    <3> QED BY <2>0, <3>2, <3>3, <3>4, ExplainsKept
  <2> QED BY <2>1, <2>2
<1>15. \A j \in Tasks, n \in 0 .. Len(ledger') : HasLast(ledger', j, n) BY <1>2 DEF OrderInv
<1> QED BY <1>11, <1>12, <1>13, <1>14, <1>15 DEF OrderInv, Follows, Route, Committed,
                                                Underway, HasLast, About

\* The event goes in: it starts where the ledger had led its task, and leads it
\* to the row.
LEMMA RecordOrder ==
  ASSUME IInv, OrderInv, NEW t \in Threads, Record(t)
  PROVE  OrderInv'
<1> PICK c \in Call : c = call[t] BY DEF IInv, TypeOK
<1> DEFINE E == [task : Tasks, from : WorkflowState \cup {"none"}, to : WorkflowState]
           e == [task |-> c.task, from |-> c.from, to |-> c.copy]
           n == c.step + 1
           d == IF c.step < Len(Route(c)) THEN [c EXCEPT !.step = n, !.point = "save"] ELSE Idle
           h == Len(ledger)
<1>0. /\ TypeOK /\ call \in [Threads -> Call] /\ ledger \in Seq(E)
      /\ Busy(t) /\ CallInv(c) /\ c.op # "none" /\ c.task \in Tasks /\ c.point = "insert"
      /\ On(t, c.task) /\ Recording(t, c.task) /\ Follows(c)
  BY DEF IInv, TypeOK, Record, Busy, Call, On, Recording, OrderInv
<1>1. e \in E /\ e.task = c.task /\ e.from = c.from /\ e.to = c.copy
  BY <1>0 DEF CallInv, Call
<1>2. call' = [call EXCEPT ![t] = d] /\ ledger' = Append(ledger, e)
      /\ UNCHANGED <<row, contested, lost>>
  BY <1>0 DEF Record
<1>3. d.op # "none" =>
        /\ d.op = c.op /\ d.task = c.task /\ d.to = c.to /\ d.copy = c.copy
        /\ d.step = n /\ c.step < Len(Route(c))
  BY IdleType DEF Call
<1>4. d.point = "save" BY IdleType DEF Call
<1>5. c.step < Len(Route(c)) => d.op # "none" BY <1>0 DEF Call
<1>6. c.step \in Nat /\ n \in Nat /\ n > 1 /\ n - 1 = c.step BY DEF Call
<1>7. c.copy = Committed(c) BY <1>0 DEF Follows
<1> HIDE DEF d, e, n
<1>8. /\ h \in Nat /\ DOMAIN ledger = 1 .. h /\ ledger'[h + 1] = e
      /\ \A i \in 1 .. h : ledger'[i] = ledger[i]
      /\ Len(ledger') = h + 1 /\ DOMAIN ledger' = 1 .. h + 1
  BY <1>0, <1>1, <1>2
<1>9. \A j \in Tasks, m \in 0 .. h :
        /\ HasLast(ledger, j, m) /\ HasLast(ledger', j, m)
        /\ After(ledger', j, m) = After(ledger, j, m)
  <2>1. \A j \in Tasks, m \in 0 .. h : HasLast(ledger, j, m) BY DEF OrderInv
  <2> SUFFICES ASSUME NEW j \in Tasks, NEW m \in 0 .. h
               PROVE  HasLast(ledger', j, m) /\ After(ledger', j, m) = After(ledger, j, m)
    BY <2>1
  <2>2. HasLast(ledger, j, m) BY <2>1
  <2>3. m \in 0 .. Len(ledger) OBVIOUS
  <2> HIDE DEF E, h
  <2>4. /\ About(ledger', j, m) = About(ledger, j, m)
        /\ After(ledger', j, m) = After(ledger, j, m)
    BY <1>0, <1>1, <1>2, <2>2, <2>3, AfterBefore
  <2> QED BY <2>2, <2>4 DEF HasLast
<1>10. \A j \in Tasks :
         /\ HasLast(ledger', j, h + 1)
         /\ After(ledger', j, h + 1) = IF e.task = j THEN e.to ELSE After(ledger, j, h)
  <2>1. \A j \in Tasks : HasLast(ledger, j, h) BY <1>8, <1>9
  <2> HIDE DEF E
  <2> QED BY <1>0, <1>1, <1>2, <2>1, AfterLast
<1>19. ASSUME NEW j \in Tasks, Explains(ledger, j)
       PROVE  /\ (\A v \in Threads : ~Recording(v, j)) => row[j] = After(ledger, j, h)
              /\ \A v \in Threads : Recording(v, j) => call[v].from = After(ledger, j, h)
  BY <1>19 DEF Explains
<1> HIDE DEF h, E
<1>11. call'[t] = d /\ \A j : On(t, j)' <=> d.op # "none" /\ d.task = j
  BY <1>0, <1>2 DEF On, Busy
<1>12. \A j : ~Recording(t, j)' BY <1>4, <1>11 DEF Recording
<1>13. d.op # "none" => Follows(d)
  <2> SUFFICES ASSUME d.op # "none" PROVE Follows(d) OBVIOUS
  <2>1. Route(d) = Route(c) BY <1>3, SameRoute
  <2>2. c.copy = Route(c)[c.step] BY <1>0, <1>3, <1>7, RouteOrder
  <2> QED BY <1>3, <1>4, <1>6, <2>1, <2>2 DEF Follows
<1>14. ASSUME NEW v \in Threads, Busy(v)' PROVE Follows(call'[v])
  <2>1. CASE v = t BY <1>11, <1>13, <1>14, <2>1 DEF Busy
  <2>2. CASE v # t BY <1>0, <1>2, <1>14, <2>2, OthersOn DEF OrderInv
  <2> QED BY <2>1, <2>2
<1>15. ASSUME NEW j \in Tasks \ lost', row'[j] \in Halfway
       PROVE  \E v \in Threads : On(v, j)' /\ Underway(call'[v])
  <2>1. PICK v \in Threads : On(v, j) /\ Underway(call[v]) BY <1>2, <1>15 DEF OrderInv
  <2>2. CASE v = t
    <3>1. c.step < Len(Route(c)) /\ j = c.task BY <1>0, <2>1, <2>2 DEF Underway, On
    <3>2. d.op # "none" /\ d.step > 1 /\ d.task = j BY <1>3, <1>5, <1>6, <3>1
    <3>3. Underway(d) BY <1>4, <3>2 DEF Underway
    <3> QED BY <1>11, <3>2, <3>3
  <2>3. CASE v # t BY <1>0, <1>2, <2>1, <2>3, OthersOn
  <2> QED BY <2>2, <2>3
<1>16. ASSUME NEW j \in Tasks \ contested' PROVE TurnsOn(j)'
  <2>1. TurnsOn(j) BY <1>2, <1>16 DEF OrderInv
  <2>2. ASSUME NEW v \in Threads, On(v, j)' PROVE call'[v].copy = row'[j]
    <3>1. CASE v = t
      <4>1. d.op # "none" /\ j = c.task /\ d.copy = c.copy BY <1>3, <1>11, <2>2, <3>1
      <4> QED BY <1>0, <1>2, <1>11, <2>1, <3>1, <4>1 DEF TurnsOn
    <3>2. CASE v # t
      <4>1. On(v, j) /\ call'[v] = call[v] BY <1>0, <1>2, <2>2, <3>2, OthersOn
      <4> QED BY <1>2, <2>1, <4>1 DEF TurnsOn
    <3> QED BY <3>1, <3>2
  <2>3. ASSUME NEW v \in Threads, NEW w \in Threads, Recording(v, j)', Recording(w, j)'
        PROVE  v = w
    <3>1. v # t /\ w # t BY <1>12, <2>3
    <3>2. Recording(v, j) /\ Recording(w, j) BY <1>0, <1>2, <2>3, <3>1, OthersOn
    <3> QED BY <2>1, <3>2 DEF TurnsOn
  <2> QED BY <2>2, <2>3 DEF TurnsOn
<1>17. ASSUME NEW j \in Tasks \ (lost' \cup contested') PROVE Explains(ledger, j)'
  <2>0. Explains(ledger, j) /\ TurnsOn(j) BY <1>2, <1>17 DEF OrderInv
  <2>1. ASSUME NEW i \in DOMAIN ledger', ledger'[i].task = j
        PROVE  ledger'[i].from = After(ledger', j, i - 1)
    <3>1. CASE i \in 1 .. h
      <4>1. ledger[i].task = j /\ ledger'[i].from = ledger[i].from
        BY <1>8, <2>1, <3>1
      <4>2. ledger[i].from = After(ledger, j, i - 1)
        BY <1>8, <2>0, <3>1, <4>1 DEF Explains
      <4>3. i - 1 \in 0 .. h BY <1>8, <3>1
      <4> QED BY <1>9, <4>1, <4>2, <4>3
    <3>2. CASE i = h + 1
      <4>1. ledger'[i] = e /\ j = c.task /\ i - 1 = h /\ h \in 0 .. h
        BY <1>1, <1>8, <2>1, <3>2
      <4>2. c.from = After(ledger, j, h) BY <1>0, <2>0, <4>1 DEF Explains, h
      <4> QED BY <1>1, <1>9, <4>1, <4>2
    <3> QED BY <1>8, <2>1, <3>1, <3>2
  <2>2. CASE j = c.task
    <3>1. \A v \in Threads : Recording(v, j)' => v # t /\ Recording(v, j)
      BY <1>0, <1>2, <1>12, OthersOn
    <3>2. \A v \in Threads : ~Recording(v, j)' BY <1>0, <2>0, <2>2, <3>1 DEF TurnsOn
    <3>3. row'[j] = After(ledger', j, Len(ledger'))
      BY <1>0, <1>1, <1>2, <1>8, <1>10, <2>0, <2>2 DEF TurnsOn
    <3> QED BY <2>1, <3>2, <3>3 DEF Explains, After, About
  <2>3. CASE j # c.task
    <3>1. After(ledger', j, Len(ledger')) = After(ledger, j, h)
      BY <1>1, <1>8, <1>10, <2>3
    <3>2. ~Recording(t, j) /\ ~Recording(t, j)' BY <1>12, <2>3 DEF Recording, On
    <3>3. \A v \in Threads : /\ Recording(v, j)' <=> Recording(v, j)
                             /\ Recording(v, j) => call'[v].from = call[v].from
      BY <1>0, <1>2, <3>2, OthersOn
    <3>4. (\A v \in Threads : ~Recording(v, j)') => row'[j] = After(ledger', j, Len(ledger'))
      <4> SUFFICES ASSUME \A v \in Threads : ~Recording(v, j)'
                   PROVE  row'[j] = After(ledger', j, Len(ledger'))
        OBVIOUS
      <4>1. \A v \in Threads : ~Recording(v, j) BY <3>3
      <4>2. row[j] = After(ledger, j, h) BY <1>19, <2>0, <4>1
      <4> QED BY <1>2, <3>1, <4>2
    <3>5. \A v \in Threads :
            Recording(v, j)' => call'[v].from = After(ledger', j, Len(ledger'))
      <4> SUFFICES ASSUME NEW v \in Threads, Recording(v, j)'
                   PROVE  call'[v].from = After(ledger', j, Len(ledger'))
        OBVIOUS
      <4>1. Recording(v, j) /\ call'[v].from = call[v].from BY <3>3
      <4>2. call[v].from = After(ledger, j, h) BY <1>19, <2>0, <4>1
      <4> QED BY <3>1, <4>1, <4>2
    <3> QED BY <2>1, <3>4, <3>5 DEF Explains, After, About
  <2> QED BY <2>2, <2>3
<1>18. \A j \in Tasks, m \in 0 .. Len(ledger') : HasLast(ledger', j, m)
  <2>1. \A m \in 0 .. Len(ledger') : m \in 0 .. h \/ m = h + 1 BY <1>8
  <2> QED BY <1>9, <1>10, <2>1
<1> QED BY <1>14, <1>15, <1>16, <1>17, <1>18 DEF OrderInv, Follows, Route, Committed,
                                                Underway, HasLast, About

\* A call is refused when it commits nothing: what it wrote before allows what
\* it would write next.
LEMMA RefusedEarly ==
  ASSUME IInv, OrderInv, NEW t \in Threads, Refuse(t)
  PROVE  ~Underway(call[t])
<1> PICK c \in Call : c = call[t] BY DEF IInv, TypeOK
<1>1. CallInv(c) /\ c.op # "none" /\ c.point = "save" /\ Follows(c)
      /\ ~IsValidTransition(c.copy, Route(c)[c.step])
  BY DEF IInv, OrderInv, Refuse, Busy, Allowed
<1>2. c.step \in 1 .. Len(Route(c)) BY <1>1 DEF CallInv
<1>3. c.step > 1 => c.copy = Route(c)[c.step - 1] BY <1>1 DEF Follows
<1>4. Len(Route(c)) \in Nat BY <1>1, RouteStates DEF CallInv
<1>5. c.step > 1 => c.step \in 2 .. Len(Route(c)) BY <1>2, <1>4
<1> QED BY <1>1, <1>3, <1>5, RouteOrder DEF Underway

LEMMA NextOrder == ASSUME IInv, OrderInv, [Next]_vars PROVE OrderInv'
<1>0. TypeOK BY DEF IInv
<1>1. CASE UNCHANGED vars
  <2>1. UNCHANGED <<row, ledger, call, contested, lost>> BY <1>1 DEF vars
  <2>2. \A t, k : (On(t, k)' <=> On(t, k)) /\ (Recording(t, k)' <=> Recording(t, k))
                 /\ (Busy(t)' <=> Busy(t))
    BY <2>1 DEF On, Recording, Busy
  <2>3. \A k \in Tasks \ (lost' \cup contested') : Explains(ledger, k)'
    BY <2>1, <2>2, ExplainsKept DEF OrderInv
  <2>4. \A k \in Tasks \ contested' : TurnsOn(k)' BY <2>1, <2>2 DEF OrderInv, TurnsOn
  <2>5. \A t \in Threads : Busy(t)' => Follows(call'[t]) BY <2>1, <2>2 DEF OrderInv
  <2>6. \A k \in Tasks \ lost' :
          row'[k] \in Halfway => \E t \in Threads : On(t, k)' /\ Underway(call'[t])
    BY <2>1, <2>2 DEF OrderInv
  <2>7. \A k \in Tasks, n \in 0 .. Len(ledger') : HasLast(ledger', k, n)
    BY <2>1 DEF OrderInv
  <2> QED BY <2>3, <2>4, <2>5, <2>6, <2>7 DEF OrderInv, Follows, Route, Committed, Underway,
                                              HasLast, About
<1>2. ASSUME NEW t \in Threads, NEW k \in Tasks,
             \/ Submit(t, k)
             \/ \E by \in Approvers : Approve(t, k, by)
             \/ Reject(t, k)
             \/ \E to \in {"succeeded", "failed"} : Complete(t, k, to)
      PROVE  OrderInv'
  <2>1. CASE Submit(t, k) BY <1>0, <2>1, BeginOrder DEF Submit
  <2>2. CASE \E by \in Approvers : Approve(t, k, by) BY <1>0, <2>2, BeginOrder DEF Approve
  <2>3. CASE Reject(t, k) BY <1>0, <2>3, BeginOrder DEF Reject
  <2>4. CASE \E to \in {"succeeded", "failed"} : Complete(t, k, to)
    BY <1>0, <2>4, BeginOrder DEF Complete
  <2> QED BY <1>2, <2>1, <2>2, <2>3, <2>4
<1>3. ASSUME NEW t \in Threads, Refuse(t) PROVE OrderInv'
  <2>1. ~Underway(call[t]) BY <1>3, RefusedEarly
  <2> QED BY <1>0, <1>3, <2>1, EndsOrder DEF Refuse
<1>4. ASSUME NEW t \in Threads, ReadHead(t) PROVE OrderInv'
  <2> DEFINE d == [call[t] EXCEPT !.point = "compare", !.head = Len(ledger)]
  <2>1. /\ d.op = call[t].op /\ d.task = call[t].task /\ d.to = call[t].to
        /\ d.step = call[t].step /\ d.copy = call[t].copy /\ d.from = call[t].from
        /\ d.point # "save"
    BY <1>0 DEF TypeOK, Call
  <2>2. call' = [call EXCEPT ![t] = d] BY <1>0, <1>4 DEF ReadHead, TypeOK
  <2>3. Busy(t) /\ call[t].point # "save" /\ UNCHANGED <<row, ledger, contested, lost>>
    BY <1>4 DEF ReadHead
  <2> HIDE DEF d
  <2> QED BY <1>0, <2>1, <2>2, <2>3, AccessOrder
<1>5. ASSUME NEW t \in Threads, CompareHead(t) PROVE OrderInv'
  <2> DEFINE d == [call[t] EXCEPT !.point = "insert"]
  <2>1. /\ d.op = call[t].op /\ d.task = call[t].task /\ d.to = call[t].to
        /\ d.step = call[t].step /\ d.copy = call[t].copy /\ d.from = call[t].from
        /\ d.point # "save"
    BY <1>0 DEF TypeOK, Call
  <2>2. Busy(t) /\ call[t].point # "save" /\ UNCHANGED <<row, ledger, contested>>
    BY <1>5 DEF CompareHead
  <2>3. \/ call' = [call EXCEPT ![t] = d] /\ UNCHANGED lost
        \/ call' = [call EXCEPT ![t] = Idle] /\ lost' = lost \cup {call[t].task}
    BY <1>0, <1>5 DEF CompareHead, TypeOK
  <2> HIDE DEF d
  <2>4. CASE call' = [call EXCEPT ![t] = d] /\ UNCHANGED lost
    BY <1>0, <2>1, <2>2, <2>4, AccessOrder
  <2>5. CASE call' = [call EXCEPT ![t] = Idle] /\ lost' = lost \cup {call[t].task}
    <3>1. lost \subseteq lost' /\ call[t].task \in lost' BY <2>5
    <3> QED BY <1>0, <2>2, <2>5, <3>1, EndsOrder
  <2> QED BY <2>3, <2>4, <2>5
<1>6. ASSUME NEW t \in Threads, CutOff(t) PROVE OrderInv'
  <2>1. /\ call' = [call EXCEPT ![t] = Idle] /\ UNCHANGED <<row, ledger, contested>>
        /\ lost \subseteq lost' /\ call[t].task \in lost'
    BY <1>6 DEF CutOff
  <2> QED BY <1>0, <2>1, EndsOrder
<1> QED BY <1>1, <1>2, <1>3, <1>4, <1>5, <1>6, SaveOrder, RecordOrder DEF Next
-------------------------------------------------------------------------------
(* What the order shows.                                                    *)

\* Save writes against the state machine only what another call has changed.
LEMMA SaveLegal ==
  ASSUME IInv, OrderInv, NEW t \in Threads, Save(t), call[t].task \notin contested'
  PROVE  LET k == call[t].task
         IN row[k] = "none" \/ IsValidTransition(row[k], Committed(call[t]))
<1> PICK c \in Call : c = call[t] BY DEF IInv, TypeOK
<1>1. /\ CallInv(c) /\ c.op # "none" /\ c.task \in Tasks /\ c.point = "save"
      /\ Follows(c) /\ Allowed(c) /\ On(t, c.task) /\ c.task \notin contested
  BY DEF IInv, OrderInv, Save, Busy, Call, On
<1>2. c.copy = row[c.task] BY <1>1 DEF OrderInv, TurnsOn
<1>3. CASE Inserts(c)
  BY <1>1, <1>2, <1>3 DEF Inserts, Follows
<1>4. CASE ~Inserts(c)
  <2>1. IsValidTransition(c.copy, Route(c)[c.step]) BY <1>1, <1>4 DEF Allowed
  <2>2. CASE Committed(c) = Route(c)[c.step] BY <1>2, <2>1, <2>2
  <2>3. CASE Committed(c) # Route(c)[c.step]
    <3>1. /\ Committed(c) = "awaiting_approval"
          /\ c.step > 1 /\ Route(c)[c.step - 1] = "validated"
      BY <1>1, <2>3, RouteOrder
    <3>2. row[c.task] = "validated" BY <1>1, <1>2, <3>1 DEF Follows
    <3> QED BY <3>1, <3>2 DEF IsValidTransition, ValidTransitions, WorkflowState
  <2> QED BY <2>2, <2>3
<1> QED BY <1>3, <1>4

\* The calls on a task, its row and its ledger agree in every reachable state.
THEOREM OrderHolds == Spec => []OrderInv
<1>1. IInv /\ OrderInv /\ [Next]_vars => OrderInv' BY NextOrder
<1> QED BY <1>1, InitOrder, TasksInvariant, PTL DEF Spec

\* A call leaves its task where some call can take it up unless a commit of it
\* was cut short or refused, and the ledger of a task that calls took turns on,
\* and that lost no event, leads without a gap to its row: _commit_state and
\* the append of the ledger, for any number of callers and tasks.
THEOREM TasksLeftInOrder == Spec => []LeftInOrder
<1>1. OrderInv => LeftInOrder
  <2> SUFFICES ASSUME OrderInv PROVE LeftInOrder OBVIOUS
  <2>1. Settled BY DEF OrderInv, Settled, On, Halfway
  <2>2. \A k, n : Reached(k, n) = After(ledger, k, n) BY DEF Reached, After, About
  <2>3. LedgerLeadsToRow
    BY <2>2 DEF OrderInv, Explains, LedgerLeadsToRow, Recording, On
  <2> QED BY <2>1, <2>3 DEF LeftInOrder
<1> QED BY <1>1, OrderHolds, PTL

\* A row moves against the state machine of control_plane/workflow.py only when
\* two calls worked on the task at once, for any number of callers and tasks.
THEOREM TasksMoveLegally == Spec => LegalUnlessContested
<1> DEFINE Legal == \A k \in Tasks :
             \/ row'[k] = row[k] \/ row[k] = "none" \/ k \in contested'
             \/ IsValidTransition(row[k], row'[k])
<1>1. IInv /\ OrderInv /\ [Next]_vars => [Legal]_vars
  <2> SUFFICES ASSUME IInv, OrderInv, Next, NEW k \in Tasks, row'[k] # row[k],
                      row[k] # "none", k \notin contested'
               PROVE  IsValidTransition(row[k], row'[k])
    BY DEF vars
  <2>1. PICK t \in Threads : Save(t)
    BY DEF Next, Submit, Approve, Reject, Complete, Begin, Refuse, ReadHead, CompareHead,
           Record, CutOff
  <2>2. row' = [row EXCEPT ![call[t].task] = Committed(call[t])]
        /\ row \in [Tasks -> WorkflowState \cup {"none"}]
    BY <2>1 DEF Save, IInv, TypeOK
  <2>3. k = call[t].task /\ row'[k] = Committed(call[t]) BY <2>2
  <2> QED BY <2>1, <2>3, SaveLegal
<1> QED BY <1>1, TasksInvariant, OrderHolds, PTL DEF Spec, LegalUnlessContested
===============================================================================
