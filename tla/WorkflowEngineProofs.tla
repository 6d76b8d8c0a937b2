------------------------- MODULE WorkflowEngineProofs -------------------------
(***************************************************************************)
(* Theorems about WorkflowEngine, for any number of callers and keys, any  *)
(* interleaving of their steps, any audit failures, deaths and failing     *)
(* store operations, and any bounds: the state is well typed; no handler   *)
(* runs for work that was not cleared; an engaged kill switch stops new    *)
(* work; a refused request stays refused; nothing closes without the audit *)
(* record of its success or its logged cancellation. Each has a section    *)
(* with an invariant of its own, since each rests on other facts of the    *)
(* calls under way. The last sections are about callers who take turns:    *)
(* what a key whose calls all came to their end leaves behind.             *)
(***************************************************************************)
EXTENDS WorkflowEngine, TLAPS

\* The phase tables stay within phases, stored states and exception clauses.
LEMMA PhaseTables ==
  /\ Phases = {"created", "refused", "validate", "invalid", "gatefail", "isolate",
               "hold", "late", "go", "grant", "deny", "nohandler", "succeed", "close",
               "retry", "fail", "exhaust", "cancel", "withdraw", "failclosed"}
  /\ \A p \in Phases : Target[p] \in WorkflowState
  /\ DOMAIN Following = {"created", "gatefail", "grant", "succeed", "fail", "cancel"}
  /\ \A p \in DOMAIN Following : Following[p] \in Phases
  /\ \A p \in DOMAIN Guards : Guards[p] \in {"validation", "attempt"}
<1>1. Phases = {"created", "refused", "validate", "invalid", "gatefail", "isolate",
               "hold", "late", "go", "grant", "deny", "nohandler", "succeed", "close",
               "retry", "fail", "exhaust", "cancel", "withdraw", "failclosed"}
  BY DEF Phases, Target
<1>2. \A p \in Phases : Target[p] \in WorkflowState
  BY <1>1 DEF Target, WorkflowState
<1>3. DOMAIN Following = {"created", "gatefail", "grant", "succeed", "fail", "cancel"}
  BY DEF Following
<1>4. \A p \in DOMAIN Following : Following[p] \in Phases
  BY <1>1, <1>3 DEF Following
<1>5. \A p \in DOMAIN Guards : Guards[p] \in {"validation", "attempt"}
  BY DEF Guards
<1>6. QED  BY <1>1, <1>2, <1>3, <1>4, <1>5

\* The idle call is a call.
LEMMA IdleTyped == Idle \in Call
<1>1. (CHOOSE k \in Keys : TRUE) \in Keys
  BY EngineAssumption
<1>2. QED  BY <1>1, PhaseTables DEF Idle, Call, Row, NoRow

\* Entering a phase keeps a call well typed.
LEMMA InPhaseTyped ==
  ASSUME NEW c \in Call, NEW p \in Phases
  PROVE  InPhase(c, p) \in Call
<1> DEFINE g == IF p \in DOMAIN Guards THEN Guards[p]
                ELSE IF p = "failclosed" THEN c.guard ELSE "none"
<1>1. g \in {"none", "validation", "attempt"}
  BY PhaseTables DEF Call
<1>2. InPhase(c, p) = [c EXCEPT !.phase = p, !.point = "save", !.guard = g]
  BY DEF InPhase, Call
<1>3. QED
  <2> HIDE DEF g
  <2> QED  BY <1>1, <1>2 DEF Call

\* So does raising, into the except clause of the phase or out of the operation.
LEMMA RaisedTyped ==
  ASSUME NEW c \in Call
  PROVE  Raised(c) \in Call
BY InPhaseTyped, IdleTyped, PhaseTables DEF Raised

\* So does going on after the last store operation of a phase.
LEMMA ContinueTyped ==
  ASSUME NEW c \in Call
  PROVE  Continue(c) \in Call
<1>1. AfterRetry(c) \in Call
  <2>1. [c EXCEPT !.point = "run", !.guard = "none"] \in Call
    BY DEF Call
  <2>2. InPhase(c, "fail") \in Call
    BY InPhaseTyped, PhaseTables
  <2>3. QED  BY <2>1, <2>2 DEF AfterRetry
<1>2. [c EXCEPT !.point = "gate"] \in Call
  BY DEF Call
<1>3. c.phase \in DOMAIN Following => InPhase(c, Following[c.phase]) \in Call
  BY InPhaseTyped, PhaseTables
<1>4. QED  BY <1>1, <1>2, <1>3, IdleTyped DEF Continue

\* So does going on after a row was saved.
LEMMA SavedTyped ==
  ASSUME NEW c \in Call
  PROVE  Saved(c) \in Row
<1>1. Target[c.phase] \in WorkflowState
  BY PhaseTables DEF Call
<1>2. c.row \in Row /\ c.attempt \in Nat
  BY DEF Call
<1>3. QED  BY <1>1, <1>2 DEF Saved, Row

\* So does going on after an event was numbered or appended.
LEMMA LoggedTyped ==
  ASSUME NEW c \in Call
  PROVE  Logged(c) \in Call
<1>1. c.left > 1 => [c EXCEPT !.point = "number", !.left = @ - 1] \in Call
  <2>1. c.left \in Nat
    BY DEF Call
  <2> DEFINE l == c.left - 1
  <2>2. c.left > 1 => l \in Nat
    BY <2>1
  <2>3. l \in Nat => [c EXCEPT !.point = "number", !.left = l] \in Call
    <3> HIDE DEF l
    <3> QED  BY DEF Call
  <2>4. QED  BY <2>2, <2>3
<1>2. [c EXCEPT !.point = "audit", !.left = 0] \in Call
  BY DEF Call
<1>3. QED  BY <1>1, <1>2, ContinueTyped DEF Logged

\* The saved phase is well typed whichever phase the verdict or the call names.
LEMMA VerdictTyped ==
  ASSUME NEW c \in Call
  PROVE  Verdict(c) \in {"gatefail", "hold", "late", "go"}
BY DEF Verdict
-------------------------------------------------------------------------------
(* Types, and how a step leaves the calls and the keys it is not about.         *)

\* The empty store and idle callers are well typed.
LEMMA TypeInit == Init => TypeOK
<1> SUFFICES ASSUME Init PROVE TypeOK
  OBVIOUS
<1>1. row \in [Keys -> Row]
  BY DEF Init, Row, NoRow
<1>2. events \in [Keys -> Seq(Event)]
  BY DEF Init
<1>3. call \in [Threads -> Call]
  BY IdleTyped DEF Init
<1>4. trail \in [Keys -> SUBSET (Phases \cup {"halt"})]
  BY DEF Init
<1>5. /\ orphans \subseteq Keys /\ grace \subseteq Threads /\ halted \in BOOLEAN
      /\ overdue \in [Keys -> BOOLEAN]
      /\ runs \in [Keys -> Nat] /\ wins \in [Keys -> Nat]
  BY DEF Init
<1>6. faults \in [Keys -> Nat] /\ {calls, auditFailures, deaths, storeFailures, halts} \subseteq Nat
  BY DEF Init
<1>7. QED  BY <1>1, <1>2, <1>3, <1>4, <1>5, <1>6 DEF TypeOK

\* A step that changes only one call keeps the types if the new call is a call.
LEMMA LocalTyped ==
  ASSUME TypeOK, NEW t \in Threads, NEW c \in Call, Local(t, c)
  PROVE  TypeOK'
BY DEF TypeOK, Local, counters

\* A call that begins keeps the state well typed.
LEMMA TypeInvocation ==
  ASSUME TypeOK, NEW t \in Threads, Invocation(t)
  PROVE  TypeOK'
<1>1. ASSUME NEW c \in Call, Begin(t, c) PROVE TypeOK'
  BY <1>1 DEF TypeOK, Begin
<1>2. ASSUME NEW op \in {"submit", "approve", "execute", "cancel"}, NEW k \in Keys,
             NEW p \in Phases, NEW pt \in {"check", "save"}, NEW r \in Row,
             NEW by \in Approvers \cup {NoApprover}
      PROVE  Invoke(op, k, p, pt, r, by) \in Call
  BY IdleTyped DEF Invoke, Call
<1>3. NoRow \in Row /\ \A k \in Keys : row[k] \in Row
  BY DEF NoRow, Row, TypeOK
<1>4. PICK k \in Keys :
        \/ CallSubmit(t, k)
        \/ \E a \in Approvers, decision \in {"grant", "deny"} : CallApprove(t, k, a, decision)
        \/ CallExecute(t, k)
        \/ CallCancel(t, k)
  BY DEF Invocation
<1>5. CASE CallSubmit(t, k)
  BY <1>1, <1>2, <1>3, <1>5, PhaseTables DEF CallSubmit
<1>6. ASSUME NEW a \in Approvers, NEW decision \in {"grant", "deny"},
             CallApprove(t, k, a, decision)
      PROVE  TypeOK'
  BY <1>1, <1>2, <1>3, <1>6, PhaseTables DEF CallApprove
<1>7. CASE CallExecute(t, k)
  BY <1>1, <1>2, <1>3, <1>7, PhaseTables DEF CallExecute
<1>8. CASE CallCancel(t, k)
  BY <1>1, <1>2, <1>3, <1>8, PhaseTables DEF CallCancel
<1>9. QED  BY <1>4, <1>5, <1>6, <1>7, <1>8

\* So does every store operation of a call under way.
LEMMA TypeStep ==
  ASSUME TypeOK, NEW t \in Threads, Step(t)
  PROVE  TypeOK'
<1> DEFINE c == call[t]
<1>1. c \in Call /\ c.key \in Keys /\ c.row \in Row /\ c.phase \in Phases
  BY DEF TypeOK, Call
<1>2. ASSUME NEW r \in Row, NEW d \in Call, row' = [row EXCEPT ![c.key] = r],
             call' = [call EXCEPT ![t] = d], orphans' \subseteq Keys,
             UNCHANGED <<events, trail, halted, overdue, runs, wins, grace, counters>>
      PROVE  TypeOK'
  BY <1>1, <1>2 DEF TypeOK, counters
<1>3. CASE HaltRefuses(t)
  <2>1. call' \in [Threads -> Call]
    BY <1>3, IdleTyped DEF HaltRefuses, TypeOK
  <2>2. trail' \in [Keys -> SUBSET (Phases \cup {"halt"})]
    <3>1. [trail EXCEPT ![c.key] = @ \cup {"halt"}]
             \in [Keys -> SUBSET (Phases \cup {"halt"})]
      BY <1>1 DEF TypeOK
    <3>2. trail' = [trail EXCEPT ![c.key] = @ \cup {"halt"}] \/ trail' = trail
      BY <1>3 DEF HaltRefuses
    <3>3. QED  BY <3>1, <3>2 DEF TypeOK
  <2>3. auditFailures' \in Nat /\ storeFailures' \in Nat
    BY <1>3 DEF HaltRefuses, TypeOK
  <2>4. QED  BY <1>3, <2>1, <2>2, <2>3 DEF HaltRefuses, TypeOK
<1>4. CASE CheckSubmit(t)
  <2>1. [c EXCEPT !.point = "lookup"] \in Call
    BY <1>1 DEF Call
  <2>2. QED  BY <1>4, <2>1, LocalTyped DEF CheckSubmit
<1>5. CASE CheckApprove(t)
  BY <1>1, <1>5, LocalTyped, InPhaseTyped, IdleTyped DEF CheckApprove
<1>6. CASE CheckExecute(t)
  <2>1. [c EXCEPT !.point = "run"] \in Call
    BY <1>1 DEF Call
  <2>2. InPhase(c, "late") \in Call /\ InPhase(c, "nohandler") \in Call
    BY <1>1, InPhaseTyped, PhaseTables
  <2>3. QED  BY <1>6, <2>1, <2>2, LocalTyped, IdleTyped DEF CheckExecute
<1>7. CASE LookUp(t)
  <2>1. \A p \in Phases : [c EXCEPT !.point = "create", !.phase = p] \in Call
    BY <1>1 DEF Call
  <2>2. QED  BY <1>7, <2>1, LocalTyped, IdleTyped, PhaseTables DEF LookUp
<1>8. CASE Create(t)
  <2> DEFINE r == IF row[c.key].state = "none" THEN NewRow(c.key, Target[c.phase])
                  ELSE row[c.key]
             stray == c.phase = "refused" /\ row[c.key].state # "none"
             d == [c EXCEPT !.row = r, !.left = 1,
                            !.point = IF stray THEN "audit" ELSE "number"]
  <2>1. r \in Row
    <3>1. Target[c.phase] \in WorkflowState
      BY <1>1, PhaseTables
    <3>2. Request[c.key].asks \in BOOLEAN
      BY <1>1, EngineAssumption
    <3>3. QED  BY <1>1, <3>1, <3>2 DEF NewRow, Row, TypeOK
  <2>2. d \in Call
    <3> HIDE DEF r, stray
    <3> QED  BY <1>1, <2>1 DEF Call
  <2>3. /\ row' = [row EXCEPT ![c.key] = r]
        /\ call' = [call EXCEPT ![t] = d]
        /\ orphans' \subseteq Keys
    BY <1>1, <1>8 DEF Create, TypeOK
  <2>4. QED
    <3> HIDE DEF r, d
    <3> QED  BY <1>2, <1>8, <2>1, <2>2, <2>3 DEF Create
<1>9. CASE Save(t)
  <2> DEFINE r == Saved(c)
             d == [c EXCEPT !.row = r, !.point = "number",
                            !.left = IF c.phase \in TwoEvents THEN 2 ELSE 1]
  <2>1. r \in Row
    BY <1>1, SavedTyped
  <2>2. d \in Call
    <3> HIDE DEF r
    <3> QED  BY <1>1, <2>1 DEF Call
  <2>3. row' = [row EXCEPT ![c.key] = r] /\ call' = [call EXCEPT ![t] = d]
    BY <1>9 DEF Save, TypeOK
  <2>4. orphans' \subseteq Keys
    BY <1>9 DEF Save, TypeOK
  <2>5. QED
    <3> HIDE DEF r, d
    <3> QED  BY <1>2, <1>9, <2>1, <2>2, <2>3, <2>4 DEF Save
<1>10. CASE SaveRaises(t)
  BY <1>1, <1>10, LocalTyped, RaisedTyped DEF SaveRaises
<1>11. CASE Number(t)
  <2> DEFINE n == Len(events[c.key]) + 1
  <2>1. n \in Nat
    <3>1. events[c.key] \in Seq(Event)
      BY <1>1 DEF TypeOK
    <3>2. QED  BY <3>1
  <2>2. Local(t, [c EXCEPT !.seq = n, !.point = "append"])
    BY <1>11 DEF Number
  <2>3. QED
    <3> HIDE DEF n
    <3>1. [c EXCEPT !.seq = n, !.point = "append"] \in Call
      BY <1>1, <2>1 DEF Call
    <3>2. QED  BY <2>2, <3>1, LocalTyped
<1>12. CASE AppendEvent(t)
  <2>1. events' \in [Keys -> Seq(Event)]
    <3>1. [phase |-> c.phase, by |-> c.by] \in Event
      BY <1>1 DEF Event, Call
    <3>2. QED  BY <1>1, <1>12, <3>1 DEF AppendEvent, TypeOK
  <2>2. call' \in [Threads -> Call]
    BY <1>1, <1>12, LoggedTyped DEF AppendEvent, TypeOK
  <2>3. QED  BY <1>12, <2>1, <2>2 DEF AppendEvent, TypeOK, counters
<1>13. CASE AppendRaises(t)
  BY <1>1, <1>13, LocalTyped, RaisedTyped DEF AppendRaises
<1>14. CASE AuditWritten(t)
  <2>1. trail' \in [Keys -> SUBSET (Phases \cup {"halt"})]
    BY <1>1, <1>14 DEF AuditWritten, TypeOK
  <2>2. call' \in [Threads -> Call]
    BY <1>1, <1>14, ContinueTyped DEF AuditWritten, TypeOK
  <2>3. QED  BY <1>14, <2>1, <2>2 DEF AuditWritten, TypeOK, counters
<1>15. CASE AuditLost(t)
  <2>1. InPhase(c, "failclosed") \in Call
    BY <1>1, InPhaseTyped, PhaseTables
  <2>2. call' \in [Threads -> Call]
    BY <1>1, <1>15, <2>1, ContinueTyped DEF AuditLost, TypeOK
  <2>3. auditFailures' \in Nat
    BY <1>15 DEF AuditLost, TypeOK
  <2>4. QED  BY <1>15, <2>2, <2>3 DEF AuditLost, TypeOK
<1>16. CASE Gate(t)
  BY <1>1, <1>16, LocalTyped, InPhaseTyped, VerdictTyped, IdleTyped, PhaseTables DEF Gate
<1>17. CASE RunHandler(t)
  <2> DEFINE d == [c EXCEPT !.attempt = @ + 1]
             e == [d EXCEPT !.row.out = TRUE]
  <2>1. d \in Call
    <3>1. c.attempt \in Nat
      BY <1>1 DEF Call
    <3> DEFINE n == c.attempt + 1
    <3>2. n \in Nat
      BY <3>1
    <3>3. n \in Nat => [c EXCEPT !.attempt = n] \in Call
      <4> HIDE DEF n
      <4> QED  BY <1>1 DEF Call
    <3>4. QED  BY <3>2, <3>3
  <2>2. e \in Call
    <3>1. [d.row EXCEPT !.out = TRUE] \in Row
      BY <2>1 DEF Call, Row
    <3>2. e = [d EXCEPT !.row = [d.row EXCEPT !.out = TRUE]]
      OBVIOUS
    <3>3. QED
      <4> HIDE DEF d
      <4> QED  BY <2>1, <3>1, <3>2 DEF Call
  <2>3. InPhase(e, "succeed") \in Call /\ InPhase(d, "retry") \in Call
    <3> HIDE DEF d, e
    <3> QED  BY <2>1, <2>2, InPhaseTyped, PhaseTables
  <2>4. \/ call' = [call EXCEPT ![t] = InPhase(e, "succeed")]
        \/ call' = [call EXCEPT ![t] = InPhase(d, "retry")]
    BY <1>17 DEF RunHandler
  <2>5. call' \in [Threads -> Call]
    <3> HIDE DEF d, e
    <3> QED  BY <2>3, <2>4 DEF TypeOK
  <2>6. runs' \in [Keys -> Nat] /\ wins' \in [Keys -> Nat]
    <3>1. [runs EXCEPT ![c.key] = @ + 1] \in [Keys -> Nat]
      BY <1>1 DEF TypeOK
    <3>2. [wins EXCEPT ![c.key] = @ + 1] \in [Keys -> Nat]
      BY <1>1 DEF TypeOK
    <3>3. /\ runs' = [runs EXCEPT ![c.key] = @ + 1]
          /\ wins' = [wins EXCEPT ![c.key] = @ + 1] \/ wins' = wins
      BY <1>17 DEF RunHandler
    <3>4. QED  BY <3>1, <3>2, <3>3 DEF TypeOK
  <2>7. QED  BY <1>17, <2>5, <2>6 DEF RunHandler, TypeOK, counters
<1>18. QED
  BY <1>3, <1>4, <1>5, <1>6, <1>7, <1>8, <1>9, <1>10, <1>11, <1>12, <1>13, <1>14,
     <1>15, <1>16, <1>17 DEF Step

\* Entering a phase keeps all of a call but the phase, the point and the guard.
LEMMA InPhaseFields ==
  ASSUME NEW c \in Call, NEW p
  PROVE  LET d == InPhase(c, p) IN
         /\ d.op = c.op /\ d.key = c.key /\ d.row = c.row /\ d.seq = c.seq
         /\ d.left = c.left /\ d.attempt = c.attempt /\ d.by = c.by
         /\ d.phase = p /\ d.point = "save"
         /\ d.guard = IF p \in {"succeed", "close"} THEN "attempt"
                      ELSE IF p = "validate" THEN "validation"
                      ELSE IF p = "failclosed" THEN c.guard ELSE "none"
<1>1. /\ DOMAIN Guards = {"validate", "succeed", "close"}
      /\ Guards["succeed"] = "attempt" /\ Guards["close"] = "attempt"
      /\ Guards["validate"] = "validation"
  BY DEF Guards
<1> DEFINE g == IF p \in DOMAIN Guards THEN Guards[p]
                ELSE IF p = "failclosed" THEN c.guard ELSE "none"
<1>2. InPhase(c, p) = [c EXCEPT !.phase = p, !.point = "save", !.guard = g]
  BY DEF InPhase, Call
<1>3. g = IF p \in {"succeed", "close"} THEN "attempt"
          ELSE IF p = "validate" THEN "validation"
          ELSE IF p = "failclosed" THEN c.guard ELSE "none"
  BY <1>1
<1>4. QED
  <2> HIDE DEF g
  <2> QED  BY <1>2, <1>3 DEF Call

\* What a step of one call may change: the call, and what is kept under its key.
LEMMA StepElsewhere ==
  ASSUME TypeOK, NEW t \in Threads, Step(t)
  PROVE  /\ Busy(t)
         /\ \A k \in Keys : k # call[t].key =>
               /\ row'[k] = row[k] /\ events'[k] = events[k] /\ trail'[k] = trail[k]
               /\ runs'[k] = runs[k] /\ wins'[k] = wins[k]
         /\ UNCHANGED <<halted, overdue, grace, faults, calls, deaths, halts>>
<1> DEFINE c == call[t]
<1>1. c.key \in Keys
  BY DEF TypeOK, Call
<1>2. CASE \/ HaltRefuses(t) \/ CheckSubmit(t) \/ CheckApprove(t) \/ CheckExecute(t)
           \/ LookUp(t) \/ SaveRaises(t) \/ Number(t) \/ AppendRaises(t) \/ Gate(t)
  BY <1>1, <1>2 DEF HaltRefuses, CheckSubmit, CheckApprove, CheckExecute, LookUp,
     SaveRaises, Number, AppendRaises, Gate, Local, Busy, TypeOK, counters
<1>3. CASE Create(t)
  <2>1. row' = [row EXCEPT ![c.key] = row'[c.key]]
    BY <1>1, <1>3 DEF Create, TypeOK
  <2>2. QED  BY <1>1, <1>3, <2>1 DEF Create, TypeOK, counters
<1>4. CASE Save(t)
  BY <1>1, <1>4 DEF Save, TypeOK, counters
<1>5. CASE AppendEvent(t)
  BY <1>1, <1>5 DEF AppendEvent, TypeOK, counters
<1>6. CASE AuditWritten(t) \/ AuditLost(t)
  BY <1>1, <1>6 DEF AuditWritten, AuditLost, TypeOK, counters
<1>7. CASE RunHandler(t)
  BY <1>1, <1>7 DEF RunHandler, TypeOK, counters
<1>8. QED
  BY <1>2, <1>3, <1>4, <1>5, <1>6, <1>7 DEF Step

\* A step of a call replaces the call alone, and keeps its key until it returns.
LEMMA StepCall ==
  ASSUME TypeOK, NEW t \in Threads, Step(t)
  PROVE  /\ call' = [call EXCEPT ![t] = call'[t]]
         /\ \/ call'[t] = Idle
            \/ /\ call'[t].key = call[t].key /\ call'[t].op = call[t].op
               /\ call'[t].by = call[t].by
<1> DEFINE c == call[t]
           Follows(d) == d = Idle \/ (d.key = c.key /\ d.op = c.op /\ d.by = c.by)
<1>1. c \in Call /\ call \in [Threads -> Call] /\ c.phase \in Phases
  BY DEF TypeOK, Call
<1>2. ASSUME NEW d, call' = [call EXCEPT ![t] = d], Follows(d)
      PROVE  call' = [call EXCEPT ![t] = call'[t]] /\ Follows(call'[t])
  BY <1>1, <1>2
<1>3. \A p : Follows(InPhase(c, p))
  BY <1>1, InPhaseFields
<1>4. Follows(Raised(c))
  BY <1>3 DEF Raised
<1>5. Follows(Continue(c))
  <2>1. Follows([c EXCEPT !.point = "gate"])
    BY <1>1 DEF Call
  <2>2. Follows([c EXCEPT !.point = "run", !.guard = "none"])
    BY <1>1 DEF Call
  <2>3. QED  BY <1>3, <2>1, <2>2 DEF Continue, AfterRetry
<1>6. Follows(Logged(c))
  <2> DEFINE l == c.left - 1
  <2>1. Follows([c EXCEPT !.point = "number", !.left = l])
    <3> HIDE DEF l
    <3> QED  BY <1>1 DEF Call
  <2>2. Follows([c EXCEPT !.point = "audit", !.left = 0])
    BY <1>1 DEF Call
  <2>3. QED  BY <1>5, <2>1, <2>2 DEF Logged
<1>7. CASE HaltRefuses(t)
  BY <1>2, <1>7 DEF HaltRefuses
<1>8. CASE CheckSubmit(t) \/ CheckApprove(t) \/ CheckExecute(t)
  <2>1. \A pt : Follows([c EXCEPT !.point = pt])
    BY <1>1 DEF Call
  <2>2. PICK d : Local(t, d) /\ Follows(d)
    BY <1>3, <1>8, <2>1 DEF CheckSubmit, CheckApprove, CheckExecute
  <2>3. QED  BY <1>2, <2>2 DEF Local
<1>9. CASE LookUp(t)
  <2>1. \A p : Follows([c EXCEPT !.point = "create", !.phase = p])
    BY <1>1 DEF Call
  <2>2. PICK d : Local(t, d) /\ Follows(d)
    BY <1>9, <2>1 DEF LookUp
  <2>3. QED  BY <1>2, <2>2 DEF Local
<1>10. CASE Create(t)
  <2> DEFINE r == IF row[c.key].state = "none" THEN NewRow(c.key, Target[c.phase])
                  ELSE row[c.key]
             pt == IF c.phase = "refused" /\ row[c.key].state # "none"
                   THEN "audit" ELSE "number"
             d == [c EXCEPT !.row = r, !.left = 1, !.point = pt]
  <2>1. call' = [call EXCEPT ![t] = d]
    BY <1>1, <1>10 DEF Create
  <2>2. Follows(d)
    <3> HIDE DEF r, pt
    <3> QED  BY <1>1 DEF Call
  <2>3. QED
    <3> HIDE DEF d
    <3> QED  BY <1>2, <2>1, <2>2
<1>11. CASE Save(t)
  <2> DEFINE r == Saved(c)
             n == IF c.phase \in TwoEvents THEN 2 ELSE 1
             d == [c EXCEPT !.row = r, !.point = "number", !.left = n]
  <2>1. call' = [call EXCEPT ![t] = d]
    BY <1>1, <1>11 DEF Save
  <2>2. Follows(d)
    <3> HIDE DEF r, n
    <3> QED  BY <1>1 DEF Call
  <2>3. QED
    <3> HIDE DEF d
    <3> QED  BY <1>2, <2>1, <2>2
<1>12. CASE SaveRaises(t) \/ AppendRaises(t)
  BY <1>2, <1>4, <1>12 DEF SaveRaises, AppendRaises, Local
<1>13. CASE Number(t)
  <2> DEFINE n == Len(events[c.key]) + 1
             d == [c EXCEPT !.seq = n, !.point = "append"]
  <2>1. call' = [call EXCEPT ![t] = d]
    BY <1>13 DEF Number, Local
  <2>2. Follows(d)
    <3> HIDE DEF n
    <3> QED  BY <1>1 DEF Call
  <2>3. QED
    <3> HIDE DEF d
    <3> QED  BY <1>2, <2>1, <2>2
<1>14. CASE AppendEvent(t)
  BY <1>2, <1>6, <1>14 DEF AppendEvent
<1>15. CASE AuditWritten(t)
  BY <1>2, <1>5, <1>15 DEF AuditWritten
<1>16. CASE AuditLost(t)
  BY <1>2, <1>3, <1>5, <1>16 DEF AuditLost
<1>17. CASE Gate(t)
  BY <1>2, <1>3, <1>17 DEF Gate, Local
<1>18. CASE RunHandler(t)
  <2> DEFINE n == c.attempt + 1
             d == [c EXCEPT !.attempt = n]
             e == [d EXCEPT !.row = [c.row EXCEPT !.out = TRUE]]
  <2>1. /\ d \in Call /\ e \in Call
        /\ d.key = c.key /\ d.op = c.op /\ d.by = c.by
        /\ e.key = c.key /\ e.op = c.op /\ e.by = c.by
    <3>1. n \in Nat
      BY <1>1 DEF Call
    <3>2. [c.row EXCEPT !.out = TRUE] \in Row
      BY <1>1 DEF Call, Row
    <3> HIDE DEF n
    <3>3. QED  BY <1>1, <3>1, <3>2 DEF Call
  <2>2. \/ call' = [call EXCEPT ![t] = InPhase(e, "succeed")]
        \/ call' = [call EXCEPT ![t] = InPhase(d, "retry")]
    BY <1>1, <1>18 DEF RunHandler, Call
  <2>3. Follows(InPhase(e, "succeed")) /\ Follows(InPhase(d, "retry"))
    <3> HIDE DEF d, e
    <3> QED  BY <2>1, InPhaseFields
  <2>4. QED
    <3> HIDE DEF d, e
    <3> QED  BY <1>2, <2>2, <2>3
<1>19. QED
  BY <1>7, <1>8, <1>9, <1>10, <1>11, <1>12, <1>13, <1>14, <1>15, <1>16, <1>17,
     <1>18 DEF Step

\* The call whose save failed: its copy has made the transition already.
Ahead(c) == [c EXCEPT !.row = Saved(c)]

\* A store operation that fails stores nothing: its call returns, or goes on to the
\* next attempt of the execution it is in (Engine.execute's except clause).
LEMMA FailureMoves ==
  ASSUME TypeOK, NEW t \in Threads, StoreFails(t)
  PROVE  LET c == call[t] IN
         /\ Busy(t) /\ c \in Call /\ Ahead(c) \in Call /\ Idle \in Call
         /\ UNCHANGED <<row, events, orphans, trail, halted, overdue, runs, wins, grace>>
         /\ faults' = [faults EXCEPT ![c.key] = @ + 1]
         /\ c.point \in {"lookup", "create", "save", "number", "append"}
         /\ \/ call' = [call EXCEPT ![t] = Idle]
            \/ /\ call' = [call EXCEPT ![t] = InPhase(c, "retry")]
               /\ c.guard = "attempt" /\ c.point # "save"
            \/ /\ call' = [call EXCEPT ![t] = InPhase(Ahead(c), "retry")]
               /\ c.guard = "attempt" /\ c.point = "save" /\ CanSave(c)
<1> DEFINE c == call[t]
<1>1. Busy(t) /\ c \in Call /\ Idle \in Call
  BY IdleTyped DEF StoreFails, TypeOK
<1>2. Saved(c) \in Row
  BY <1>1, SavedTyped
<1>3. Ahead(c) \in Call /\ Ahead(c).guard = c.guard
  BY <1>1, <1>2 DEF Ahead, Call
<1>4. CASE c.point = "save"
  <2>1. CanSave(c) /\ call' = [call EXCEPT ![t] = Failing(Ahead(c))]
    BY <1>4 DEF StoreFails, Ahead
  <2>2. QED  BY <1>1, <1>3, <1>4, <2>1 DEF StoreFails, Failing
<1>5. CASE c.point # "save"
  <2>1. /\ c.point \in {"lookup", "create", "number", "append"}
        /\ call' = [call EXCEPT ![t] = Failing(c)]
    BY <1>5 DEF StoreFails
  <2>2. QED  BY <1>1, <1>3, <1>5, <2>1 DEF StoreFails, Failing
<1>6. QED  BY <1>4, <1>5

\* Only three actions write rows or run handlers.
LEMMA Writers ==
  ASSUME TypeOK, [Next]_vars
  PROVE  \/ UNCHANGED <<row, runs>>
         \/ \E t \in Threads : Create(t) \/ Save(t) \/ RunHandler(t)
<1>1. ASSUME NEW t \in Threads, Invocation(t) \/ Die(t) \/ StoreFails(t)
      PROVE  UNCHANGED <<row, runs>>
  BY <1>1 DEF Invocation, CallSubmit, CallApprove, CallExecute, CallCancel, Begin, Die,
     StoreFails
<1>2. ASSUME NEW t \in Threads, Step(t)
      PROVE  UNCHANGED <<row, runs>> \/ Create(t) \/ Save(t) \/ RunHandler(t)
  BY <1>2 DEF Step, HaltRefuses, CheckSubmit, CheckApprove, CheckExecute, LookUp,
     SaveRaises, Number, AppendEvent, AppendRaises, AuditWritten, AuditLost, Gate, Local
<1>3. ASSUME (\E k \in Keys : Expire(k)) \/ Engage \/ Release \/ UNCHANGED vars
      PROVE  UNCHANGED <<row, runs>>
  BY <1>3 DEF Expire, Engage, Release, vars
<1>4. QED  BY <1>1, <1>2, <1>3 DEF Next

\* Every reachable state is well typed: rows, logs, trails and private copies
\* hold only what the source can store in them (Workflow.__post_init__).
THEOREM TypeCorrect == Spec => []TypeOK
<1>1. ASSUME TypeOK, [Next]_vars
      PROVE  TypeOK'
  <2>1. CASE UNCHANGED vars
    BY <1>1, <2>1 DEF vars, TypeOK
  <2>2. ASSUME NEW t \in Threads, Die(t) PROVE TypeOK'
    <3>1. call[t].key \in Keys /\ faults \in [Keys -> Nat]
      BY <1>1 DEF TypeOK, Call
    <3>2. [faults EXCEPT ![call[t].key] = @ + 1] \in [Keys -> Nat]
      BY <3>1
    <3>3. faults' \in [Keys -> Nat] /\ deaths' \in Nat
      BY <1>1, <2>2, <3>2 DEF Die, TypeOK
    <3>4. QED  BY <1>1, <2>2, <3>3, IdleTyped DEF Die, TypeOK
  <2>7. ASSUME NEW t \in Threads, StoreFails(t) PROVE TypeOK'
    <3>1. call' \in [Threads -> Call] /\ call[t].key \in Keys
      <4>1. call \in [Threads -> Call] /\ call[t].key \in Keys
        BY <1>1 DEF TypeOK, Call
      <4>2. InPhase(call[t], "retry") \in Call /\ InPhase(Ahead(call[t]), "retry") \in Call
        BY <1>1, <2>7, FailureMoves, InPhaseTyped, PhaseTables
      <4>3. QED  BY <1>1, <2>7, <4>1, <4>2, FailureMoves
    <3>2. faults' \in [Keys -> Nat] /\ storeFailures' \in Nat
      <4>1. faults \in [Keys -> Nat] /\ storeFailures \in Nat
        BY <1>1 DEF TypeOK
      <4>2. [faults EXCEPT ![call[t].key] = @ + 1] \in [Keys -> Nat]
        BY <3>1, <4>1
      <4>3. faults' = [faults EXCEPT ![call[t].key] = @ + 1]
            /\ storeFailures' = storeFailures + 1
        BY <2>7 DEF StoreFails
      <4>4. QED  BY <4>1, <4>2, <4>3
    <3>3. QED  BY <1>1, <2>7, <3>1, <3>2 DEF StoreFails, TypeOK
  <2>3. ASSUME NEW k \in Keys, Expire(k) PROVE TypeOK'
    BY <1>1, <2>3 DEF Expire, TypeOK, counters
  <2>4. CASE Engage
    BY <1>1, <2>4 DEF Engage, TypeOK
  <2>5. CASE Release
    BY <1>1, <2>5 DEF Release, TypeOK, counters
  <2>6. QED  BY <1>1, <2>1, <2>2, <2>3, <2>4, <2>5, <2>7, TypeInvocation, TypeStep
     DEF Next
<1>2. QED  BY <1>1, TypeInit, PTL DEF Spec
-------------------------------------------------------------------------------
(* Clearance.  No handler runs for work that was not cleared.  That is not     *)
(* inductive: the clearance of an execution is established in submit or        *)
(* approve, often by another call, and reaches it through the stored row and   *)
(* the private copy of it.  So clearance is claimed of every row and every     *)
(* copy from the moment one could lead to the other.                           *)

\* The keys with an independent, authorised approval on record.
Grants == {k \in Keys : Granted(k)}

\* Held or admitted, but not refused, by the gate.
Open(k) == EvaluateGate(Request[k]) \in {"go", "hold"}

ClearedBy(k, G) ==
  /\ Request[k].admissible
  /\ \/ EvaluateGate(Request[k]) = "go"
     \/ EvaluateGate(Request[k]) = "hold" /\ k \in G

\* What the state of a row, stored or copied, says of its request.
RowClear(k, r, G) ==
  /\ r.state \in {"proposed", "validated", "awaiting_approval", "approved"}
       => Request[k].admissible
  /\ r.state \in {"awaiting_approval", "approved"} => Open(k)
  /\ r.state \in {"executing", "succeeded"} => ClearedBy(k, G)

\* What the place of a call says of its request.
CallClear(c, G) ==
  /\ RowClear(c.key, c.row, G)
  /\ c.point = "check" =>
       /\ c.op = "submit" => c.phase = "created"
       /\ c.op = "approve" => c.phase \in {"grant", "deny"}
       /\ c.op = "execute" => c.phase = "succeed"
  /\ c.point = "lookup" => c.phase = "created"
  /\ c.point = "create" =>
       /\ c.phase \in {"created", "refused"}
       /\ c.phase = "created" => Request[c.key].admissible
  /\ c.point = "gate" => c.row.state = "validated"
  /\ c.point = "run" => ClearedBy(c.key, G)
  /\ c.guard = "attempt" => ClearedBy(c.key, G)
  /\ c.phase \in {"succeed", "retry"} /\ c.point # "check" => ClearedBy(c.key, G)
  /\ c.phase = "validate" /\ c.point \in {"number", "append", "audit"}
       => c.row.state = "validated"
  /\ c.phase = "hold" /\ c.point = "save" => Open(c.key)
  /\ c.phase = "go" /\ c.point = "save" => ClearedBy(c.key, G)
  /\ c.phase = "grant" /\ c.point # "check" =>
       /\ Request[c.key].admissible /\ Open(c.key)
       /\ MayApprove(Request[c.key].actor, Request[c.key].owner, c.by)
  /\ c.phase = "grant" /\ c.point = "audit" => c.key \in G

\* The inductive invariant.
ClearanceInv ==
  /\ TypeOK
  /\ \A k \in Keys : RowClear(k, row[k], Grants)
  /\ \A t \in Threads : CallClear(call[t], Grants)
  /\ \A k \in Keys : runs[k] > 0 => ClearedBy(k, Grants)

\* VALID_TRANSITIONS read backwards, for the states a run depends on.
LEMMA TransitionSources ==
  ASSUME NEW s
  PROVE  /\ ~IsValidTransition(s, "proposed")
         /\ IsValidTransition(s, "validated") => s = "proposed"
         /\ IsValidTransition(s, "awaiting_approval") => s = "validated"
         /\ IsValidTransition(s, "approved") => s = "awaiting_approval"
         /\ IsValidTransition(s, "succeeded") => s = "executing"
<1>1. CASE s \in WorkflowState
  BY <1>1 DEF IsValidTransition, ValidTransitions, WorkflowState
<1>2. CASE s \notin WorkflowState
  BY <1>2 DEF IsValidTransition
<1>3. QED  BY <1>1, <1>2

\* The gate gives exactly one of four answers.
LEMMA GateAnswers ==
  ASSUME NEW task
  PROVE  EvaluateGate(task) \in {"raise", "deny", "hold", "go"}
BY DEF EvaluateGate

\* An idle call claims no clearance.
LEMMA IdleClear ==
  ASSUME NEW G
  PROVE  CallClear(Idle, G)
BY DEF CallClear, RowClear, Idle, NoRow

\* A later approval takes no clearance away.
LEMMA ClearMonotone ==
  ASSUME NEW G, NEW H, G \subseteq H
  PROVE  /\ \A k : ClearedBy(k, G) => ClearedBy(k, H)
         /\ \A k, r : RowClear(k, r, G) => RowClear(k, r, H)
         /\ \A c : CallClear(c, G) => CallClear(c, H)
<1>1. \A k : ClearedBy(k, G) => ClearedBy(k, H)
  BY DEF ClearedBy
<1>2. \A k, r : RowClear(k, r, G) => RowClear(k, r, H)
  BY <1>1 DEF RowClear
<1>3. \A c : CallClear(c, G) => CallClear(c, H)
  BY <1>1, <1>2 DEF CallClear
<1>4. QED  BY <1>1, <1>2, <1>3

\* Entering a phase keeps what a call may claim of its clearance.
LEMMA InPhaseClear ==
  ASSUME NEW c \in Call, NEW p \in Phases, NEW G,
         RowClear(c.key, c.row, G),
         p = "hold" => Open(c.key),
         p \in {"go", "succeed", "retry", "close"} => ClearedBy(c.key, G),
         p = "failclosed" /\ c.guard = "attempt" => ClearedBy(c.key, G),
         p = "grant" =>
           /\ Request[c.key].admissible /\ Open(c.key)
           /\ MayApprove(Request[c.key].actor, Request[c.key].owner, c.by)
  PROVE  CallClear(InPhase(c, p), G)
<1> DEFINE d == InPhase(c, p)
<1>1. /\ d.key = c.key /\ d.row = c.row /\ d.by = c.by
      /\ d.phase = p /\ d.point = "save"
  BY DEF InPhase, Call
<1>2. d.guard = "attempt" => ClearedBy(c.key, G)
  <2>1. d.guard = IF p \in DOMAIN Guards THEN Guards[p]
                  ELSE IF p = "failclosed" THEN c.guard ELSE "none"
    BY DEF InPhase, Call
  <2>2. p \in DOMAIN Guards /\ Guards[p] = "attempt" => p \in {"succeed", "close"}
    BY DEF Guards
  <2>3. QED  BY <2>1, <2>2
<1>3. CallClear(d, G)
  <2> HIDE DEF d
  <2> QED  BY <1>1, <1>2 DEF CallClear
<1>4. QED  BY <1>3

\* So does raising.
LEMMA RaisedClear ==
  ASSUME NEW c \in Call, NEW G, CallClear(c, G)
  PROVE  CallClear(Raised(c), G)
<1>1. RowClear(c.key, c.row, G) /\ (c.guard = "attempt" => ClearedBy(c.key, G))
  BY DEF CallClear
<1>2. CallClear(InPhase(c, "invalid"), G)
  BY <1>1, InPhaseClear, PhaseTables
<1>3. c.guard = "attempt" => CallClear(InPhase(c, "retry"), G)
  BY <1>1, InPhaseClear, PhaseTables
<1>4. QED  BY <1>2, <1>3, IdleClear DEF Raised

\* A call whose phase is over is clear in the next one.
LEMMA ContinueClear ==
  ASSUME NEW c \in Call, NEW G, CallClear(c, G), c.point \in {"append", "audit"},
         c.phase = "grant" => c.point = "audit"
  PROVE  CallClear(Continue(c), G)
<1>1. RowClear(c.key, c.row, G)
  BY DEF CallClear
<1>2. CASE c.phase \in DOMAIN Following
  <2>1. Following[c.phase] \in Phases
    BY <1>2, PhaseTables
  <2>2. Following[c.phase] = "go" => ClearedBy(c.key, G)
    <3>1. Following[c.phase] = "go" => c.phase = "grant"
      BY <1>2, PhaseTables DEF Following
    <3>2. c.phase = "grant" => ClearedBy(c.key, G)
      BY DEF CallClear, ClearedBy, Open
    <3>3. QED  BY <3>1, <3>2
  <2>3. Following[c.phase] = "close" => ClearedBy(c.key, G)
    <3>1. Following[c.phase] = "close" => c.phase = "succeed"
      BY <1>2, PhaseTables DEF Following
    <3>2. QED  BY <3>1 DEF CallClear
  <2>4. Following[c.phase] \notin {"hold", "succeed", "retry", "failclosed", "grant"}
    BY <1>2, PhaseTables DEF Following
  <2>5. CallClear(InPhase(c, Following[c.phase]), G)
    BY <1>1, <2>1, <2>2, <2>3, <2>4, InPhaseClear
  <2>6. QED  BY <1>2, <2>5 DEF Continue
<1>3. CASE c.phase = "validate"
  <2> DEFINE d == [c EXCEPT !.point = "gate"]
  <2>1. CallClear(d, G)
    BY <1>3 DEF CallClear, Call
  <2>2. Continue(c) = d
    BY <1>3, PhaseTables DEF Continue
  <2>3. QED  BY <2>1, <2>2
<1>4. CASE c.phase = "retry"
  <2>1. ClearedBy(c.key, G)
    BY <1>4 DEF CallClear
  <2>2. CallClear(InPhase(c, "fail"), G)
    BY <1>1, InPhaseClear, PhaseTables
  <2>3. CallClear([c EXCEPT !.point = "run", !.guard = "none"], G)
    BY <1>1, <1>4, <2>1 DEF CallClear, Call
  <2>4. Continue(c) = AfterRetry(c)
    BY <1>4, PhaseTables DEF Continue
  <2>5. QED  BY <2>2, <2>3, <2>4 DEF AfterRetry
<1>5. CASE c.phase \notin DOMAIN Following \cup {"validate", "retry"}
  BY <1>5, IdleClear DEF Continue
<1>6. QED  BY <1>2, <1>3, <1>4, <1>5

\* What a phase may store is clear.
LEMMA SavedClear ==
  ASSUME NEW c \in Call, NEW G, CallClear(c, G), c.point = "save", CanSave(c)
  PROVE  RowClear(c.key, Saved(c), G)
<1>1. RowClear(c.key, c.row, G) /\ c.row \in Row /\ c.phase \in Phases
  BY DEF CallClear, Call
<1>2. CASE c.phase = "retry"
  <2>1. Saved(c).state = c.row.state
    BY <1>1, <1>2 DEF Saved, Row
  <2>2. QED  BY <1>1, <2>1 DEF RowClear
<1>3. CASE c.phase # "retry"
  <2>1. Saved(c).state = Target[c.phase]
    BY <1>1, <1>3 DEF Saved, Row
  <2>2. c.phase \in Assigned \/ IsValidTransition(c.row.state, Target[c.phase])
    BY <1>3 DEF CanSave
  <2>3. CASE Target[c.phase] \in {"proposed", "validated", "awaiting_approval",
                                  "approved", "executing", "succeeded"}
    <3>1. c.phase \in {"created", "validate", "hold", "grant", "go", "succeed"}
      BY <1>1, <1>3, <2>3, PhaseTables DEF Target
    <3>2. IsValidTransition(c.row.state, Target[c.phase])
      BY <2>2, <3>1 DEF Assigned
    <3>3. CASE c.phase = "created"
      BY <3>2, <3>3, TransitionSources DEF Target
    <3>4. CASE c.phase = "validate"
      <4>1. Target[c.phase] = "validated"
        BY <3>4 DEF Target
      <4>2. c.row.state = "proposed"
        BY <3>2, <4>1, TransitionSources
      <4>3. QED  BY <1>1, <2>1, <4>1, <4>2 DEF RowClear
    <3>5. CASE c.phase = "hold"
      <4>1. Target[c.phase] = "awaiting_approval"
        BY <3>5 DEF Target
      <4>2. c.row.state = "validated"
        BY <3>2, <4>1, TransitionSources
      <4>3. Open(c.key)
        BY <3>5 DEF CallClear
      <4>4. QED  BY <1>1, <2>1, <4>1, <4>2, <4>3 DEF RowClear
    <3>6. CASE c.phase = "grant"
      <4>1. Target[c.phase] = "approved"
        BY <3>6 DEF Target
      <4>2. c.row.state = "awaiting_approval"
        BY <3>2, <4>1, TransitionSources
      <4>3. QED  BY <1>1, <2>1, <4>1, <4>2 DEF RowClear
    <3>7. CASE c.phase \in {"go", "succeed"}
      <4>1. Target[c.phase] \in {"executing", "succeeded"}
        BY <3>7 DEF Target
      <4>2. ClearedBy(c.key, G)
        BY <3>7 DEF CallClear
      <4>3. QED  BY <2>1, <4>1, <4>2 DEF RowClear
    <3>8. QED  BY <3>1, <3>3, <3>4, <3>5, <3>6, <3>7
  <2>4. CASE Target[c.phase] \notin {"proposed", "validated", "awaiting_approval",
                                     "approved", "executing", "succeeded"}
    BY <2>1, <2>4 DEF RowClear
  <2>5. QED  BY <2>3, <2>4
<1>4. QED  BY <1>2, <1>3
\* What is cleared by the keys with a grant is cleared on the record.
LEMMA GrantsCleared ==
  ASSUME NEW k \in Keys
  PROVE  Cleared(k) <=> ClearedBy(k, Grants)
BY DEF Cleared, ClearedBy, Grants

\* No row and no call claims a clearance initially.
LEMMA ClearanceInit == Init => ClearanceInv
<1> SUFFICES ASSUME Init PROVE ClearanceInv
  OBVIOUS
<1>1. \A k \in Keys : RowClear(k, row[k], Grants)
  BY DEF Init, RowClear, NoRow
<1>2. \A t \in Threads : CallClear(call[t], Grants)
  BY IdleClear DEF Init
<1>3. \A k \in Keys : runs[k] > 0 => ClearedBy(k, Grants)
  BY DEF Init
<1>4. QED  BY <1>1, <1>2, <1>3, TypeInit DEF ClearanceInv

\* The frame: one call moves on, no approval is lost, and what the step stores or
\* runs is clear.
LEMMA Frame ==
  ASSUME ClearanceInv, TypeOK', NEW t \in Threads, NEW d, Grants \subseteq Grants',
         call' = [call EXCEPT ![t] = d], CallClear(d, Grants'),
         \A k \in Keys : row'[k] = row[k] \/ RowClear(k, row'[k], Grants'),
         \A k \in Keys : runs'[k] = runs[k] \/ ClearedBy(k, Grants')
  PROVE  ClearanceInv'
<1> DEFINE H == Grants'
<1>1. /\ \A k : ClearedBy(k, Grants) => ClearedBy(k, H)
      /\ \A k, r : RowClear(k, r, Grants) => RowClear(k, r, H)
      /\ \A c : CallClear(c, Grants) => CallClear(c, H)
  BY ClearMonotone
<1>2. \A k \in Keys : RowClear(k, row'[k], H)
  BY <1>1 DEF ClearanceInv
<1>3. \A u \in Threads : CallClear(call'[u], H)
  BY <1>1 DEF ClearanceInv, TypeOK
<1>4. \A k \in Keys : runs'[k] > 0 => ClearedBy(k, H)
  BY <1>1 DEF ClearanceInv
<1>5. QED  BY <1>2, <1>3, <1>4 DEF ClearanceInv

\* Only AppendEvent changes what is on record.
LEMMA SameGrants ==
  ASSUME events' = events
  PROVE  Grants' = Grants
BY DEF Grants, Granted

\* What the other calls claim survives a step that leaves their rows cleared.
LEMMA LocalClear ==
  ASSUME ClearanceInv, TypeOK', NEW t \in Threads, NEW d, Local(t, d), CallClear(d, Grants)
  PROVE  ClearanceInv'
<1>1. Grants' = Grants
  BY SameGrants DEF Local
<1>2. QED  BY <1>1, Frame DEF Local

\* A call that begins claims only what the row it read supports.
LEMMA InvocationClear ==
  ASSUME ClearanceInv, TypeOK', NEW t \in Threads, Invocation(t)
  PROVE  ClearanceInv'
<1>1. ASSUME NEW d, Begin(t, d), CallClear(d, Grants) PROVE ClearanceInv'
  <2>1. Grants' = Grants
    BY <1>1, SameGrants DEF Begin
  <2>2. QED  BY <1>1, <2>1, Frame DEF Begin
<1>2. ASSUME NEW op \in {"submit", "approve", "execute", "cancel"}, NEW k \in Keys,
             NEW p \in Phases, NEW pt \in {"check", "save"}, NEW r \in Row,
             NEW by \in Approvers \cup {NoApprover}, RowClear(k, r, Grants),
             op = "submit" => p = "created" /\ pt = "check",
             op = "approve" => p \in {"grant", "deny"} /\ pt = "check",
             op = "execute" => p = "succeed" /\ pt = "check",
             op = "cancel" => p = "cancel"
      PROVE  CallClear(Invoke(op, k, p, pt, r, by), Grants)
  <2> DEFINE d == Invoke(op, k, p, pt, r, by)
  <2>1. /\ d.op = op /\ d.key = k /\ d.phase = p /\ d.point = pt
        /\ d.row = r /\ d.by = by /\ d.guard = "none"
    BY DEF Invoke, Idle
  <2>2. CallClear(d, Grants)
    <3> HIDE DEF d
    <3> QED  BY <1>2, <2>1 DEF CallClear
  <2>3. QED  BY <2>2
<1>3. NoRow \in Row /\ \A k \in Keys : row[k] \in Row
  BY DEF NoRow, Row, ClearanceInv, TypeOK
<1>4. \A k \in Keys : RowClear(k, row[k], Grants) /\ RowClear(k, NoRow, Grants)
  BY DEF ClearanceInv, RowClear, NoRow
<1>5. PICK k \in Keys :
        \/ CallSubmit(t, k)
        \/ \E a \in Approvers, decision \in {"grant", "deny"} : CallApprove(t, k, a, decision)
        \/ CallExecute(t, k)
        \/ CallCancel(t, k)
  BY DEF Invocation
<1>6. CASE CallSubmit(t, k)
  BY <1>1, <1>2, <1>3, <1>4, <1>6, PhaseTables DEF CallSubmit
<1>7. ASSUME NEW a \in Approvers, NEW decision \in {"grant", "deny"},
             CallApprove(t, k, a, decision)
      PROVE  ClearanceInv'
  BY <1>1, <1>2, <1>3, <1>4, <1>7, PhaseTables DEF CallApprove
<1>8. CASE CallExecute(t, k)
  BY <1>1, <1>2, <1>3, <1>4, <1>8, PhaseTables DEF CallExecute
<1>9. CASE CallCancel(t, k)
  BY <1>1, <1>2, <1>3, <1>4, <1>9, PhaseTables DEF CallCancel
<1>10. QED  BY <1>5, <1>6, <1>7, <1>8, <1>9

\* Appending an event takes no clearance away.
LEMMA AppendClear ==
  ASSUME ClearanceInv, TypeOK', NEW t \in Threads, AppendEvent(t)
  PROVE  ClearanceInv'
<1> DEFINE c == call[t]
           e == [phase |-> c.phase, by |-> c.by]
<1>1. /\ c \in Call /\ c.key \in Keys /\ c.point = "append" /\ CallClear(c, Grants)
      /\ events \in [Keys -> Seq(Event)] /\ e \in Event
  BY DEF AppendEvent, ClearanceInv, TypeOK, Call, Event
<1>2. events' = [events EXCEPT ![c.key] = Append(@, e)]
  BY DEF AppendEvent
<1>3. Grants \subseteq Grants'
  <2> SUFFICES ASSUME NEW k \in Keys, Granted(k) PROVE Granted(k)'
    BY DEF Grants
  <2>1. PICK i \in DOMAIN events[k] :
          /\ events[k][i].phase = "grant"
          /\ MayApprove(Request[k].actor, Request[k].owner, events[k][i].by)
    BY DEF Granted
  <2>2. i \in DOMAIN events'[k] /\ events'[k][i] = events[k][i]
    BY <1>1, <1>2, <2>1
  <2>3. QED  BY <2>1, <2>2 DEF Granted
<1>4. c.phase = "grant" => c.key \in Grants'
  <2> SUFFICES ASSUME c.phase = "grant", NEW k \in Keys, k = c.key
               PROVE  Granted(k)'
    BY <1>1 DEF Grants
  <2>1. MayApprove(Request[k].actor, Request[k].owner, c.by)
    BY <1>1 DEF CallClear
  <2> DEFINE n == Len(events[k]) + 1
  <2>2. n \in DOMAIN events'[k] /\ events'[k][n] = e
    BY <1>1, <1>2
  <2>3. e.phase = "grant" /\ e.by = c.by
    OBVIOUS
  <2>4. QED
    <3> HIDE DEF n, e
    <3> QED  BY <2>1, <2>2, <2>3 DEF Granted
<1>5. CallClear(Logged(c), Grants')
  <2>1. CallClear(c, Grants')
    BY <1>1, <1>3, ClearMonotone
  <2>2. CallClear([c EXCEPT !.point = "number", !.left = @ - 1], Grants')
    BY <1>1, <2>1 DEF CallClear, Call
  <2>3. CallClear([c EXCEPT !.point = "audit", !.left = 0], Grants')
    BY <1>1, <1>4, <2>1 DEF CallClear, Call
  <2>4. c.phase \in Unaudited => CallClear(Continue(c), Grants')
    BY <1>1, <2>1, ContinueClear DEF Unaudited
  <2>5. QED  BY <2>2, <2>3, <2>4 DEF Logged
<1>6. call' = [call EXCEPT ![t] = Logged(c)] /\ row' = row /\ runs' = runs
  BY DEF AppendEvent
<1>7. QED  BY <1>3, <1>5, <1>6, Frame

\* Every store operation of a call keeps the clearances of rows and calls.
LEMMA StepClear ==
  ASSUME ClearanceInv, TypeOK', NEW t \in Threads, Step(t)
  PROVE  ClearanceInv'
<1> DEFINE c == call[t]
           G == Grants
<1>1. /\ TypeOK /\ c \in Call /\ c.key \in Keys /\ c.row \in Row /\ c.phase \in Phases
      /\ CallClear(c, G) /\ RowClear(c.key, c.row, G)
  BY DEF ClearanceInv, TypeOK, Call, CallClear
<1>2. CASE HaltRefuses(t)
  <2>1. Grants' = G
    BY <1>2, SameGrants DEF HaltRefuses
  <2>2. QED  BY <1>2, <2>1, IdleClear, Frame DEF HaltRefuses
<1>3. CASE CheckSubmit(t)
  <2>1. CallClear([c EXCEPT !.point = "lookup"], G)
    BY <1>1, <1>3 DEF CheckSubmit, CallClear, Call
  <2>2. QED  BY <1>3, <2>1, LocalClear DEF CheckSubmit
<1>4. CASE CheckApprove(t)
  <2>1. ASSUME c.row.state = "awaiting_approval",
               MayApprove(Request[c.key].actor, Request[c.key].owner, c.by)
        PROVE  CallClear(InPhase(c, c.phase), G)
    <3>1. c.phase \in {"grant", "deny"}
      BY <1>1, <1>4 DEF CheckApprove, CallClear
    <3>2. Request[c.key].admissible /\ Open(c.key)
      BY <1>1, <2>1 DEF RowClear
    <3>3. QED  BY <1>1, <2>1, <3>1, <3>2, InPhaseClear
  <2>2. QED  BY <1>4, <2>1, IdleClear, LocalClear DEF CheckApprove
<1>5. CASE CheckExecute(t)
  <2>1. CallClear(InPhase(c, "late"), G) /\ CallClear(InPhase(c, "nohandler"), G)
    BY <1>1, InPhaseClear, PhaseTables
  <2>2. ASSUME c.row.state = "executing"
        PROVE  CallClear([c EXCEPT !.point = "run"], G)
    <3>1. ClearedBy(c.key, G)
      BY <1>1, <2>2 DEF RowClear
    <3>2. c.op = "execute" /\ c.point = "check"
      BY <1>5 DEF CheckExecute
    <3>3. c.phase = "succeed"
      BY <1>1, <3>2 DEF CallClear
    <3>4. QED  BY <1>1, <3>1, <3>2, <3>3 DEF CallClear, Call
  <2>3. QED  BY <1>5, <2>1, <2>2, IdleClear, LocalClear DEF CheckExecute
<1>6. CASE LookUp(t)
  <2>1. c.point = "lookup" /\ c.phase = "created"
    BY <1>1, <1>6 DEF LookUp, CallClear
  <2>2. CallClear([c EXCEPT !.point = "create",
                            !.phase = IF Request[c.key].admissible THEN "created"
                                      ELSE "refused"], G)
    BY <1>1, <2>1 DEF CallClear, Call
  <2>3. QED  BY <1>6, <2>2, IdleClear, LocalClear DEF LookUp
<1>7. CASE Create(t)
  <2> DEFINE r == IF row[c.key].state = "none" THEN NewRow(c.key, Target[c.phase])
                  ELSE row[c.key]
             stray == c.phase = "refused" /\ row[c.key].state # "none"
             d == [c EXCEPT !.row = r, !.left = 1,
                            !.point = IF stray THEN "audit" ELSE "number"]
  <2>1. /\ c.point = "create" /\ c.phase \in {"created", "refused"}
        /\ c.phase = "created" => Request[c.key].admissible
    BY <1>1, <1>7 DEF Create, CallClear
  <2>2. RowClear(c.key, NewRow(c.key, Target[c.phase]), G)
    BY <2>1 DEF RowClear, NewRow, Target
  <2>3. RowClear(c.key, r, G)
    BY <1>1, <2>2 DEF ClearanceInv
  <2>4. CallClear(d, G)
    <3> HIDE DEF r, stray
    <3> QED  BY <1>1, <2>1, <2>3 DEF CallClear, Call
  <2>5. Grants' = G
    BY <1>7, SameGrants DEF Create
  <2>6. /\ row' = [row EXCEPT ![c.key] = r]
        /\ call' = [call EXCEPT ![t] = d] /\ runs' = runs
    BY <1>1, <1>7 DEF Create, TypeOK
  <2>7. \A k \in Keys : row'[k] = row[k] \/ RowClear(k, row'[k], G)
    <3> HIDE DEF r
    <3> QED  BY <1>1, <2>3, <2>6 DEF TypeOK
  <2>8. QED
    <3> HIDE DEF d
    <3> QED  BY <2>4, <2>5, <2>6, <2>7, Frame
<1>8. CASE Save(t)
  <2> DEFINE r == Saved(c)
             d == [c EXCEPT !.row = r, !.point = "number",
                            !.left = IF c.phase \in TwoEvents THEN 2 ELSE 1]
  <2>1. RowClear(c.key, r, G)
    BY <1>1, <1>8, SavedClear DEF Save
  <2>2. CallClear(d, G)
    <3>1. c.phase = "validate" => r.state = "validated"
      BY <1>1 DEF Saved, Target, Row
    <3>2. c.point = "save"
      BY <1>8 DEF Save
    <3> HIDE DEF r
    <3>3. QED  BY <1>1, <2>1, <3>1, <3>2 DEF CallClear, Call
  <2>3. Grants' = G
    BY <1>8, SameGrants DEF Save
  <2>4. /\ row' = [row EXCEPT ![c.key] = r]
        /\ call' = [call EXCEPT ![t] = d] /\ runs' = runs
    BY <1>1, <1>8 DEF Save, TypeOK
  <2>5. \A k \in Keys : row'[k] = row[k] \/ RowClear(k, row'[k], G)
    <3> HIDE DEF r
    <3> QED  BY <1>1, <2>1, <2>4 DEF TypeOK
  <2>6. QED
    <3> HIDE DEF d
    <3> QED  BY <2>2, <2>3, <2>4, <2>5, Frame
<1>9. CASE SaveRaises(t)
  BY <1>1, <1>9, RaisedClear, LocalClear DEF SaveRaises
<1>10. CASE Number(t)
  <2> DEFINE n == Len(events[c.key]) + 1
  <2>1. Local(t, [c EXCEPT !.seq = n, !.point = "append"]) /\ c.point = "number"
    BY <1>10 DEF Number
  <2>2. QED
    <3> HIDE DEF n
    <3>1. CallClear([c EXCEPT !.seq = n, !.point = "append"], G)
      BY <1>1, <2>1 DEF CallClear, Call
    <3>2. QED  BY <2>1, <3>1, LocalClear
<1>11. CASE AppendEvent(t)
  BY <1>11, AppendClear
<1>12. CASE AppendRaises(t)
  BY <1>1, <1>12, RaisedClear, LocalClear DEF AppendRaises
<1>13. CASE AuditWritten(t)
  <2>1. Grants' = G
    BY <1>13, SameGrants DEF AuditWritten
  <2>2. CallClear(Continue(c), G)
    BY <1>1, <1>13, ContinueClear DEF AuditWritten
  <2>3. call' = [call EXCEPT ![t] = Continue(c)] /\ row' = row /\ runs' = runs
    BY <1>13 DEF AuditWritten
  <2>4. QED  BY <2>1, <2>2, <2>3, Frame
<1>14. CASE AuditLost(t)
  <2> DEFINE d == IF c.phase \in Consequential THEN InPhase(c, "failclosed") ELSE Continue(c)
  <2>1. Grants' = G
    BY <1>14, SameGrants DEF AuditLost
  <2>2. CallClear(InPhase(c, "failclosed"), G)
    <3>1. c.guard = "attempt" => ClearedBy(c.key, G)
      BY <1>1 DEF CallClear
    <3>2. QED  BY <1>1, <3>1, InPhaseClear, PhaseTables
  <2>3. CallClear(d, G)
    BY <1>1, <1>14, <2>2, ContinueClear DEF AuditLost
  <2>4. call' = [call EXCEPT ![t] = d] /\ row' = row /\ runs' = runs
    BY <1>14 DEF AuditLost
  <2>5. QED
    <3> HIDE DEF d
    <3> QED  BY <2>1, <2>3, <2>4, Frame
<1>15. CASE Gate(t)
  <2>1. Request[c.key].admissible
    BY <1>1, <1>15 DEF Gate, CallClear, RowClear
  <2>2. ASSUME EvaluateGate(Request[c.key]) # "raise"
        PROVE  CallClear(InPhase(c, Verdict(c)), G)
    <3>1. Verdict(c) \in {"gatefail", "hold", "late", "go"}
      BY <1>1, VerdictTyped
    <3>2. Verdict(c) = "hold" => Open(c.key)
      BY <2>2, GateAnswers DEF Verdict, Open
    <3>3. Verdict(c) = "go" => ClearedBy(c.key, G)
      BY <2>1, <2>2, GateAnswers DEF Verdict, ClearedBy
    <3>4. QED  BY <1>1, <3>1, <3>2, <3>3, InPhaseClear, PhaseTables
  <2>3. QED  BY <1>15, <2>2, IdleClear, LocalClear DEF Gate
<1>16. CASE RunHandler(t)
  <2> DEFINE d == [c EXCEPT !.attempt = @ + 1]
             e == [d EXCEPT !.row.out = TRUE]
  <2>1. ClearedBy(c.key, G)
    BY <1>1, <1>16 DEF RunHandler, CallClear
  <2>2. /\ d \in Call /\ e \in Call /\ d.key = c.key /\ e.key = c.key
        /\ d.row = c.row /\ e.row.state = c.row.state
    <3>1. [c.row EXCEPT !.out = TRUE] \in Row
      BY <1>1 DEF Row
    <3>2. d \in Call
      <4>1. c.attempt \in Nat
        BY <1>1 DEF Call
      <4> DEFINE n == c.attempt + 1
      <4>2. n \in Nat
        BY <4>1
      <4>3. n \in Nat => [c EXCEPT !.attempt = n] \in Call
        <5> HIDE DEF n
        <5> QED  BY <1>1 DEF Call
      <4>4. QED  BY <4>2, <4>3
    <3>3. e = [d EXCEPT !.row = [c.row EXCEPT !.out = TRUE]]
      BY <1>1 DEF Call
    <3>4. d.row = c.row /\ d.key = c.key
      BY <1>1 DEF Call
    <3>5. [c.row EXCEPT !.out = TRUE].state = c.row.state
      BY <1>1 DEF Row
    <3>6. QED
      <4> HIDE DEF d
      <4> QED  BY <3>1, <3>2, <3>3, <3>4, <3>5 DEF Call
  <2>3. RowClear(c.key, e.row, G)
    BY <1>1, <2>2 DEF RowClear
  <2>4. CallClear(InPhase(e, "succeed"), G) /\ CallClear(InPhase(d, "retry"), G)
    <3> HIDE DEF d, e
    <3> QED  BY <1>1, <2>1, <2>2, <2>3, InPhaseClear, PhaseTables
  <2>5. Grants' = G
    BY <1>16, SameGrants DEF RunHandler
  <2>6. /\ \/ call' = [call EXCEPT ![t] = InPhase(e, "succeed")]
           \/ call' = [call EXCEPT ![t] = InPhase(d, "retry")]
        /\ row' = row
        /\ runs' = [runs EXCEPT ![c.key] = @ + 1]
    BY <1>16 DEF RunHandler
  <2>7. \A k \in Keys : runs'[k] = runs[k] \/ ClearedBy(k, G)
    BY <1>1, <2>1, <2>6 DEF TypeOK
  <2>8. QED
    <3> HIDE DEF d, e
    <3> QED  BY <2>4, <2>5, <2>6, <2>7, Frame
<1>17. QED
  BY <1>2, <1>3, <1>4, <1>5, <1>6, <1>7, <1>8, <1>9, <1>10, <1>11, <1>12, <1>13,
     <1>14, <1>15, <1>16 DEF Step

\* An attempt that a failing store operation cut short was cleared.
LEMMA FailureClear ==
  ASSUME ClearanceInv, TypeOK', NEW t \in Threads, StoreFails(t)
  PROVE  ClearanceInv'
<1> DEFINE c == call[t]
           G == Grants
<1>1. c \in Call /\ Ahead(c) \in Call /\ CallClear(c, G) /\ c.key \in Keys /\ TypeOK
  BY FailureMoves DEF ClearanceInv, Call
<1>2. Grants' = G /\ row' = row /\ runs' = runs
  BY SameGrants DEF StoreFails
<1>3. c.guard = "attempt" => CallClear(InPhase(c, "retry"), G)
  <2>1. RowClear(c.key, c.row, G) /\ (c.guard = "attempt" => ClearedBy(c.key, G))
    BY <1>1 DEF CallClear
  <2>2. QED  BY <1>1, <2>1, InPhaseClear, PhaseTables
<1>4. c.guard = "attempt" /\ c.point = "save" /\ CanSave(c)
        => CallClear(InPhase(Ahead(c), "retry"), G)
  <2> SUFFICES ASSUME c.guard = "attempt", c.point = "save", CanSave(c)
               PROVE  CallClear(InPhase(Ahead(c), "retry"), G)
    OBVIOUS
  <2>1. Ahead(c).key = c.key /\ Ahead(c).row = Saved(c)
    BY <1>1 DEF Ahead, Call
  <2>2. RowClear(c.key, Saved(c), G) /\ ClearedBy(c.key, G)
    BY <1>1, SavedClear DEF CallClear
  <2>3. QED  BY <1>1, <2>1, <2>2, InPhaseClear, PhaseTables
<1>5. QED  BY <1>1, <1>2, <1>3, <1>4, FailureMoves, IdleClear, Frame

\* Clearance is inductive, and no handler runs without it: every handler
\* invocation of Engine.execute is preceded by a gate that let the request
\* through, or by the recorded approval of an independent, authorised reviewer.
THEOREM ClearanceHolds == Spec => []ClearanceInv
<1>1. ASSUME ClearanceInv, TypeOK', [Next]_vars
      PROVE  ClearanceInv'
  <2>1. CASE UNCHANGED vars
    BY <1>1, <2>1, SameGrants DEF vars, ClearanceInv
  <2>2. ASSUME NEW t \in Threads, Die(t) PROVE ClearanceInv'
    <3>1. Grants' = Grants
      BY <2>2, SameGrants DEF Die
    <3>2. QED  BY <1>1, <2>2, <3>1, IdleClear, Frame DEF Die
  <2>5. ASSUME NEW t \in Threads, StoreFails(t) PROVE ClearanceInv'
    BY <1>1, <2>5, FailureClear
  <2>3. CASE (\E k \in Keys : Expire(k)) \/ Engage \/ Release
    <3>1. UNCHANGED <<row, events, call, runs>>
      BY <2>3 DEF Expire, Engage, Release
    <3>2. QED  BY <1>1, <3>1, SameGrants DEF ClearanceInv
  <2>4. QED  BY <1>1, <2>1, <2>2, <2>3, <2>5, InvocationClear, StepClear DEF Next
<1>2. QED  BY <1>1, ClearanceInit, TypeCorrect, PTL DEF Spec

\* Whatever ran was let through by the gate, or approved on the record by an
\* independent and authorised reviewer (Engine.submit, approve and execute).
THEOREM ClearedWorkOnly == Spec => []ClearedBeforeRun
<1>1. ClearanceInv => ClearedBeforeRun
  BY GrantsCleared DEF ClearanceInv, ClearedBeforeRun
<1>2. QED  BY <1>1, ClearanceHolds, PTL
-------------------------------------------------------------------------------
(* The kill switch.  The invariant says who may still be past the halt check:  *)
(* the calls that were when the switch was engaged, and cancellations.         *)

PastCheck(t) == Busy(t) /\ call[t].point # "check"

HaltInv ==
  /\ TypeOK
  /\ halted => \A t \in Threads : PastCheck(t) => t \in grace \/ call[t].op = "cancel"

KeepsOperation(c, d) == d.op \in {c.op, "none"}

\* A call stays the operation it was, or returns.
LEMMA OperationKept ==
  ASSUME NEW c \in Call
  PROVE  /\ \A p \in Phases : InPhase(c, p).op = c.op /\ InPhase(c, p).point = "save"
         /\ Raised(c).op \in {c.op, "none"}
         /\ Continue(c).op \in {c.op, "none"}
         /\ Logged(c).op \in {c.op, "none"}
<1>1. \A p \in Phases : InPhase(c, p).op = c.op /\ InPhase(c, p).point = "save"
  BY InPhaseFields
<1>2. Idle.op = "none"
  BY DEF Idle
<1>3. Raised(c).op \in {c.op, "none"}
  BY <1>1, <1>2, PhaseTables DEF Raised
<1>4. Continue(c).op \in {c.op, "none"}
  <2>1. c.phase \in DOMAIN Following => InPhase(c, Following[c.phase]).op = c.op
    BY <1>1, PhaseTables
  <2>2. [c EXCEPT !.point = "gate"].op = c.op
    BY DEF Call
  <2>3. AfterRetry(c).op = c.op
    BY <1>1, PhaseTables DEF AfterRetry, Call
  <2>4. QED  BY <1>2, <2>1, <2>2, <2>3 DEF Continue
<1>5. Logged(c).op \in {c.op, "none"}
  BY <1>4 DEF Logged, Call
<1>6. QED  BY <1>1, <1>3, <1>4, <1>5

\* No halt is in force initially.
LEMMA HaltInit == Init => HaltInv
BY TypeInit DEF Init, HaltInv

\* A step of a call past its check, or one the halt turns away, keeps the invariant.
LEMMA HaltFrame ==
  ASSUME HaltInv, TypeOK', NEW t \in Threads, NEW d,
         call' = [call EXCEPT ![t] = d], halted' = halted, grace' = grace,
         ~halted \/ d.op = "none" \/ (PastCheck(t) /\ d.op = call[t].op)
  PROVE  HaltInv'
BY DEF HaltInv, PastCheck, Busy, TypeOK

\* A call that begins has not passed the halt check.
LEMMA HaltInvocation ==
  ASSUME HaltInv, TypeOK', NEW t \in Threads, Invocation(t)
  PROVE  HaltInv'
<1>1. ASSUME NEW d, Begin(t, d), d.point = "check" \/ d.op = "cancel" PROVE HaltInv'
  BY <1>1 DEF Begin, HaltInv, PastCheck, Busy, TypeOK
<1>2. ASSUME NEW op, NEW k, NEW p, NEW pt, NEW r, NEW by
      PROVE  Invoke(op, k, p, pt, r, by).point = pt /\ Invoke(op, k, p, pt, r, by).op = op
  BY DEF Invoke, Idle
<1>3. QED
  BY <1>1, <1>2 DEF Invocation, CallSubmit, CallApprove, CallExecute, CallCancel

\* A call passes the halt check only where no halt is in force.
LEMMA HaltStep ==
  ASSUME HaltInv, TypeOK', NEW t \in Threads, Step(t)
  PROVE  HaltInv'
<1> DEFINE c == call[t]
<1>1. c \in Call /\ c.phase \in Phases /\ Idle.op = "none"
  BY DEF HaltInv, TypeOK, Call, Idle
<1>2. CASE HaltRefuses(t)
  BY <1>1, <1>2, HaltFrame DEF HaltRefuses
<1>3. CASE CheckSubmit(t) \/ CheckApprove(t) \/ CheckExecute(t)
  <2>1. ~halted /\ \E d : Local(t, d)
    BY <1>3 DEF CheckSubmit, CheckApprove, CheckExecute
  <2>2. QED  BY <2>1, HaltFrame DEF Local
<1>4. ASSUME NEW d, KeepsOperation(c, d), PastCheck(t),
             call' = [call EXCEPT ![t] = d], UNCHANGED <<halted, grace>>
      PROVE  HaltInv'
  <2>1. halted' = halted /\ grace' = grace
    BY <1>4
  <2>2. QED  BY <1>4, <2>1, HaltFrame DEF KeepsOperation
<1>5. CASE LookUp(t)
  <2>1. call' = [call EXCEPT ![t] = IF row[c.key].state # "none" THEN Idle
                                ELSE [c EXCEPT !.point = "create",
                                               !.phase = IF Request[c.key].admissible
                                                         THEN "created" ELSE "refused"]]
    BY <1>5 DEF LookUp, Local
  <2>2. UNCHANGED <<halted, grace>> /\ PastCheck(t)
    BY <1>5 DEF LookUp, PastCheck, Local
  <2>3. KeepsOperation(c, IF row[c.key].state # "none" THEN Idle
                                ELSE [c EXCEPT !.point = "create",
                                               !.phase = IF Request[c.key].admissible
                                                         THEN "created" ELSE "refused"])
    BY <1>1 DEF Call, KeepsOperation
  <2>4. QED  BY <1>4, <2>1, <2>2, <2>3
<1>6. CASE Create(t)
  <2> DEFINE d == [c EXCEPT !.row = IF row[c.key].state = "none"
                               THEN NewRow(c.key, Target[c.phase]) ELSE row[c.key],
                        !.left = 1,
                        !.point = IF c.phase = "refused" /\ row[c.key].state # "none"
                                  THEN "audit" ELSE "number"]
  <2>1. KeepsOperation(c, d)
    BY <1>1 DEF Call, KeepsOperation
  <2>2. call' = [call EXCEPT ![t] = d]
    BY <1>6 DEF Create, HaltInv, TypeOK
  <2>3. UNCHANGED <<halted, grace>> /\ PastCheck(t)
    BY <1>6 DEF Create, PastCheck
  <2>4. QED
    <3> HIDE DEF d
    <3> QED  BY <1>4, <2>1, <2>2, <2>3
<1>7. CASE Save(t)
  <2> DEFINE d == [c EXCEPT !.row = Saved(c), !.point = "number",
                        !.left = IF c.phase \in TwoEvents THEN 2 ELSE 1]
  <2>1. KeepsOperation(c, d)
    BY <1>1 DEF Call, KeepsOperation
  <2>2. call' = [call EXCEPT ![t] = d]
    BY <1>7 DEF Save, HaltInv, TypeOK
  <2>3. UNCHANGED <<halted, grace>> /\ PastCheck(t)
    BY <1>7 DEF Save, PastCheck
  <2>4. QED
    <3> HIDE DEF d
    <3> QED  BY <1>4, <2>1, <2>2, <2>3
<1>8. CASE SaveRaises(t)
  <2>1. call' = [call EXCEPT ![t] = Raised(c)]
    BY <1>8 DEF SaveRaises, Local
  <2>2. UNCHANGED <<halted, grace>> /\ PastCheck(t)
    BY <1>8 DEF SaveRaises, PastCheck, Local
  <2>3. KeepsOperation(c, Raised(c))
    BY <1>1, OperationKept DEF KeepsOperation
  <2>4. QED  BY <1>4, <2>1, <2>2, <2>3
<1>9. CASE Number(t)
  <2>1. call' = [call EXCEPT ![t] = [c EXCEPT !.seq = Len(events[c.key]) + 1, !.point = "append"]]
    BY <1>9 DEF Number, Local
  <2>2. UNCHANGED <<halted, grace>> /\ PastCheck(t)
    BY <1>9 DEF Number, PastCheck, Local
  <2>3. KeepsOperation(c, [c EXCEPT !.seq = Len(events[c.key]) + 1, !.point = "append"])
    BY <1>1 DEF Call, KeepsOperation
  <2>4. QED  BY <1>4, <2>1, <2>2, <2>3
<1>10. CASE AppendEvent(t)
  <2>1. call' = [call EXCEPT ![t] = Logged(c)]
    BY <1>10 DEF AppendEvent, Local
  <2>2. UNCHANGED <<halted, grace>> /\ PastCheck(t)
    BY <1>10 DEF AppendEvent, PastCheck, Local
  <2>3. KeepsOperation(c, Logged(c))
    BY <1>1, OperationKept DEF KeepsOperation
  <2>4. QED  BY <1>4, <2>1, <2>2, <2>3
<1>11. CASE AppendRaises(t)
  <2>1. call' = [call EXCEPT ![t] = Raised(c)]
    BY <1>11 DEF AppendRaises, Local
  <2>2. UNCHANGED <<halted, grace>> /\ PastCheck(t)
    BY <1>11 DEF AppendRaises, PastCheck, Local
  <2>3. KeepsOperation(c, Raised(c))
    BY <1>1, OperationKept DEF KeepsOperation
  <2>4. QED  BY <1>4, <2>1, <2>2, <2>3
<1>12. CASE AuditWritten(t)
  <2>1. call' = [call EXCEPT ![t] = Continue(c)]
    BY <1>12 DEF AuditWritten, Local
  <2>2. UNCHANGED <<halted, grace>> /\ PastCheck(t)
    BY <1>12 DEF AuditWritten, PastCheck, Local
  <2>3. KeepsOperation(c, Continue(c))
    BY <1>1, OperationKept DEF KeepsOperation
  <2>4. QED  BY <1>4, <2>1, <2>2, <2>3
<1>13. CASE AuditLost(t)
  <2>1. call' = [call EXCEPT ![t] = IF c.phase \in Consequential
                                THEN InPhase(c, "failclosed") ELSE Continue(c)]
    BY <1>13 DEF AuditLost, Local
  <2>2. UNCHANGED <<halted, grace>> /\ PastCheck(t)
    BY <1>13 DEF AuditLost, PastCheck, Local
  <2>3. KeepsOperation(c, IF c.phase \in Consequential
                                THEN InPhase(c, "failclosed") ELSE Continue(c))
    BY <1>1, OperationKept, PhaseTables DEF KeepsOperation
  <2>4. QED  BY <1>4, <2>1, <2>2, <2>3
<1>14. CASE Gate(t)
  <2>1. call' = [call EXCEPT ![t] = IF EvaluateGate(Request[c.key]) = "raise" THEN Idle
                                ELSE InPhase(c, Verdict(c))]
    BY <1>14 DEF Gate, Local
  <2>2. UNCHANGED <<halted, grace>> /\ PastCheck(t)
    BY <1>14 DEF Gate, PastCheck, Local
  <2>3. KeepsOperation(c, IF EvaluateGate(Request[c.key]) = "raise" THEN Idle
                                ELSE InPhase(c, Verdict(c)))
    BY <1>1, OperationKept, VerdictTyped, PhaseTables DEF KeepsOperation
  <2>4. QED  BY <1>4, <2>1, <2>2, <2>3
<1>15. CASE RunHandler(t)
  <2> DEFINE d == [c EXCEPT !.attempt = @ + 1]
             e == [d EXCEPT !.row.out = TRUE]
  <2>1. KeepsOperation(c, InPhase(e, "succeed")) /\ KeepsOperation(c, InPhase(d, "retry"))
    BY <1>1 DEF InPhase, Call, KeepsOperation
  <2>2. \/ call' = [call EXCEPT ![t] = InPhase(e, "succeed")]
        \/ call' = [call EXCEPT ![t] = InPhase(d, "retry")]
    BY <1>15 DEF RunHandler
  <2>3. UNCHANGED <<halted, grace>> /\ PastCheck(t)
    BY <1>15 DEF RunHandler, PastCheck
  <2>4. QED
    <3> HIDE DEF d, e
    <3> QED  BY <1>4, <2>1, <2>2, <2>3
<1>16. QED
  BY <1>2, <1>3, <1>5, <1>6, <1>7, <1>8, <1>9, <1>10, <1>11, <1>12, <1>13, <1>14,
     <1>15 DEF Step

\* While the switch is engaged only grandfathered calls and cancellations are
\* past _enforce_not_halted.
THEOREM HaltHolds == Spec => []HaltInv
<1>1. ASSUME HaltInv, TypeOK', [Next]_vars
      PROVE  HaltInv'
  <2>1. CASE UNCHANGED vars
    BY <1>1, <2>1 DEF vars, HaltInv, PastCheck, Busy
  <2>2. ASSUME NEW t \in Threads, Die(t) PROVE HaltInv'
    BY <1>1, <2>2, HaltFrame DEF Die, Idle
  <2>7. ASSUME NEW t \in Threads, StoreFails(t) PROVE HaltInv'
    <3>1. /\ Idle.op = "none" /\ Ahead(call[t]).op = call[t].op
          /\ call[t] \in Call /\ Ahead(call[t]) \in Call
      BY <1>1, <2>7, FailureMoves DEF Idle, Ahead, Call, HaltInv
    <3>2. /\ InPhase(call[t], "retry").op = call[t].op
          /\ InPhase(Ahead(call[t]), "retry").op = call[t].op
      BY <3>1, InPhaseFields
    <3>3. PastCheck(t) /\ halted' = halted /\ grace' = grace
      BY <2>7 DEF PastCheck, StoreFails
    <3>4. QED  BY <1>1, <2>7, <3>1, <3>2, <3>3, FailureMoves, HaltFrame DEF HaltInv
  <2>3. ASSUME NEW k \in Keys, Expire(k) PROVE HaltInv'
    BY <1>1, <2>3 DEF Expire, HaltInv, PastCheck, Busy
  <2>4. CASE Engage
    BY <1>1, <2>4 DEF Engage, HaltInv, PastCheck, Busy
  <2>5. CASE Release
    BY <1>1, <2>5 DEF Release, HaltInv
  <2>6. QED  BY <1>1, <2>1, <2>2, <2>3, <2>4, <2>5, <2>7, HaltInvocation, HaltStep
     DEF Next
<1>2. QED  BY <1>1, HaltInit, TypeCorrect, PTL DEF Spec

\* Who changes a row or runs a handler while the switch is engaged.
LEMMA HaltedWrites ==
  ASSUME HaltInv, [Next]_vars, halted, row' # row \/ runs' # runs
  PROVE  \E t \in Threads : call'[t] # call[t] /\ (t \in grace \/ call[t].op = "cancel")
<1>1. PICK t \in Threads : Create(t) \/ Save(t) \/ RunHandler(t)
  <2>1. ~UNCHANGED <<row, runs>> /\ TypeOK
    BY DEF HaltInv
  <2>2. QED  BY <2>1, Writers
<1>2. PastCheck(t)
  <2>1. ASSUME Create(t) PROVE PastCheck(t)
    BY <2>1 DEF Create, PastCheck
  <2>2. ASSUME Save(t) PROVE PastCheck(t)
    BY <2>2 DEF Save, PastCheck
  <2>3. ASSUME RunHandler(t) PROVE PastCheck(t)
    BY <2>3 DEF RunHandler, PastCheck
  <2>4. QED  BY <1>1, <2>1, <2>2, <2>3
<1>3. call'[t].point # call[t].point
  <2>1. call[t] \in Call /\ call \in [Threads -> Call]
    BY DEF HaltInv, TypeOK
  <2>2. CASE Create(t)
    <3>1. call[t].point = "create" /\ call'[t].point \in {"audit", "number"}
      BY <2>1, <2>2 DEF Create, Call
    <3>2. QED  BY <3>1
  <2>3. CASE Save(t)
    <3>1. call[t].point = "save" /\ call'[t].point = "number"
      BY <2>1, <2>3 DEF Save, Call
    <3>2. QED  BY <3>1
  <2>4. CASE RunHandler(t)
    <3> DEFINE d == [call[t] EXCEPT !.attempt = @ + 1]
               e == [d EXCEPT !.row.out = TRUE]
    <3>1. InPhase(e, "succeed").point = "save" /\ InPhase(d, "retry").point = "save"
      BY <2>1 DEF InPhase, Call
    <3>2. call'[t] = InPhase(e, "succeed") \/ call'[t] = InPhase(d, "retry")
      BY <2>1, <2>4 DEF RunHandler
    <3>3. call[t].point = "run"
      BY <2>4 DEF RunHandler
    <3>4. QED
      <4> HIDE DEF d, e
      <4> QED  BY <3>1, <3>2, <3>3
  <2>5. QED  BY <1>1, <2>2, <2>3, <2>4
<1>4. QED  BY <1>2, <1>3 DEF HaltInv

\* The kill switch stops new work: after it is engaged a row changes or a handler
\* runs only in a call already past its check, or in a cancellation.
THEOREM HaltStops == Spec => HaltStopsNewWork
<1>1. HaltInv /\ [Next]_vars =>
        [halted /\ (row' # row \/ runs' # runs) =>
           \E t \in Threads : /\ call'[t] # call[t]
                              /\ t \in grace \/ call[t].op = "cancel"]_vars
  BY HaltedWrites
<1>2. QED  BY <1>1, HaltHolds, PTL DEF Spec, HaltStopsNewWork
-------------------------------------------------------------------------------
(* Refusals.  A key that admission refuses is inserted and logged by one call. *)

\* What a call on a refused key can be doing: it has not looked the key up yet, or
\* it logs the refusal, or it is about to find the workflow dead-lettered.
RefusedCall(c, r, log) ==
  /\ c.guard = "none"
  /\ \/ c.point = "check" /\ (c.op # "submit" => c.row.state = "dead_letter")
     \/ c.point = "lookup"
     \/ c.point = "create" /\ c.phase = "refused"
     \/ /\ c.point \in {"number", "append"} /\ c.phase = "refused" /\ c.left = 1
        /\ r.state # "none" /\ log = <<>>
     \/ c.point = "audit" /\ c.phase = "refused"

Logging(t, k) == Busy(t) /\ call[t].key = k /\ call[t].point \in {"number", "append"}

RefusedKey(k) ==
  /\ row[k].state \in {"none", "dead_letter"} /\ runs[k] = 0
  /\ events[k] # <<>> =>
       row[k].state # "none" /\ Len(events[k]) = 1 /\ events[k][1].phase = "refused"
  /\ \A t \in Threads : Busy(t) /\ call[t].key = k => RefusedCall(call[t], row[k], events[k])
  /\ \A t, u \in Threads : Logging(t, k) /\ Logging(u, k) => t = u

RefusalsInv == TypeOK /\ \A k \in Keys : ~Request[k].admissible => RefusedKey(k)

\* Nothing is refused initially.
LEMMA RefusalsInit == Init => RefusalsInv
BY TypeInit DEF Init, RefusalsInv, RefusedKey, NoRow, Busy, Logging, Idle

\* The stream of a refused key holds at most its refusal.
LEMMA RefusedStream ==
  ASSUME RefusalsInv, NEW k \in Keys, ~Request[k].admissible
  PROVE  Len(events[k]) <= 1 /\ \A i \in DOMAIN events[k] : events[k][i].phase = "refused"
<1>1. events[k] \in Seq(Event) /\ RefusedKey(k)
  BY DEF RefusalsInv, TypeOK
<1>2. CASE events[k] = <<>>
  BY <1>2
<1>3. CASE events[k] # <<>>
  <2>1. Len(events[k]) = 1 /\ events[k][1].phase = "refused"
    BY <1>1, <1>3 DEF RefusedKey
  <2>2. DOMAIN events[k] = 1 .. 1
    BY <1>1, <2>1
  <2>3. QED  BY <2>1, <2>2
<1>4. QED  BY <1>2, <1>3

\* A call that neither writes a row nor logs keeps the invariant if it is in place.
LEMMA RefusedQuiet ==
  ASSUME RefusalsInv, TypeOK', NEW t \in Threads, NEW d, Busy(t),
         call' = [call EXCEPT ![t] = d], UNCHANGED <<row, events, runs>>,
         \/ d.op = "none"
         \/ Request[call[t].key].admissible /\ d.key = call[t].key
         \/ /\ d.key = call[t].key /\ RefusedCall(d, row[d.key], events[d.key])
            /\ d.point \in {"number", "append"} => call[t].point \in {"number", "append"}
  PROVE  RefusalsInv'
<1> SUFFICES ASSUME NEW k \in Keys, ~Request[k].admissible PROVE RefusedKey(k)'
  BY DEF RefusalsInv
<1>1. RefusedKey(k) /\ call \in [Threads -> Call]
  BY DEF RefusalsInv, TypeOK
<1>2. \A u \in Threads : call'[u] = IF u = t THEN d ELSE call[u]
  BY <1>1
<1>3. \A u \in Threads : Logging(u, k)' => Logging(u, k)
  BY <1>1, <1>2 DEF Logging, Busy
<1>4. \A u \in Threads : Busy(u)' /\ call'[u].key = k => RefusedCall(call'[u], row[k], events[k])
  <2> TAKE u \in Threads
  <2>1. CASE u = t
    BY <1>1, <1>2, <2>1 DEF RefusedCall, Busy
  <2>2. CASE u # t
    BY <1>1, <1>2, <2>2 DEF RefusedCall, Busy, RefusedKey
  <2>3. QED  BY <2>1, <2>2
<1>5. QED  BY <1>1, <1>3, <1>4 DEF RefusedKey

\* A step on another key leaves a refused key alone.
LEMMA RefusedElsewhere ==
  ASSUME RefusalsInv, TypeOK', NEW t \in Threads, Step(t), NEW d,
         call' = [call EXCEPT ![t] = d], d.op = "none" \/ d.key = call[t].key,
         NEW k \in Keys, k # call[t].key, ~Request[k].admissible
  PROVE  RefusedKey(k)'
<1>1. /\ RefusedKey(k) /\ call \in [Threads -> Call] /\ Busy(t)
      /\ row'[k] = row[k] /\ events'[k] = events[k] /\ runs'[k] = runs[k]
  BY StepElsewhere DEF RefusalsInv, TypeOK
<1>2. \A u \in Threads : call'[u] = IF u = t THEN d ELSE call[u]
  BY <1>1
<1>3. \A u \in Threads : Busy(u)' /\ call'[u].key = k => u # t /\ Busy(u) /\ call[u].key = k
  BY <1>1, <1>2 DEF Busy
<1>4. QED  BY <1>1, <1>2, <1>3 DEF RefusedKey, RefusedCall, Logging

\* No store operation of a call takes a refusal back.
LEMMA RefusedStep ==
  ASSUME RefusalsInv, TypeOK', NEW t \in Threads, Step(t)
  PROVE  RefusalsInv'
<1> DEFINE c == call[t]
           k == c.key
<1>1. /\ c \in Call /\ k \in Keys /\ c.phase \in Phases /\ Idle.op = "none"
      /\ call \in [Threads -> Call] /\ call' \in [Threads -> Call] /\ Busy(t)
  BY StepElsewhere DEF RefusalsInv, TypeOK, Call, Idle
<1>2. call' = [call EXCEPT ![t] = call'[t]] /\ (call'[t].op = "none" \/ call'[t].key = k)
  BY <1>1, StepCall DEF RefusalsInv
<1>3. CASE Request[k].admissible
  BY <1>1, <1>2, <1>3, RefusedElsewhere DEF RefusalsInv
<1>4. CASE ~Request[k].admissible
  <2>1. RefusedKey(k) /\ RefusedCall(c, row[k], events[k])
    BY <1>1, <1>4 DEF RefusalsInv, RefusedKey
  <2>2. ASSUME NEW d, Local(t, d),
               \/ d = Idle
               \/ d.key = k /\ d.point \notin {"number", "append"}
                  /\ RefusedCall(d, row[k], events[k])
        PROVE  RefusalsInv'
    BY <1>1, <2>2, RefusedQuiet DEF Local
  <2>3. CASE HaltRefuses(t)
    BY <1>1, <2>3, RefusedQuiet DEF HaltRefuses
  <2>4. CASE CheckSubmit(t)
    <3>1. [c EXCEPT !.point = "lookup"].key = k
          /\ [c EXCEPT !.point = "lookup"].point = "lookup"
          /\ [c EXCEPT !.point = "lookup"].guard = "none"
      BY <1>1, <2>1 DEF Call, RefusedCall
    <3>2. QED  BY <2>2, <2>4, <3>1 DEF CheckSubmit, RefusedCall
  <2>5. CASE CheckApprove(t) \/ CheckExecute(t)
    <3>1. c.row.state = "dead_letter"
      BY <2>1, <2>5 DEF RefusedCall, CheckApprove, CheckExecute
    <3>2. Local(t, Idle)
      BY <2>5, <3>1 DEF CheckApprove, CheckExecute
    <3>3. QED  BY <2>2, <3>2
  <2>6. CASE LookUp(t)
    <3> DEFINE d == [c EXCEPT !.point = "create", !.phase = "refused"]
    <3>1. Local(t, Idle) \/ Local(t, d)
      BY <1>4, <2>6 DEF LookUp
    <3>2. d.key = k /\ d.point = "create" /\ d.phase = "refused" /\ d.guard = "none"
      BY <1>1, <2>1 DEF Call, RefusedCall
    <3>3. QED
      <4> HIDE DEF d
      <4> QED  BY <2>2, <3>1, <3>2 DEF RefusedCall
  <2>7. CASE Create(t)
    <3> DEFINE absent == row[k].state = "none"
               r == IF absent THEN NewRow(k, "dead_letter") ELSE row[k]
               d == [c EXCEPT !.row = r, !.left = 1,
                              !.point = IF ~absent THEN "audit" ELSE "number"]
    <3>1. c.point = "create" /\ c.phase = "refused" /\ Target[c.phase] = "dead_letter"
      BY <2>1, <2>7 DEF RefusedCall, Create, Target
    <3>2. row' = [row EXCEPT ![k] = r] /\ call' = [call EXCEPT ![t] = d]
      BY <1>1, <2>7, <3>1 DEF Create
    <3>3. UNCHANGED <<events, runs>>
      BY <2>7 DEF Create
    <3>4. /\ d.key = k /\ d.phase = "refused" /\ d.guard = "none" /\ d.left = 1
          /\ d.point = IF ~absent THEN "audit" ELSE "number"
      <4> HIDE DEF r, absent
      <4> QED  BY <1>1, <2>1, <3>1 DEF Call, RefusedCall
    <3>5. r.state = "dead_letter" /\ row \in [Keys -> Row]
      BY <2>1 DEF NewRow, RefusedKey, RefusalsInv, TypeOK
    <3>6. absent => events[k] = <<>> /\ \A u \in Threads : ~Logging(u, k)
      BY <2>1 DEF RefusedKey, Logging, RefusedCall
    <3>7. \A j \in Keys : ~Request[j].admissible => RefusedKey(j)'
      <4> HIDE DEF d, r
      <4> TAKE j \in Keys
      <4>1. CASE j # k
        BY <1>1, <1>2, <4>1, RefusedElsewhere
      <4>2. CASE j = k
        <5>1. row'[k].state = "dead_letter" /\ runs'[k] = 0
          BY <1>1, <2>1, <3>2, <3>3, <3>5 DEF RefusedKey
        <5>2. \A u \in Threads : call'[u] = IF u = t THEN d ELSE call[u]
          BY <1>1, <3>2
        <5>3. \A u \in Threads : Busy(u)' /\ call'[u].key = k =>
                                   RefusedCall(call'[u], row'[k], events'[k])
          <6> TAKE u \in Threads
          <6>1. CASE u = t
            BY <3>3, <3>4, <3>6, <5>1, <5>2, <6>1 DEF RefusedCall
          <6>2. CASE u # t
            BY <2>1, <3>3, <5>1, <5>2, <6>2 DEF RefusedCall, RefusedKey, Busy
          <6>3. QED  BY <6>1, <6>2
        <5>4. \A u, w \in Threads : Logging(u, j)' /\ Logging(w, j)' => u = w
          BY <4>2, <2>1, <3>4, <3>6, <5>2 DEF Logging, Busy, RefusedKey
        <5>5. events'[k] # <<>> => Len(events'[k]) = 1 /\ events'[k][1].phase = "refused"
          BY <2>1, <3>3 DEF RefusedKey
        <5>6. QED  BY <4>2, <5>1, <5>3, <5>4, <5>5 DEF RefusedKey
      <4>3. QED  BY <4>1, <4>2
    <3>8. QED  BY <3>7 DEF RefusalsInv
  <2>8. CASE Number(t)
    <3> DEFINE n == Len(events[k]) + 1
               d == [c EXCEPT !.seq = n, !.point = "append"]
    <3>1. Local(t, d) /\ c.point = "number"
      BY <2>8 DEF Number
    <3>2. d.key = k /\ d.point = "append" /\ RefusedCall(d, row[k], events[k])
      <4> HIDE DEF n
      <4> QED  BY <1>1, <2>1, <3>1 DEF Call, RefusedCall
    <3>3. QED
      <4> HIDE DEF d
      <4> QED  BY <1>1, <3>1, <3>2, RefusedQuiet DEF Local
  <2>9. CASE AppendEvent(t)
    <3> DEFINE d == [c EXCEPT !.point = "audit", !.left = 0]
               e == [phase |-> c.phase, by |-> c.by]
    <3>1. /\ c.point = "append" /\ c.phase = "refused" /\ c.left = 1
          /\ row[k].state # "none" /\ events[k] = <<>>
      BY <2>1, <2>9 DEF RefusedCall, AppendEvent
    <3>2. Logged(c) = d
      BY <3>1 DEF Logged, Unaudited
    <3>3. d.key = k /\ d.point = "audit" /\ d.phase = "refused" /\ d.guard = "none"
      BY <1>1, <2>1, <3>1 DEF Call, RefusedCall
    <3>4. /\ call' = [call EXCEPT ![t] = d] /\ UNCHANGED <<row, runs>>
          /\ events' = [events EXCEPT ![k] = Append(@, e)]
      BY <2>9, <3>2 DEF AppendEvent
    <3>5. events'[k] = <<e>> /\ Len(<<e>>) = 1 /\ <<e>>[1].phase = "refused"
      BY <1>1, <3>1, <3>4 DEF RefusalsInv, TypeOK
    <3>6. \A j \in Keys : ~Request[j].admissible => RefusedKey(j)'
      <4> HIDE DEF d, e
      <4> TAKE j \in Keys
      <4>1. CASE j # k
        BY <1>1, <1>2, <4>1, RefusedElsewhere
      <4>2. CASE j = k
        <5>1. \A u \in Threads : call'[u] = IF u = t THEN d ELSE call[u]
          BY <1>1, <3>4
        <5>2. Logging(t, k)
          BY <1>1, <3>1 DEF Logging
        <5>3. \A u \in Threads : Busy(u)' /\ call'[u].key = k =>
                                   RefusedCall(call'[u], row'[k], events'[k])
          <6> TAKE u \in Threads
          <6>1. CASE u = t
            BY <3>3, <5>1, <6>1 DEF RefusedCall
          <6>2. CASE u # t
            BY <2>1, <5>1, <5>2, <6>2 DEF RefusedCall, RefusedKey, Busy, Logging
          <6>3. QED  BY <6>1, <6>2
        <5>4. \A u, w \in Threads : Logging(u, j)' /\ Logging(w, j)' => u = w
          BY <4>2, <2>1, <3>3, <5>1 DEF Logging, Busy, RefusedKey
        <5>5. row'[k].state = "dead_letter" /\ row'[k].state # "none" /\ runs'[k] = 0
          BY <2>1, <3>1, <3>4 DEF RefusedKey
        <5>6. QED  BY <3>5, <4>2, <5>3, <5>4, <5>5 DEF RefusedKey
      <4>3. QED  BY <4>1, <4>2
    <3>7. QED  BY <3>6 DEF RefusalsInv
  <2>10. CASE AppendRaises(t)
    <3>1. Raised(c) = Idle
      BY <2>1 DEF Raised, RefusedCall
    <3>2. QED  BY <2>2, <2>10, <3>1 DEF AppendRaises
  <2>11. CASE AuditWritten(t) \/ AuditLost(t)
    <3>1. c.phase = "refused"
      BY <2>1, <2>11 DEF RefusedCall, AuditWritten, AuditLost
    <3>2. Continue(c) = Idle /\ c.phase \notin Consequential
      BY <3>1, PhaseTables DEF Continue, Consequential
    <3>3. call' = [call EXCEPT ![t] = Idle] /\ UNCHANGED <<row, events, runs>>
      BY <2>11, <3>2 DEF AuditWritten, AuditLost
    <3>4. QED  BY <1>1, <3>3, RefusedQuiet
  <2>12. CASE Save(t) \/ SaveRaises(t) \/ Gate(t) \/ RunHandler(t)
    BY <2>1, <2>12 DEF RefusedCall, Save, SaveRaises, Gate, RunHandler
  <2>13. QED
    BY <2>3, <2>4, <2>5, <2>6, <2>7, <2>8, <2>9, <2>10, <2>11, <2>12 DEF Step
<1>5. QED  BY <1>3, <1>4

\* Nor does a call that begins.
LEMMA RefusedInvocation ==
  ASSUME RefusalsInv, TypeOK', NEW t \in Threads, Invocation(t)
  PROVE  RefusalsInv'
<1>1. PICK k \in Keys :
        \/ CallSubmit(t, k)
        \/ \E a \in Approvers, decision \in {"grant", "deny"} : CallApprove(t, k, a, decision)
        \/ CallExecute(t, k)
        \/ CallCancel(t, k)
  BY DEF Invocation
<1>2. ASSUME NEW d, Begin(t, d), d.key = k, d.point \notin {"number", "append"},
             Request[k].admissible \/ RefusedCall(d, row[k], events[k])
      PROVE  RefusalsInv'
  <2> SUFFICES ASSUME NEW j \in Keys, ~Request[j].admissible PROVE RefusedKey(j)'
    BY DEF RefusalsInv
  <2>1. RefusedKey(j) /\ UNCHANGED <<row, events, runs>>
    BY <1>2 DEF RefusalsInv, Begin
  <2>2. \A u \in Threads : call'[u] = IF u = t THEN d ELSE call[u]
    BY <1>2 DEF RefusalsInv, TypeOK, Begin
  <2>3. \A u \in Threads : Logging(u, j)' => Logging(u, j)
    BY <1>2, <2>2 DEF Logging, Busy
  <2>4. \A u \in Threads : Busy(u)' /\ call'[u].key = j =>
                             RefusedCall(call'[u], row'[j], events'[j])
    BY <1>2, <2>1, <2>2 DEF RefusedKey, Busy
  <2>5. QED  BY <2>1, <2>3, <2>4 DEF RefusedKey
<1>3. ASSUME NEW op, NEW p, NEW pt, NEW r, NEW by
      PROVE  LET d == Invoke(op, k, p, pt, r, by) IN
             /\ d.op = op /\ d.key = k /\ d.phase = p /\ d.point = pt
             /\ d.row = r /\ d.by = by /\ d.guard = "none"
  BY DEF Invoke, Idle
<1>4. Request[k].admissible \/ row[k].state \in {"none", "dead_letter"}
  BY DEF RefusalsInv, RefusedKey
<1>5. CASE CallSubmit(t, k)
  BY <1>2, <1>3, <1>5 DEF CallSubmit, RefusedCall
<1>6. ASSUME NEW a \in Approvers, NEW decision \in {"grant", "deny"},
             CallApprove(t, k, a, decision)
      PROVE  RefusalsInv'
  BY <1>2, <1>3, <1>4, <1>6 DEF CallApprove, RefusedCall
<1>7. CASE CallExecute(t, k)
  BY <1>2, <1>3, <1>4, <1>7 DEF CallExecute, RefusedCall
<1>8. CASE CallCancel(t, k)
  BY <1>2, <1>3, <1>4, <1>8 DEF CallCancel
<1>9. QED  BY <1>1, <1>5, <1>6, <1>7, <1>8

\* The refusal of a key is decided before its row is written, and only one call
\* inserts the row and logs (submit's early returns, Store.create_workflow).
THEOREM RefusalsHold == Spec => []RefusalsInv
<1>1. ASSUME RefusalsInv, TypeOK', [Next]_vars
      PROVE  RefusalsInv'
  <2>1. CASE UNCHANGED vars
    BY <1>1, <2>1 DEF vars, RefusalsInv, RefusedKey, Logging, Busy
  <2>2. ASSUME NEW t \in Threads, Die(t) PROVE RefusalsInv'
    BY <1>1, <2>2, RefusedQuiet DEF Die, Idle
  <2>5. ASSUME NEW t \in Threads, StoreFails(t) PROVE RefusalsInv'
    <3> DEFINE c == call[t]
    <3>1. /\ Idle.op = "none" /\ c \in Call /\ Ahead(c) \in Call /\ Ahead(c).key = c.key
          /\ c.key \in Keys /\ Busy(t) /\ UNCHANGED <<row, events, runs>>
      BY <1>1, <2>5, FailureMoves DEF Idle, Ahead, Call, RefusalsInv
    <3>2. InPhase(c, "retry").key = c.key /\ InPhase(Ahead(c), "retry").key = c.key
      BY <3>1, InPhaseFields
    <3>3. Request[c.key].admissible \/ c.guard = "none"
      BY <1>1, <3>1 DEF RefusalsInv, RefusedKey, RefusedCall
    <3>4. QED  BY <1>1, <2>5, <3>1, <3>2, <3>3, FailureMoves, RefusedQuiet DEF RefusalsInv
  <2>3. CASE (\E k \in Keys : Expire(k)) \/ Engage \/ Release
    <3>1. UNCHANGED <<row, events, call, runs>>
      BY <2>3 DEF Expire, Engage, Release
    <3>2. QED  BY <1>1, <3>1 DEF RefusalsInv, RefusedKey, Logging, Busy
  <2>4. QED  BY <1>1, <2>1, <2>2, <2>3, <2>5, RefusedInvocation, RefusedStep DEF Next
<1>2. QED  BY <1>1, RefusalsInit, TypeCorrect, PTL DEF Spec

\* A refused key keeps its dead letter and the one event of its refusal, whoever
\* submits it again (submit's early returns over Store.create_workflow).
THEOREM RefusedForGood == Spec => []RefusalsFinal
<1>1. RefusalsInv => RefusalsFinal
  BY RefusedStream DEF RefusalsInv, RefusedKey, RefusalsFinal
<1>2. QED  BY <1>1, RefusalsHold, PTL
-------------------------------------------------------------------------------
(* Closing.  A row is closed after the audit record of a success, or after a   *)
(* logged cancellation, and whoever overwrites it later has a copy of that row.*)

\* A success on the audit trail, and a cancellation in the stream.
Audited == {k \in Keys : "succeed" \in trail[k]}
Cancelled == {k \in Keys : Withdrawn(k)}

\* What a call may do about closing: A and W stand for Audited and Cancelled.
ClosingCall(c, A, W) ==
  /\ c.row.state = "closed" => c.key \in A \cup W
  /\ c.phase = "close" => c.key \in A
  /\ c.phase = "withdraw" => c.key \in W
  /\ c.phase = "cancel" => c.point # "audit"

ClosedInv ==
  /\ TypeOK
  /\ \A k \in Keys : row[k].state = "closed" => k \in Audited \cup Cancelled
  /\ \A t \in Threads : ClosingCall(call[t], Audited, Cancelled)

\* Nothing is closed initially.
LEMMA ClosedInit == Init => ClosedInv
BY TypeInit DEF Init, ClosedInv, ClosingCall, NoRow, Idle

\* Trails and streams only grow.
LEMMA RecordsGrow ==
  ASSUME TypeOK, NEW t \in Threads, Step(t)
  PROVE  Audited \subseteq Audited' /\ Cancelled \subseteq Cancelled'
<1> DEFINE c == call[t]
<1>1. c.key \in Keys /\ events \in [Keys -> Seq(Event)]
  BY DEF TypeOK, Call
<1>2. CASE AppendEvent(t)
  <2> DEFINE e == [phase |-> c.phase, by |-> c.by]
  <2>1. events' = [events EXCEPT ![c.key] = Append(@, e)] /\ trail' = trail
    BY <1>2 DEF AppendEvent
  <2>2. ASSUME NEW k \in Keys, NEW i \in DOMAIN events[k]
        PROVE  i \in DOMAIN events'[k] /\ events'[k][i] = events[k][i]
    <3> HIDE DEF e
    <3>1. events[k] \in Seq(Event)
      BY <1>1
    <3>2. CASE k = c.key
      <4>1. events'[k] = Append(events[k], e)
        BY <1>1, <2>1, <3>2
      <4>2. QED  BY <3>1, <4>1, <2>2
    <3>3. CASE k # c.key
      BY <1>1, <2>1, <2>2, <3>3
    <3>4. QED  BY <3>2, <3>3
  <2>3. QED  BY <2>1, <2>2 DEF Audited, Cancelled, Withdrawn
<1>3. CASE HaltRefuses(t) \/ AuditWritten(t)
  <2>1. events' = events /\ \A k \in Keys : trail[k] \subseteq trail'[k]
    <3>1. trail \in [Keys -> SUBSET (Phases \cup {"halt"})] /\ events' = events
      BY <1>3 DEF HaltRefuses, AuditWritten, TypeOK
    <3>2. \/ trail' = trail
          \/ trail' = [trail EXCEPT ![c.key] = @ \cup {"halt"}]
          \/ trail' = [trail EXCEPT ![c.key] = @ \cup {c.phase}]
      BY <1>3 DEF HaltRefuses, AuditWritten
    <3>3. QED  BY <1>1, <3>1, <3>2
  <2>2. QED  BY <2>1 DEF Audited, Cancelled, Withdrawn
<1>4. CASE ~(AppendEvent(t) \/ HaltRefuses(t) \/ AuditWritten(t))
  <2>1. UNCHANGED <<trail, events>>
    BY <1>4 DEF Step, CheckSubmit, CheckApprove, CheckExecute, LookUp, Create, Save,
       SaveRaises, Number, AppendRaises, AuditLost, Gate, RunHandler, Local
  <2>2. QED  BY <2>1 DEF Audited, Cancelled, Withdrawn
<1>5. QED  BY <1>2, <1>3, <1>4

\* What closing a call needs stays there as trail and events grow.
LEMMA ClosingMonotone ==
  ASSUME NEW A, NEW W, NEW B, NEW X, A \subseteq B, W \subseteq X, NEW c, ClosingCall(c, A, W)
  PROVE  ClosingCall(c, B, X)
BY DEF ClosingCall

\* Entering a phase other than the two that close, and raising.
LEMMA ClosingInPhase ==
  ASSUME NEW c \in Call, NEW A, NEW W, ClosingCall(c, A, W), NEW p,
         p = "close" => c.key \in A, p = "withdraw" => c.key \in W
  PROVE  ClosingCall(InPhase(c, p), A, W)
BY InPhaseFields DEF ClosingCall

\* An idle call closes nothing.
LEMMA IdleClosing == \A A, W : ClosingCall(Idle, A, W)
BY DEF ClosingCall, Idle, NoRow

\* A call that raises closes nothing it could not close before.
LEMMA RaisedClosing ==
  ASSUME NEW c \in Call, NEW A, NEW W, ClosingCall(c, A, W)
  PROVE  ClosingCall(Raised(c), A, W)
BY ClosingInPhase, IdleClosing DEF Raised

\* A phase that is over leads to a close with its record, or to no close.
LEMMA ContinueClosing ==
  ASSUME NEW c \in Call, NEW A, NEW W, ClosingCall(c, A, W),
         c.phase = "succeed" => c.key \in A, c.phase = "cancel" => c.key \in W
  PROVE  ClosingCall(Continue(c), A, W)
<1>1. CASE c.phase \in DOMAIN Following
  <2>1. /\ Following[c.phase] = "close" => c.phase = "succeed"
        /\ Following[c.phase] = "withdraw" => c.phase = "cancel"
    BY <1>1, PhaseTables DEF Following
  <2>2. QED  BY <1>1, <2>1, ClosingInPhase DEF Continue
<1>2. CASE c.phase \notin DOMAIN Following
  <2>1. ClosingCall([c EXCEPT !.point = "gate"], A, W)
    BY DEF ClosingCall, Call
  <2>2. ClosingCall([c EXCEPT !.point = "run", !.guard = "none"], A, W)
    BY DEF ClosingCall, Call
  <2>3. QED  BY <1>2, <2>1, <2>2, ClosingInPhase, IdleClosing DEF Continue, AfterRetry
<1>3. QED  BY <1>1, <1>2

\* Only the two closing phases store a closed row that was not closed in the copy.
LEMMA SavedClosing ==
  ASSUME NEW c \in Call, NEW A, NEW W, ClosingCall(c, A, W), Saved(c).state = "closed"
  PROVE  c.key \in A \cup W
<1>1. c.phase \in Phases /\ c.row \in Row
  BY DEF Call
<1>2. Saved(c).state = IF c.phase = "retry" THEN c.row.state ELSE Target[c.phase]
  BY <1>1 DEF Saved, Row
<1>3. Target[c.phase] = "closed" => c.phase \in {"close", "withdraw"}
  BY <1>1, PhaseTables DEF Target
<1>4. QED  BY <1>2, <1>3 DEF ClosingCall

\* The frame of a step of one call.
LEMMA ClosedFrame ==
  ASSUME ClosedInv, TypeOK', NEW t \in Threads, Step(t),
         ClosingCall(call'[t], Audited', Cancelled'),
         \A k \in Keys : row'[k] = row[k] \/ row'[k].state # "closed"
                         \/ k \in Audited' \cup Cancelled'
  PROVE  ClosedInv'
<1>1. Audited \subseteq Audited' /\ Cancelled \subseteq Cancelled'
  BY RecordsGrow DEF ClosedInv
<1>2. \A k \in Keys : row'[k].state = "closed" => k \in Audited' \cup Cancelled'
  BY <1>1 DEF ClosedInv
<1>3. ASSUME NEW u \in Threads PROVE ClosingCall(call'[u], Audited', Cancelled')
  <2>1. u # t => call'[u] = call[u]
    BY StepCall DEF ClosedInv, TypeOK
  <2>2. ClosingCall(call[u], Audited', Cancelled')
    BY <1>1, ClosingMonotone DEF ClosedInv
  <2>3. QED  BY <2>1, <2>2
<1>4. QED  BY <1>2, <1>3 DEF ClosedInv

\* Every store operation of a call keeps what closing rests on.
LEMMA ClosedStep ==
  ASSUME ClosedInv, TypeOK', NEW t \in Threads, Step(t)
  PROVE  ClosedInv'
<1> DEFINE c == call[t]
           A == Audited'
           W == Cancelled'
<1>1. /\ c \in Call /\ c.key \in Keys /\ c.phase \in Phases /\ c.row \in Row
      /\ call \in [Threads -> Call] /\ ClosingCall(c, A, W)
      /\ row \in [Keys -> Row]
  BY RecordsGrow, ClosingMonotone DEF ClosedInv, TypeOK, Call
<1>2. ASSUME NEW d, call' = [call EXCEPT ![t] = d], ClosingCall(d, A, W), row' = row
      PROVE  ClosedInv'
  BY <1>1, <1>2, ClosedFrame
<1>3. CASE HaltRefuses(t)
  BY <1>2, <1>3, IdleClosing DEF HaltRefuses
<1>4. CASE CheckSubmit(t) \/ CheckExecute(t)
  <2>1. \A pt \in {"lookup", "run"} : ClosingCall([c EXCEPT !.point = pt], A, W)
    BY <1>1 DEF ClosingCall, Call
  <2>2. \A p \in {"late", "nohandler"} : ClosingCall(InPhase(c, p), A, W)
    BY <1>1, ClosingInPhase
  <2>3. PICK d : Local(t, d) /\ ClosingCall(d, A, W)
    BY <1>4, <2>1, <2>2, IdleClosing DEF CheckSubmit, CheckExecute
  <2>4. QED  BY <1>2, <2>3 DEF Local
<1>5. CASE CheckApprove(t)
  <2>1. ClosingCall(InPhase(c, c.phase), A, W)
    BY <1>1, ClosingInPhase DEF ClosingCall
  <2>2. PICK d : Local(t, d) /\ ClosingCall(d, A, W)
    BY <1>5, <2>1, IdleClosing DEF CheckApprove
  <2>3. QED  BY <1>2, <2>2 DEF Local
<1>6. CASE LookUp(t)
  <2>1. \A p \in {"created", "refused"} :
          ClosingCall([c EXCEPT !.point = "create", !.phase = p], A, W)
    BY <1>1 DEF ClosingCall, Call
  <2>2. PICK d : Local(t, d) /\ ClosingCall(d, A, W)
    BY <1>6, <2>1, IdleClosing DEF LookUp
  <2>3. QED  BY <1>2, <2>2 DEF Local
<1>7. CASE Create(t)
  <2> DEFINE r == IF row[c.key].state = "none" THEN NewRow(c.key, Target[c.phase])
                  ELSE row[c.key]
             pt == IF c.phase = "refused" /\ row[c.key].state # "none"
                   THEN "audit" ELSE "number"
             d == [c EXCEPT !.row = r, !.left = 1, !.point = pt]
  <2>1. call' = [call EXCEPT ![t] = d] /\ row' = [row EXCEPT ![c.key] = r]
    BY <1>1, <1>7 DEF Create
  <2>2. Target[c.phase] = "closed" => c.key \in A \cup W
    BY <1>1, PhaseTables DEF Target, ClosingCall
  <2>3. row[c.key].state = "closed" => c.key \in A \cup W
    BY <1>1, RecordsGrow DEF ClosedInv
  <2>4. r.state = "closed" => c.key \in A \cup W
    BY <2>2, <2>3 DEF NewRow
  <2>5. ClosingCall(d, A, W)
    <3>1. c.phase = "cancel" => pt # "audit"
      OBVIOUS
    <3> HIDE DEF r, pt
    <3>2. QED  BY <1>1, <2>4, <3>1 DEF ClosingCall, Call
  <2>6. QED
    <3> HIDE DEF r, d
    <3> QED  BY <1>1, <2>1, <2>4, <2>5, ClosedFrame
<1>8. CASE Save(t)
  <2> DEFINE r == Saved(c)
             n == IF c.phase \in TwoEvents THEN 2 ELSE 1
             d == [c EXCEPT !.row = r, !.point = "number", !.left = n]
  <2>1. call' = [call EXCEPT ![t] = d] /\ row' = [row EXCEPT ![c.key] = r]
    BY <1>1, <1>8 DEF Save
  <2>2. r.state = "closed" => c.key \in A \cup W
    BY <1>1, SavedClosing
  <2>3. ClosingCall(d, A, W)
    <3> HIDE DEF r, n
    <3> QED  BY <1>1, <2>2 DEF ClosingCall, Call
  <2>4. QED
    <3> HIDE DEF r, d
    <3> QED  BY <1>1, <2>1, <2>2, <2>3, ClosedFrame
<1>9. CASE SaveRaises(t) \/ AppendRaises(t)
  <2>1. ClosingCall(Raised(c), A, W)
    BY <1>1, RaisedClosing
  <2>2. QED  BY <1>2, <1>9, <2>1 DEF SaveRaises, AppendRaises, Local
<1>10. CASE Number(t)
  <2> DEFINE n == Len(events[c.key]) + 1
             d == [c EXCEPT !.seq = n, !.point = "append"]
  <2>1. Local(t, d)
    BY <1>10 DEF Number
  <2>2. ClosingCall(d, A, W)
    <3> HIDE DEF n
    <3> QED  BY <1>1 DEF ClosingCall, Call
  <2>3. QED
    <3> HIDE DEF d
    <3> QED  BY <1>2, <2>1, <2>2 DEF Local
<1>11. CASE AppendEvent(t)
  <2> DEFINE l == c.left - 1
             e == [phase |-> c.phase, by |-> c.by]
  <2>1. c.phase = "cancel" => c.key \in W
    <3>1. events' = [events EXCEPT ![c.key] = Append(@, e)] /\ events[c.key] \in Seq(Event)
      BY <1>1, <1>11 DEF AppendEvent, ClosedInv, TypeOK
    <3> DEFINE m == Len(events[c.key]) + 1
    <3>2. events'[c.key] = Append(events[c.key], e)
      BY <1>1, <3>1 DEF ClosedInv, TypeOK
    <3>3. m \in DOMAIN events'[c.key] /\ events'[c.key][m] = e
      <4> HIDE DEF e
      <4> QED  BY <3>1, <3>2
    <3>4. c.phase = "cancel" => \E i \in DOMAIN events'[c.key] : events'[c.key][i].phase = "cancel"
      BY <3>3
    <3>5. QED  BY <1>1, <3>4 DEF Cancelled, Withdrawn
  <2>2. c.left > 1 => ClosingCall([c EXCEPT !.point = "number", !.left = l], A, W)
    <3> HIDE DEF l
    <3> QED  BY <1>1 DEF ClosingCall, Call
  <2>3. c.phase \in Unaudited => ClosingCall(Continue(c), A, W)
    BY <1>1, <2>1, ContinueClosing DEF Unaudited
  <2>4. c.phase \notin Unaudited => ClosingCall([c EXCEPT !.point = "audit", !.left = 0], A, W)
    BY <1>1 DEF ClosingCall, Call, Unaudited
  <2>5. ClosingCall(Logged(c), A, W)
    BY <2>2, <2>3, <2>4 DEF Logged
  <2>6. QED  BY <1>2, <1>11, <2>5 DEF AppendEvent
<1>12. CASE AuditWritten(t)
  <2>1. c.phase = "succeed" => c.key \in A
    BY <1>1, <1>12 DEF AuditWritten, Audited, ClosedInv, TypeOK
  <2>2. c.phase # "cancel"
    BY <1>1, <1>12 DEF AuditWritten, ClosingCall
  <2>3. ClosingCall(Continue(c), A, W)
    BY <1>1, <2>1, <2>2, ContinueClosing
  <2>4. QED  BY <1>2, <1>12, <2>3 DEF AuditWritten
<1>13. CASE AuditLost(t)
  <2>1. c.phase # "cancel" /\ "succeed" \in Consequential
    BY <1>1, <1>13 DEF AuditLost, ClosingCall, Consequential
  <2>2. c.phase \notin Consequential => ClosingCall(Continue(c), A, W)
    BY <1>1, <2>1, ContinueClosing
  <2>3. ClosingCall(InPhase(c, "failclosed"), A, W)
    BY <1>1, ClosingInPhase
  <2>4. QED  BY <1>2, <1>13, <2>2, <2>3 DEF AuditLost
<1>14. CASE Gate(t)
  <2>1. Verdict(c) \in {"gatefail", "hold", "late", "go"}
    BY <1>1, VerdictTyped
  <2>2. ClosingCall(InPhase(c, Verdict(c)), A, W)
    BY <1>1, <2>1, ClosingInPhase
  <2>3. PICK d : Local(t, d) /\ ClosingCall(d, A, W)
    BY <1>14, <2>2, IdleClosing DEF Gate
  <2>4. QED  BY <1>2, <2>3 DEF Local
<1>15. CASE RunHandler(t)
  <2> DEFINE n == c.attempt + 1
             d == [c EXCEPT !.attempt = n]
             e == [d EXCEPT !.row = [c.row EXCEPT !.out = TRUE]]
  <2>1. d \in Call /\ e \in Call /\ ClosingCall(d, A, W) /\ ClosingCall(e, A, W)
    <3>1. n \in Nat
      BY <1>1 DEF Call
    <3>2. [c.row EXCEPT !.out = TRUE] \in Row /\ [c.row EXCEPT !.out = TRUE].state = c.row.state
      BY <1>1 DEF Row
    <3> HIDE DEF n
    <3>3. d \in Call /\ ClosingCall(d, A, W) /\ d.key = c.key /\ d.phase = c.phase
          /\ d.point = c.point
      BY <1>1, <3>1 DEF ClosingCall, Call
    <3>4. e \in Call /\ e.key = d.key /\ e.phase = d.phase /\ e.point = d.point
          /\ e.row = [c.row EXCEPT !.out = TRUE]
      <4> HIDE DEF d
      <4> QED  BY <3>2, <3>3 DEF Call
    <3>5. QED
      <4> HIDE DEF d, e
      <4> QED  BY <1>1, <3>2, <3>3, <3>4 DEF ClosingCall
  <2>2. \/ call' = [call EXCEPT ![t] = InPhase(e, "succeed")]
        \/ call' = [call EXCEPT ![t] = InPhase(d, "retry")]
    BY <1>1, <1>15 DEF RunHandler, Call
  <2>3. ClosingCall(InPhase(e, "succeed"), A, W) /\ ClosingCall(InPhase(d, "retry"), A, W)
    <3> HIDE DEF d, e
    <3> QED  BY <2>1, ClosingInPhase
  <2>4. row' = row
    BY <1>15 DEF RunHandler
  <2>5. QED
    <3> HIDE DEF d, e
    <3> QED  BY <1>2, <2>2, <2>3, <2>4
<1>16. QED
  BY <1>3, <1>4, <1>5, <1>6, <1>7, <1>8, <1>9, <1>10, <1>11, <1>12, <1>13, <1>14,
     <1>15 DEF Step

\* So does a call that begins.
LEMMA ClosedInvocation ==
  ASSUME ClosedInv, TypeOK', NEW t \in Threads, Invocation(t)
  PROVE  ClosedInv'
<1>1. ASSUME NEW d, Begin(t, d), ClosingCall(d, Audited, Cancelled) PROVE ClosedInv'
  <2>1. UNCHANGED <<row, trail, events>>
    BY <1>1 DEF Begin
  <2>2. Audited' = Audited /\ Cancelled' = Cancelled
    BY <2>1 DEF Audited, Cancelled, Withdrawn
  <2>3. \A u \in Threads : call'[u] = IF u = t THEN d ELSE call[u]
    BY <1>1 DEF Begin, ClosedInv, TypeOK
  <2>4. QED  BY <1>1, <2>1, <2>2, <2>3 DEF ClosedInv
<1>2. ASSUME NEW op, NEW k \in Keys, NEW p \in {"created", "grant", "deny", "succeed", "cancel"},
             NEW pt \in {"check", "save"}, NEW r, NEW by,
             r.state = "closed" => k \in Audited \cup Cancelled
      PROVE  ClosingCall(Invoke(op, k, p, pt, r, by), Audited, Cancelled)
  BY <1>2 DEF Invoke, Idle, ClosingCall
<1>3. /\ NoRow.state # "closed"
      /\ \A k \in Keys : row[k].state = "closed" => k \in Audited \cup Cancelled
  BY DEF NoRow, ClosedInv
<1>4. PICK k \in Keys :
        \/ CallSubmit(t, k)
        \/ \E a \in Approvers, decision \in {"grant", "deny"} : CallApprove(t, k, a, decision)
        \/ CallExecute(t, k)
        \/ CallCancel(t, k)
  BY DEF Invocation
<1>5. QED
  BY <1>1, <1>2, <1>3, <1>4 DEF CallSubmit, CallApprove, CallExecute, CallCancel

\* A copy that is closed ahead of its row was closed after the record of its success.
LEMMA FailureClosed ==
  ASSUME ClosedInv, TypeOK', NEW t \in Threads, StoreFails(t)
  PROVE  ClosedInv'
<1> DEFINE c == call[t]
           A == Audited
           W == Cancelled
<1>1. /\ c \in Call /\ Ahead(c) \in Call /\ ClosingCall(c, A, W) /\ TypeOK
      /\ UNCHANGED <<row, trail, events>>
  BY FailureMoves DEF ClosedInv
<1>2. Audited' = A /\ Cancelled' = W
  BY <1>1 DEF Audited, Cancelled, Withdrawn
<1>3. ClosingCall(InPhase(c, "retry"), A, W)
  BY <1>1, ClosingInPhase
<1>4. ClosingCall(InPhase(Ahead(c), "retry"), A, W)
  <2>1. /\ Ahead(c).key = c.key /\ Ahead(c).row = Saved(c) /\ Ahead(c).phase = c.phase
        /\ Ahead(c).point = c.point
    BY <1>1 DEF Ahead, Call
  <2>2. Saved(c).state = "closed" => c.key \in A \cup W
    BY <1>1, SavedClosing
  <2>3. ClosingCall(Ahead(c), A, W)
    BY <1>1, <2>1, <2>2 DEF ClosingCall
  <2>4. QED  BY <1>1, <2>3, ClosingInPhase
<1>5. ASSUME NEW u \in Threads PROVE ClosingCall(call'[u], A, W)
  <2>1. call'[u] \in {call[u], Idle} \/ call'[u] = InPhase(c, "retry")
          \/ call'[u] = InPhase(Ahead(c), "retry")
    <3>1. call \in [Threads -> Call]
      BY <1>1 DEF TypeOK
    <3>2. \/ call' = [call EXCEPT ![t] = Idle]
          \/ call' = [call EXCEPT ![t] = InPhase(c, "retry")]
          \/ call' = [call EXCEPT ![t] = InPhase(Ahead(c), "retry")]
      BY <1>1, FailureMoves
    <3>3. QED  BY <3>1, <3>2
  <2>2. QED  BY <1>3, <1>4, <2>1, IdleClosing DEF ClosedInv
<1>6. QED  BY <1>1, <1>2, <1>5 DEF ClosedInv

\* A close follows the audit record of the success, or the logged cancellation.
THEOREM ClosedHolds == Spec => []ClosedInv
<1>1. ASSUME ClosedInv, TypeOK', [Next]_vars
      PROVE  ClosedInv'
  <2>1. ASSUME NEW t \in Threads, Die(t) PROVE ClosedInv'
    <3>1. UNCHANGED <<row, trail, events>> /\ Audited' = Audited /\ Cancelled' = Cancelled
      BY <2>1 DEF Die, Audited, Cancelled, Withdrawn
    <3>2. \A u \in Threads : call'[u] = call[u] \/ call'[u] = Idle
      BY <2>1 DEF Die, ClosedInv, TypeOK
    <3>3. QED  BY <1>1, <3>1, <3>2, IdleClosing DEF ClosedInv
  <2>4. ASSUME NEW t \in Threads, StoreFails(t) PROVE ClosedInv'
    BY <1>1, <2>4, FailureClosed
  <2>2. CASE (\E k \in Keys : Expire(k)) \/ Engage \/ Release \/ UNCHANGED vars
    <3>1. UNCHANGED <<row, trail, events, call>>
      BY <2>2 DEF Expire, Engage, Release, vars
    <3>2. QED  BY <1>1, <3>1 DEF ClosedInv, Audited, Cancelled, Withdrawn
  <2>3. QED  BY <1>1, <2>1, <2>2, <2>4, ClosedInvocation, ClosedStep DEF Next
<1>2. QED  BY <1>1, ClosedInit, TypeCorrect, PTL DEF Spec

\* execute closes no workflow whose handler_succeeded record was lost, and cancel
\* none before its cancellation is logged, although another call may replace the
\* row of an execution by one that was never executed (Engine.submit's except).
THEOREM CompletionsAudited == Spec => []NoUnauditedCompletion
<1>1. ClosedInv => NoUnauditedCompletion
  BY DEF ClosedInv, NoUnauditedCompletion, Audited, Cancelled
<1>2. QED  BY <1>1, ClosedHolds, PTL

-------------------------------------------------------------------------------
(* What encloses a call.  Only an execution is in an attempt, from the result *)
(* of the handler on, with a copy that has the result.                        *)

Guarded(c) ==
  /\ c.guard = "attempt" => /\ c.op = "execute" /\ c.row.out
                            /\ c.phase \in {"succeed", "close", "failclosed"}
                            /\ c.point \in {"save", "number", "append", "audit"}
  /\ c.guard = "validation" => c.op # "execute"
  /\ c.phase \in {"created", "refused", "validate"} => c.op # "execute"
  /\ c.point \in {"lookup", "create", "gate"} => c.op # "execute"
  /\ c.point = "run" \/ c.phase = "retry" => c.op = "execute"
  /\ c.phase = "succeed" /\ c.point \in {"save", "number", "append", "audit"} =>
       c.guard = "attempt"

\* The inductive invariant.
GuardInv == \A t \in Threads : Guarded(call[t])

\* An idle call is outside every try block.
LEMMA IdleGuarded == Guarded(Idle)
BY DEF Guarded, Idle

\* All calls are idle initially.
LEMMA GuardInit == Init => GuardInv
BY IdleGuarded DEF Init, GuardInv

\* A call enters the attempt's clause with its result, or keeps it to fail closed.
LEMMA InPhaseGuarded ==
  ASSUME NEW c \in Call, NEW p, Guarded(c),
         p \in {"succeed", "close"} => c.op = "execute" /\ c.row.out,
         p \in {"validate", "created", "refused"} => c.op # "execute",
         p = "retry" => c.op = "execute"
  PROVE  Guarded(InPhase(c, p))
<1> DEFINE d == InPhase(c, p)
<1>1. /\ d.op = c.op /\ d.row = c.row /\ d.phase = p /\ d.point = "save"
      /\ d.guard = IF p \in {"succeed", "close"} THEN "attempt"
                   ELSE IF p = "validate" THEN "validation"
                   ELSE IF p = "failclosed" THEN c.guard ELSE "none"
  BY InPhaseFields
<1> HIDE DEF d
<1>2. d.guard = "attempt" => /\ d.op = "execute" /\ d.row.out
                             /\ d.phase \in {"succeed", "close", "failclosed"}
                             /\ d.point \in {"save", "number", "append", "audit"}
  <2>1. CASE p \in {"succeed", "close"}
    BY <1>1, <2>1
  <2>2. CASE p = "failclosed"
    BY <1>1, <2>2 DEF Guarded
  <2>3. CASE p \notin {"succeed", "close", "failclosed"}
    BY <1>1, <2>3
  <2>4. QED  BY <2>1, <2>2, <2>3
<1>3. d.guard = "validation" => d.op # "execute"
  BY <1>1 DEF Guarded
<1>4. d.phase = "succeed" => d.guard = "attempt"
  BY <1>1
<1>5. Guarded(d)
  BY <1>1, <1>2, <1>3, <1>4 DEF Guarded
<1>6. QED  BY <1>5 DEF d

\* Raising leaves the try block the call was in.
LEMMA RaisedGuarded ==
  ASSUME NEW c \in Call, Guarded(c)
  PROVE  Guarded(Raised(c))
<1>1. c.guard = "validation" => Guarded(InPhase(c, "invalid"))
  BY InPhaseGuarded
<1>2. c.guard = "attempt" => Guarded(InPhase(c, "retry"))
  <2>1. c.guard = "attempt" => c.op = "execute"
    BY DEF Guarded
  <2>2. QED  BY <2>1, InPhaseGuarded
<1>3. QED  BY <1>1, <1>2, IdleGuarded DEF Raised

\* Only a success goes on to close, and only a refused attempt to another.
LEMMA ContinueGuarded ==
  ASSUME NEW c \in Call, Guarded(c), c.point \in {"append", "audit"}
  PROVE  Guarded(Continue(c))
<1>1. CASE c.phase \in DOMAIN Following
  <2> DEFINE p == Following[c.phase]
  <2>1. /\ p \in {"validate", "isolate", "go", "close", "exhaust", "withdraw"}
        /\ p = "validate" => c.phase = "created"
        /\ p = "close" => c.phase = "succeed"
    BY <1>1, PhaseTables DEF Following
  <2>2. Continue(c) = InPhase(c, p)
    BY <1>1 DEF Continue
  <2>3. p = "validate" => c.op # "execute"
    BY <2>1 DEF Guarded
  <2>4. p = "close" => c.op = "execute" /\ c.row.out
    BY <2>1 DEF Guarded
  <2> HIDE DEF p
  <2>5. QED  BY <2>1, <2>2, <2>3, <2>4, InPhaseGuarded
<1>2. CASE c.phase = "validate"
  <2> DEFINE d == [c EXCEPT !.point = "gate"]
  <2>1. /\ d.op = c.op /\ d.row = c.row /\ d.phase = c.phase /\ d.point = "gate"
        /\ d.guard = c.guard
    BY DEF Call
  <2>2. Continue(c) = d
    BY <1>2, PhaseTables DEF Continue
  <2> HIDE DEF d
  <2>3. Guarded(d)
    BY <1>2, <2>1 DEF Guarded
  <2>4. QED  BY <2>2, <2>3
<1>3. CASE c.phase = "retry"
  <2> DEFINE d == [c EXCEPT !.point = "run", !.guard = "none"]
  <2>1. c.op = "execute"
    BY <1>3 DEF Guarded
  <2>2. /\ d.op = "execute" /\ d.phase = "retry" /\ d.point = "run" /\ d.guard = "none"
    BY <1>3, <2>1 DEF Call
  <2>3. Guarded(d)
    <3> HIDE DEF d
    <3> QED  BY <2>2 DEF Guarded
  <2>4. Guarded(InPhase(c, "fail"))
    BY InPhaseGuarded
  <2>5. Continue(c) = InPhase(c, "fail") \/ Continue(c) = d
    BY <1>3, PhaseTables DEF Continue, AfterRetry
  <2> HIDE DEF d
  <2>6. QED  BY <2>3, <2>4, <2>5
<1>4. CASE c.phase \notin DOMAIN Following \cup {"validate", "retry"}
  BY <1>4, IdleGuarded DEF Continue
<1>5. QED  BY <1>1, <1>2, <1>3, <1>4

\* Every store operation keeps a call in the try block of its phase.
LEMMA GuardStep ==
  ASSUME ClearanceInv, GuardInv, NEW t \in Threads, Step(t)
  PROVE  GuardInv'
<1> DEFINE c == call[t]
<1>1. /\ c \in Call /\ c.phase \in Phases /\ c.row \in Row /\ call \in [Threads -> Call]
      /\ Guarded(c) /\ CallClear(c, Grants)
  BY DEF ClearanceInv, TypeOK, Call, GuardInv
<1>2. ASSUME NEW d, call' = [call EXCEPT ![t] = d], Guarded(d)
      PROVE  GuardInv'
  BY <1>1, <1>2 DEF GuardInv
<1>3. ASSUME NEW d, Local(t, d), Guarded(d) PROVE GuardInv'
  BY <1>2, <1>3 DEF Local
<1>4. CASE HaltRefuses(t)
  BY <1>2, <1>4, IdleGuarded DEF HaltRefuses
<1>5. CASE CheckSubmit(t)
  <2> DEFINE d == [c EXCEPT !.point = "lookup"]
  <2>1. Local(t, d) /\ c.op = "submit" /\ c.point = "check" /\ c.phase = "created"
    BY <1>1, <1>5 DEF CheckSubmit, CallClear
  <2>2. d.op = "submit" /\ d.phase = c.phase /\ d.point = "lookup" /\ d.guard = c.guard
    BY <1>1, <2>1 DEF Call
  <2> HIDE DEF d
  <2>3. Guarded(d)
    BY <1>1, <2>1, <2>2 DEF Guarded
  <2>4. QED  BY <1>3, <2>1, <2>3
<1>6. CASE CheckApprove(t)
  <2>1. c.phase \in {"grant", "deny"}
    BY <1>1, <1>6 DEF CheckApprove, CallClear
  <2>2. Guarded(InPhase(c, c.phase))
    BY <1>1, <2>1, InPhaseGuarded
  <2>3. QED  BY <1>3, <1>6, <2>2, IdleGuarded DEF CheckApprove
<1>7. CASE CheckExecute(t)
  <2> DEFINE d == [c EXCEPT !.point = "run"]
  <2>1. c.op = "execute" /\ c.point = "check" /\ c.phase = "succeed"
    BY <1>1, <1>7 DEF CheckExecute, CallClear
  <2>2. d.op = "execute" /\ d.phase = "succeed" /\ d.point = "run" /\ d.guard = c.guard
    BY <1>1, <2>1 DEF Call
  <2>3. Guarded(d)
    <3> HIDE DEF d
    <3> QED  BY <1>1, <2>1, <2>2 DEF Guarded
  <2>4. Guarded(InPhase(c, "late")) /\ Guarded(InPhase(c, "nohandler"))
    BY <1>1, InPhaseGuarded
  <2>5. Local(t, Idle) \/ Local(t, InPhase(c, "late")) \/ Local(t, InPhase(c, "nohandler"))
          \/ Local(t, d)
    BY <1>7 DEF CheckExecute
  <2> HIDE DEF d
  <2>6. QED  BY <1>3, <2>3, <2>4, <2>5, IdleGuarded
<1>8. CASE LookUp(t)
  <2> DEFINE p == IF Request[c.key].admissible THEN "created" ELSE "refused"
             d == [c EXCEPT !.point = "create", !.phase = p]
  <2>1. c.point = "lookup" /\ c.phase = "created"
    BY <1>1, <1>8 DEF LookUp, CallClear
  <2>2. d.op = c.op /\ d.phase = p /\ d.point = "create" /\ d.guard = c.guard
    <3> HIDE DEF p
    <3> QED  BY <1>1 DEF Call
  <2>3. p \in {"created", "refused"}
    OBVIOUS
  <2>4. Local(t, Idle) \/ Local(t, d)
    BY <1>8 DEF LookUp
  <2> HIDE DEF p, d
  <2>5. Guarded(d)
    BY <1>1, <2>1, <2>2, <2>3 DEF Guarded
  <2>6. QED  BY <1>3, <2>4, <2>5, IdleGuarded
<1>9. CASE Create(t)
  <2> DEFINE s == IF row[c.key].state = "none" THEN NewRow(c.key, Target[c.phase])
                  ELSE row[c.key]
             pt == IF c.phase = "refused" /\ row[c.key].state # "none"
                   THEN "audit" ELSE "number"
             d == [c EXCEPT !.row = s, !.left = 1, !.point = pt]
  <2>1. c.point = "create" /\ c.phase \in {"created", "refused"}
    BY <1>1, <1>9 DEF Create, CallClear
  <2>2. call' = [call EXCEPT ![t] = d]
    BY <1>1, <1>9 DEF Create
  <2>3. pt \in {"audit", "number"}
    OBVIOUS
  <2>4. d.op = c.op /\ d.phase = c.phase /\ d.point = pt /\ d.guard = c.guard
    <3> HIDE DEF s, pt
    <3> QED  BY <1>1 DEF Call
  <2> HIDE DEF d, pt
  <2>5. Guarded(d)
    BY <1>1, <2>1, <2>3, <2>4 DEF Guarded
  <2>6. QED  BY <1>2, <2>2, <2>5
<1>10. CASE Save(t)
  <2> DEFINE s == Saved(c)
             m == IF c.phase \in TwoEvents THEN 2 ELSE 1
             d == [c EXCEPT !.row = s, !.point = "number", !.left = m]
  <2>1. s.out = c.row.out
    BY <1>1 DEF Saved, Row
  <2>2. call' = [call EXCEPT ![t] = d] /\ c.point = "save"
    BY <1>1, <1>10 DEF Save
  <2>3. d.op = c.op /\ d.phase = c.phase /\ d.point = "number" /\ d.guard = c.guard /\ d.row = s
    <3> HIDE DEF s, m
    <3> QED  BY <1>1 DEF Call
  <2> HIDE DEF d, s
  <2>4. Guarded(d)
    BY <1>1, <2>1, <2>2, <2>3 DEF Guarded
  <2>5. QED  BY <1>2, <2>2, <2>4
<1>11. CASE SaveRaises(t) \/ AppendRaises(t)
  BY <1>1, <1>3, <1>11, RaisedGuarded DEF SaveRaises, AppendRaises
<1>12. CASE Number(t)
  <2> DEFINE m == Len(events[c.key]) + 1
             d == [c EXCEPT !.seq = m, !.point = "append"]
  <2>1. Local(t, d) /\ c.point = "number"
    BY <1>12 DEF Number
  <2>2. /\ d.op = c.op /\ d.phase = c.phase /\ d.point = "append" /\ d.guard = c.guard
        /\ d.row = c.row
    <3> HIDE DEF m
    <3> QED  BY <1>1 DEF Call
  <2> HIDE DEF d
  <2>3. Guarded(d)
    BY <1>1, <2>1, <2>2 DEF Guarded
  <2>4. QED  BY <1>3, <2>1, <2>3
<1>13. CASE AppendEvent(t)
  <2> DEFINE l == c.left - 1
             d == [c EXCEPT !.point = "number", !.left = l]
             e == [c EXCEPT !.point = "audit", !.left = 0]
  <2>1. c.point = "append" /\ call' = [call EXCEPT ![t] = Logged(c)]
    BY <1>13 DEF AppendEvent
  <2>2. /\ d.op = c.op /\ d.phase = c.phase /\ d.point = "number" /\ d.guard = c.guard
        /\ d.row = c.row
    <3> HIDE DEF l
    <3> QED  BY <1>1 DEF Call
  <2>3. /\ e.op = c.op /\ e.phase = c.phase /\ e.point = "audit" /\ e.guard = c.guard
        /\ e.row = c.row
    BY <1>1 DEF Call
  <2>4. Guarded(d)
    <3> HIDE DEF d
    <3> QED  BY <1>1, <2>1, <2>2 DEF Guarded
  <2>5. Guarded(e)
    <3> HIDE DEF e
    <3> QED  BY <1>1, <2>1, <2>3 DEF Guarded
  <2>6. Guarded(Continue(c))
    BY <1>1, <2>1, ContinueGuarded
  <2>7. Logged(c) \in {d, e, Continue(c)}
    BY DEF Logged
  <2>8. QED
    <3> HIDE DEF d, e
    <3> QED  BY <1>2, <2>1, <2>4, <2>5, <2>6, <2>7
<1>14. CASE AuditWritten(t) \/ AuditLost(t)
  <2>1. Guarded(Continue(c))
    BY <1>1, <1>14, ContinueGuarded DEF AuditWritten, AuditLost
  <2>2. Guarded(InPhase(c, "failclosed"))
    BY <1>1, InPhaseGuarded
  <2>3. QED  BY <1>2, <1>14, <2>1, <2>2 DEF AuditWritten, AuditLost
<1>15. CASE Gate(t)
  <2>1. Verdict(c) \in {"gatefail", "hold", "late", "go"}
    BY <1>1, VerdictTyped
  <2>2. Guarded(InPhase(c, Verdict(c)))
    BY <1>1, <2>1, InPhaseGuarded
  <2>3. QED  BY <1>3, <1>15, <2>2, IdleGuarded DEF Gate
<1>16. CASE RunHandler(t)
  <2> DEFINE m == c.attempt + 1
             d == [c EXCEPT !.attempt = m]
             e == [d EXCEPT !.row = [c.row EXCEPT !.out = TRUE]]
  <2>1. c.point = "run" /\ c.op = "execute" /\ m \in Nat
    BY <1>1, <1>16 DEF RunHandler, Guarded, Call
  <2>2. /\ d \in Call /\ d.op = c.op /\ d.row = c.row /\ d.phase = c.phase
        /\ d.point = c.point /\ d.guard = c.guard
    <3> HIDE DEF m
    <3> QED  BY <1>1, <2>1 DEF Call
  <2>3. [c.row EXCEPT !.out = TRUE] \in Row /\ [c.row EXCEPT !.out = TRUE].out
    BY <1>1 DEF Row
  <2>4. /\ e \in Call /\ e.op = c.op /\ e.row.out /\ e.phase = c.phase
        /\ e.point = c.point /\ e.guard = c.guard
    <3> HIDE DEF d
    <3> QED  BY <2>2, <2>3 DEF Call
  <2>5. \/ call' = [call EXCEPT ![t] = InPhase(e, "succeed")]
        \/ call' = [call EXCEPT ![t] = InPhase(d, "retry")]
    BY <1>1, <1>16 DEF RunHandler, Call
  <2> HIDE DEF d, e
  <2>6. Guarded(d) /\ Guarded(e)
    BY <1>1, <2>1, <2>2, <2>4 DEF Guarded
  <2>7. Guarded(InPhase(e, "succeed")) /\ Guarded(InPhase(d, "retry"))
    BY <2>1, <2>2, <2>4, <2>6, InPhaseGuarded
  <2>8. QED  BY <1>2, <2>5, <2>7
<1>17. QED
  BY <1>4, <1>5, <1>6, <1>7, <1>8, <1>9, <1>10, <1>11, <1>12, <1>13, <1>14, <1>15,
     <1>16 DEF Step

\* A call that begins is in no clause, and one cut short leaves all of them.
LEMMA GuardNext ==
  ASSUME ClearanceInv, GuardInv, [Next]_vars
  PROVE  GuardInv'
<1>1. call \in [Threads -> Call]
  BY DEF ClearanceInv, TypeOK
<1>2. ASSUME NEW t \in Threads, NEW d, call' = [call EXCEPT ![t] = d], Guarded(d)
      PROVE  GuardInv'
  BY <1>1, <1>2 DEF GuardInv
<1>3. ASSUME NEW op, NEW k, NEW p, NEW pt \in {"check", "save"}, NEW r, NEW by,
             p = "succeed" => pt = "check", p # "retry",
             p \in {"created", "refused", "validate"} => op # "execute"
      PROVE  Guarded(Invoke(op, k, p, pt, r, by))
  <2> DEFINE d == Invoke(op, k, p, pt, r, by)
  <2>1. d.op = op /\ d.phase = p /\ d.point = pt /\ d.guard = "none"
    BY DEF Invoke, Idle
  <2> HIDE DEF d
  <2>2. Guarded(d)
    BY <1>3, <2>1 DEF Guarded
  <2>3. QED  BY <2>2 DEF d
<1>4. ASSUME NEW t \in Threads, Invocation(t) PROVE GuardInv'
  <2>1. ASSUME NEW op, NEW k, NEW p, NEW pt \in {"check", "save"}, NEW r, NEW by,
               p = "succeed" => pt = "check", p # "retry",
               p \in {"created", "refused", "validate"} => op # "execute",
               Begin(t, Invoke(op, k, p, pt, r, by))
        PROVE  GuardInv'
    BY <1>2, <1>3, <2>1 DEF Begin
  <2>2. ASSUME NEW k \in Keys, CallSubmit(t, k) PROVE GuardInv'
    BY <2>1, <2>2 DEF CallSubmit
  <2>3. ASSUME NEW k \in Keys, NEW a \in Approvers, NEW decision \in {"grant", "deny"},
               CallApprove(t, k, a, decision)
        PROVE  GuardInv'
    BY <2>1, <2>3 DEF CallApprove
  <2>4. ASSUME NEW k \in Keys, CallExecute(t, k) PROVE GuardInv'
    BY <2>1, <2>4 DEF CallExecute
  <2>5. ASSUME NEW k \in Keys, CallCancel(t, k) PROVE GuardInv'
    BY <2>1, <2>5 DEF CallCancel
  <2>6. QED  BY <1>4, <2>2, <2>3, <2>4, <2>5 DEF Invocation
<1>5. ASSUME NEW t \in Threads, Die(t) PROVE GuardInv'
  BY <1>2, <1>5, IdleGuarded DEF Die
<1>6. ASSUME NEW t \in Threads, StoreFails(t) PROVE GuardInv'
  <2> DEFINE c == call[t]
  <2>1. Guarded(c) /\ c \in Call /\ Saved(c) \in Row
    BY <1>1, SavedTyped DEF GuardInv
  <2>2. /\ Ahead(c) \in Call
        /\ \/ call' = [call EXCEPT ![t] = Idle]
           \/ call' = [call EXCEPT ![t] = InPhase(c, "retry")] /\ c.guard = "attempt"
           \/ call' = [call EXCEPT ![t] = InPhase(Ahead(c), "retry")] /\ c.guard = "attempt"
    BY <1>6, FailureMoves DEF ClearanceInv
  <2>3. c.guard = "attempt" => c.op = "execute"
    BY <2>1 DEF Guarded
  <2>4. c.guard = "attempt" => Guarded(InPhase(c, "retry"))
    BY <2>1, <2>3, InPhaseGuarded
  <2>5. Guarded(Ahead(c)) /\ Ahead(c).op = c.op
    <3>1. /\ Ahead(c).op = c.op /\ Ahead(c).phase = c.phase /\ Ahead(c).point = c.point
          /\ Ahead(c).guard = c.guard /\ Ahead(c).row = Saved(c)
      BY <2>1 DEF Ahead, Call
    <3>2. Saved(c).out = c.row.out
      BY <2>1 DEF Saved, Call, Row
    <3>3. QED  BY <2>1, <3>1, <3>2 DEF Guarded
  <2>6. c.guard = "attempt" => Guarded(InPhase(Ahead(c), "retry"))
    BY <2>2, <2>3, <2>5, InPhaseGuarded
  <2>7. QED  BY <1>2, <2>2, <2>4, <2>6, IdleGuarded
<1>7. CASE (\E k \in Keys : Expire(k)) \/ Engage \/ Release \/ UNCHANGED vars
  BY <1>7 DEF Expire, Engage, Release, vars, GuardInv
<1>8. QED  BY <1>4, <1>5, <1>6, <1>7, GuardStep DEF Next

\* An exception of the attempt loop is caught in an execution that has its result,
\* and nowhere else (the two try blocks of submit and execute).
THEOREM GuardHolds == Spec => []GuardInv
<1>1. ClearanceInv /\ GuardInv /\ [Next]_vars => GuardInv'
  BY GuardNext
<1>2. QED  BY <1>1, GuardInit, ClearanceHolds, PTL DEF Spec

-------------------------------------------------------------------------------
(***************************************************************************)
(* Callers who take turns: OneAtATime says that no call begins before the  *)
(* last one returned or died.  A single worker always satisfies it; calls  *)
(* still die, and store operations and audit writes still fail, anywhere.  *)
(* Then every workflow no call of which was cut short is left in order,    *)
(* executions are bounded, stored transitions are legal and GovernedWork   *)
(* is implemented; EngineDoubleExecution shows that callers who do not     *)
(* take turns lose at least the second.                                    *)
(*                                                                         *)
(* TurnInv says of a call under way that its private copy is the stored    *)
(* row (up to a result about to be saved) and that its phase belongs to    *)
(* the state of that row, which is what concurrent calls break; or that a  *)
(* failing store operation cut its attempt short after the handler had     *)
(* returned, and it goes on in the attempt loop with a copy past the end.  *)
(* Of a workflow no call of which was cut short it says what was counted,  *)
(* logged and executed so far, and that it is at rest between calls.       *)
(***************************************************************************)

\* The states after which a handler is not run again.
Over == {"succeeded", "failed", "compensated", "cancelled", "dead_letter", "closed"}

\* The states a phase finds the workflow in when callers take turns.
Source ==
  [ validate |-> {"proposed"},            gatefail |-> {"validated"},
    isolate  |-> {"failed"},              hold     |-> {"validated"},
    late     |-> {"validated", "executing"},
    go       |-> {"validated", "approved"},
    grant    |-> {"awaiting_approval"},   deny     |-> {"awaiting_approval"},
    nohandler |-> {"executing"},          succeed  |-> {"executing"},
    close    |-> {"succeeded"},           retry    |-> {"executing"},
    fail     |-> {"executing"},           exhaust  |-> {"failed"},
    cancel   |-> {"proposed", "validated", "awaiting_approval", "approved",
                  "executing", "failed"},
    withdraw |-> {"cancelled"},
    failclosed |-> {"proposed", "validated", "executing", "approved", "dead_letter",
                    "succeeded", "closed", "failed"} ]

\* The phases of an execution.
Executions == {"late", "nohandler", "succeed", "close", "retry", "fail", "exhaust",
               "failclosed"}

\* Of a stored row: a result comes from a run and is never worked on again, and the
\* approval flag is the requester's until the gate has spoken.
RowInTurn(k, r, n) ==
  /\ r.out => r.state \in Over /\ n > 0
  /\ r.state \in {"proposed", "validated"} => r.needs = Request[k].asks

\* Of a call: its copy is the stored row, except for a result it is about to save,
\* and its phase belongs to the state of that row.
InTurn(c, r, log, n) ==
  /\ c.point = "check" => c.attempt = 0 /\ (c.op # "submit" => c.row = r)
  /\ c.point = "create" => r.state = "none"
  /\ c.point = "save" =>
       /\ c.phase \in DOMAIN Source /\ r.state \in Source[c.phase]
       /\ c.row = IF c.phase = "succeed" THEN [r EXCEPT !.out = TRUE] ELSE r
       /\ c.phase = "succeed" => n > 0
       /\ c.phase = "hold" => EvaluateGate(Request[c.key]) = "hold"
       /\ c.phase = "go" /\ r.state = "validated" => EvaluateGate(Request[c.key]) = "go"
  /\ c.point \in {"number", "append", "audit"} => c.row = r /\ r.state = Target[c.phase]
  /\ c.point = "append" => c.seq = Len(log) + 1
  /\ c.point = "gate" => c.row = r /\ r.state = "validated" /\ c.phase = "validate"
  /\ c.point = "run" => c.row = r /\ r.state = "executing" /\ c.op = "execute"
  /\ c.phase \in {"succeed", "retry"} => c.op = "execute"
  /\ c.op = "execute" => c.phase \in Executions

\* The states an attempt is in that a failing store operation cuts short.
Ended == {"succeeded", "closed", "dead_letter"}

\* Of a call whose attempt was cut short: the handler has returned, the copy is past
\* execution, and the row follows the copy at the next save, if it has not yet.
CutShort(c, r, log, n) ==
  /\ c.op = "execute" /\ n > 0 /\ c.row.out /\ c.row.state \in Ended
  /\ \/ /\ c.point = "save" /\ c.phase = "retry"
        /\ r.out \/ r.state = "executing"
        /\ c.row.state \in {r.state, "dead_letter"} \/ IsValidTransition(r.state, c.row.state)
     \/ c.point = "save" /\ c.phase \in {"succeed", "fail"} /\ c.row = r
     \/ c.point \in {"number", "append", "audit"} /\ c.phase = "retry" /\ c.row = r
     \/ c.point = "run" /\ c.row = r
  /\ c.point = "append" => c.seq = Len(log) + 1

\* The log ends in the phase that wrote the stored state.
Matches(r, log) ==
  r.state # "none" => log # <<>> /\ Target[log[Len(log)].phase] = r.state

\* Runs within max_retries + 1, one result at most, and none without a run.
WithinBudget(n, w) == n <= MaxRetries + 1 /\ w <= 1 /\ (w > 0 => n > 0)

\* Of a workflow nobody is working on, until a call is cut short: it is settled, its
\* log says so, and it was not executed unless that is over.
Rested(k, r, log, n, w) ==
  /\ \/ r.state \in {"none", "awaiting_approval", "executing", "failed",
                     "dead_letter", "closed"}
     \/ r.state = "validated" /\ EvaluateGate(Request[k]) = "raise"
  /\ Matches(r, log)
  /\ WithinBudget(n, w)
  /\ n > 0 => r.state \in Over

\* Of a workflow a call works on, until a call is cut short.
Worked(c, r, log, n, w) ==
  IF c.point \in {"check", "lookup", "create"} THEN Rested(c.key, r, log, n, w)
  ELSE /\ c.point \notin {"number", "append"} => Matches(r, log)
       /\ WithinBudget(n, w)
       /\ IF c.op = "execute"
          THEN /\ n = c.attempt
               /\ c.point = "run" => n <= MaxRetries
               /\ w > 0 => c.phase \in {"succeed", "close", "failclosed"} /\ c.point # "run"
          ELSE n > 0 => r.state \in Over

\* A workflow no call works on.
Alone(k, r, log, n, w, lost) ==
  RowInTurn(k, r, n) /\ (lost = 0 => Rested(k, r, log, n, w))

\* A workflow and the call that works on it.
Attended(c, r, log, n, w, lost) ==
  /\ RowInTurn(c.key, r, n)
  /\ InTurn(c, r, log, n) \/ (lost > 0 /\ CutShort(c, r, log, n))
  /\ lost = 0 => Worked(c, r, log, n, w)

\* No call begins before the last one returned or died.
OneAtATime == \A t, u \in Threads : Busy(t) /\ Busy(u) => t = u

\* The inductive invariant.
TurnInv ==
  /\ \A k \in Keys : (\A t \in Threads : Busy(t) => call[t].key # k) =>
                       Alone(k, row[k], events[k], runs[k], wins[k], faults[k])
  /\ \A t \in Threads : Busy(t) =>
       LET k == call[t].key IN
       Attended(call[t], row[k], events[k], runs[k], wins[k], faults[k])
-------------------------------------------------------------------------------
\* The sources of a phase are states its transition is legal from, no phase leads
\* out of the states that are over, and a phase is entered in one of its sources.
LEMMA TurnTables ==
  /\ DOMAIN Source = Phases \ {"created", "refused", "invalid"}
  /\ \A p \in DOMAIN Source : \A s \in Source[p] :
       /\ p \in {"retry", "failclosed"} \/ IsValidTransition(s, Target[p])
       /\ s \in Over => Target[p] \in Over
  /\ \A p \in DOMAIN Following : Following[p] \in DOMAIN Source \ {"hold", "succeed", "failclosed"}
       /\ Target[p] \in Source[Following[p]]
  /\ \A p \in Consequential : p \in Phases /\ Target[p] \in Source["failclosed"]
<1>1. DOMAIN Source = Phases \ {"created", "refused", "invalid"}
  BY PhaseTables DEF Source
<1>2. ASSUME NEW p \in DOMAIN Source, NEW s \in Source[p]
      PROVE  /\ p \in {"retry", "failclosed"} \/ IsValidTransition(s, Target[p])
             /\ s \in Over => Target[p] \in Over
  <2>1. s \in Over => Target[p] \in Over
    BY <1>1, <1>2, PhaseTables DEF Source, Target, Over
  <2>2. s \in WorkflowState
    BY <1>1, <1>2, PhaseTables DEF Source, WorkflowState
  <2>3. p \in {"retry", "failclosed"} \/ Target[p] \in ValidTransitions[s]
    BY <1>1, <1>2, PhaseTables DEF Source, Target, ValidTransitions
  <2>4. QED  BY <2>1, <2>2, <2>3 DEF IsValidTransition
<1>3. ASSUME NEW p \in DOMAIN Following
      PROVE  Following[p] \in DOMAIN Source \ {"hold", "succeed", "failclosed"}
             /\ Target[p] \in Source[Following[p]]
  BY <1>1, PhaseTables DEF Following, Target, Source
<1>4. \A p \in Consequential : p \in Phases /\ Target[p] \in Source["failclosed"]
  BY PhaseTables DEF Consequential, Target, Source
<1>5. QED  BY <1>1, <1>2, <1>3, <1>4

\* A request that asks for approval is not let through by the gate.
LEMMA AskedIsHeld ==
  ASSUME NEW task, EvaluateGate(task) = "go"
  PROVE  ~task.asks
BY DEF EvaluateGate, NeedsHuman

\* Nobody has called yet.
LEMMA TurnInit == Init => TurnInv
<1> SUFFICES ASSUME Init PROVE TurnInv
  OBVIOUS
<1>1. \A t \in Threads : ~Busy(t)
  BY DEF Init, Busy, Idle
<1>2. ASSUME NEW k \in Keys PROVE Alone(k, row[k], events[k], runs[k], wins[k], faults[k])
  <2>1. row[k] = NoRow /\ events[k] = <<>> /\ runs[k] = 0 /\ wins[k] = 0
    BY DEF Init
  <2>2. MaxRetries \in Nat
    BY EngineAssumption
  <2>3. QED
    BY <2>1, <2>2 DEF Alone, RowInTurn, Rested, Matches, WithinBudget, NoRow
<1>3. QED  BY <1>1, <1>2 DEF TurnInv

\* A step of the one call under way: only its own workflow has to be looked at.
LEMMA TurnFrame ==
  ASSUME TypeOK, TypeOK', TurnInv, OneAtATime, NEW t \in Threads, Step(t), NEW d,
         call' = [call EXCEPT ![t] = d],
         LET k == call[t].key IN
         IF d.op = "none" THEN Alone(k, row'[k], events'[k], runs'[k], wins'[k], faults[k])
         ELSE d.key = k /\ Attended(d, row'[k], events'[k], runs'[k], wins'[k], faults[k])
  PROVE  TurnInv'
<1> DEFINE k == call[t].key
<1>1. /\ Busy(t) /\ k \in Keys /\ call \in [Threads -> Call] /\ faults' = faults
      /\ \A j \in Keys : j # k => /\ row'[j] = row[j] /\ events'[j] = events[j]
                                  /\ runs'[j] = runs[j] /\ wins'[j] = wins[j]
  <2>1. k \in Keys /\ call \in [Threads -> Call]
    BY DEF TypeOK, Call
  <2>2. QED  BY <2>1, StepElsewhere
<1>2. \A u \in Threads : u # t => ~Busy(u) /\ ~Busy(u)' /\ call'[u] = call[u]
  BY <1>1 DEF OneAtATime, Busy
<1>3. call'[t] = d
  BY <1>1
<1>4. ASSUME NEW j \in Keys, \A u \in Threads : Busy(u)' => call'[u].key # j
      PROVE  Alone(j, row'[j], events'[j], runs'[j], wins'[j], faults'[j])
  <2>1. CASE j = k
    <3>1. d.op = "none"
      BY <1>3, <1>4, <2>1 DEF Busy
    <3>2. QED  BY <1>1, <2>1, <3>1
  <2>2. CASE j # k
    BY <1>1, <1>2, <2>2 DEF TurnInv, Busy
  <2>3. QED  BY <2>1, <2>2
<1>5. ASSUME NEW u \in Threads, Busy(u)'
      PROVE  LET j == call'[u].key IN
             Attended(call'[u], row'[j], events'[j], runs'[j], wins'[j], faults'[j])
  <2>1. u = t /\ d.op # "none"
    BY <1>2, <1>3, <1>5 DEF Busy
  <2>2. QED  BY <1>1, <1>3, <2>1
<1>6. QED  BY <1>4, <1>5 DEF TurnInv, Busy

\* A call whose phase is over hands the workflow to its next phase, or leaves it at
\* rest.
LEMMA ContinueTurn ==
  ASSUME NEW c \in Call, NEW r \in Row, NEW log, NEW n \in Nat, NEW w \in Nat, NEW lost,
         RowInTurn(c.key, r, n), c.op # "none", c.row = r, r.state = Target[c.phase],
         c.phase \in {"succeed", "retry"} => c.op = "execute",
         c.op = "execute" => c.phase \in Executions,
         lost = 0 => /\ Matches(r, log) /\ WithinBudget(n, w)
                     /\ IF c.op = "execute"
                        THEN n = c.attempt
                             /\ (w > 0 => c.phase \in {"succeed", "close", "failclosed"})
                        ELSE n > 0 => r.state \in Over
  PROVE  IF Continue(c).op = "none" THEN Alone(c.key, r, log, n, w, lost)
         ELSE Attended(Continue(c), r, log, n, w, lost)
<1>1. c.phase \in Phases /\ c.attempt \in Nat /\ MaxRetries \in Nat
  BY EngineAssumption DEF Call
<1>2. CASE c.phase \in DOMAIN Following
  <2> DEFINE p == Following[c.phase]
             d == InPhase(c, p)
  <2>1. /\ p \in DOMAIN Source \ {"hold", "succeed", "failclosed"} /\ r.state \in Source[p]
    BY <1>2, TurnTables
  <2>2. Continue(c) = d /\ d.op = c.op
    BY <1>2, InPhaseFields DEF Continue
  <2>3. /\ p = "go" => c.phase = "grant"
        /\ p # "retry"
        /\ c.phase \in Executions => p \in {"close", "exhaust"}
        /\ p = "close" => c.phase = "succeed"
        /\ c.phase \notin Executions => p \notin Executions
        /\ c.phase = "succeed" => p = "close"
        /\ c.phase \notin {"close", "failclosed"}
    BY <1>2, PhaseTables DEF Following, Executions
  <2>4. p = "go" => r.state = "approved"
    BY <2>3 DEF Target
  <2>5. /\ d.key = c.key /\ d.row = r /\ d.phase = p /\ d.point = "save"
        /\ d.attempt = c.attempt /\ d.op = c.op
    BY InPhaseFields
  <2>6. InTurn(d, r, log, n)
    <3>1. c.op = "execute" => p \in Executions
      BY <2>3 DEF Executions
    <3> HIDE DEF p, d
    <3>2. QED  BY <2>1, <2>3, <2>4, <2>5, <3>1 DEF InTurn
  <2>7. lost = 0 => Worked(d, r, log, n, w)
    <3> HIDE DEF p, d
    <3>1. QED  BY <2>3, <2>5 DEF Worked, Executions
  <2>8. QED
    <3> HIDE DEF d
    <3> QED  BY <2>2, <2>5, <2>6, <2>7 DEF Attended
<1>3. CASE c.phase = "validate"
  <2> DEFINE d == [c EXCEPT !.point = "gate"]
  <2>1. Continue(c) = d
    BY <1>3, PhaseTables DEF Continue
  <2>2. /\ d.key = c.key /\ d.row = r /\ d.phase = "validate" /\ d.point = "gate"
        /\ d.attempt = c.attempt /\ d.op = c.op /\ c.op # "execute"
    BY <1>3 DEF Call, Executions
  <2>3. r.state = "validated"
    BY <1>3 DEF Target
  <2>4. QED
    <3> HIDE DEF d
    <3> QED  BY <2>1, <2>2, <2>3 DEF Attended, InTurn, Worked
<1>4. CASE c.phase = "retry"
  <2>1. Continue(c) = AfterRetry(c) /\ c.op = "execute" /\ r.state = "executing"
    BY <1>4, PhaseTables DEF Continue, Target
  <2>2. CASE c.attempt > MaxRetries
    <3> DEFINE d == InPhase(c, "fail")
    <3>1. Continue(c) = d
      BY <2>1, <2>2 DEF AfterRetry
    <3>2. /\ d.key = c.key /\ d.row = r /\ d.phase = "fail" /\ d.point = "save"
          /\ d.attempt = c.attempt /\ d.op = "execute"
      BY <2>1, InPhaseFields
    <3>3. "executing" \in Source["fail"] /\ "fail" \in DOMAIN Source
      BY DEF Source
    <3>4. QED
      <4> HIDE DEF d
      <4> QED  BY <1>4, <2>1, <3>1, <3>2, <3>3 DEF Attended, InTurn, Worked, Executions
  <2>3. CASE ~(c.attempt > MaxRetries)
    <3> DEFINE d == [c EXCEPT !.point = "run", !.guard = "none"]
    <3>1. Continue(c) = d /\ c.attempt <= MaxRetries
      BY <1>1, <2>1, <2>3 DEF AfterRetry
    <3>2. /\ d.key = c.key /\ d.row = r /\ d.phase = "retry" /\ d.point = "run"
          /\ d.attempt = c.attempt /\ d.op = "execute"
      BY <1>4, <2>1 DEF Call
    <3>3. lost = 0 => ~(w > 0)
      BY <1>4, <2>1
    <3>4. QED
      <4> HIDE DEF d
      <4> QED  BY <2>1, <3>1, <3>2, <3>3 DEF Attended, InTurn, Worked, Executions
  <2>4. QED  BY <2>2, <2>3
<1>5. CASE c.phase \notin DOMAIN Following \cup {"validate", "retry"}
  <2>1. Continue(c) = Idle /\ Idle.op = "none"
    BY <1>5 DEF Continue, Idle
  <2>2. c.phase \in {"refused", "invalid", "isolate", "hold", "late", "go", "deny", "nohandler",
                     "close", "exhaust", "withdraw", "failclosed"}
    BY <1>1, <1>5, PhaseTables
  <2>3. r.state \in {"awaiting_approval", "executing", "failed", "dead_letter", "closed"}
    BY <2>2 DEF Target
  <2>4. c.op = "execute" => r.state \in Over
    BY <2>2 DEF Target, Executions, Over
  <2>5. QED  BY <2>1, <2>3, <2>4 DEF Alone, Rested
<1>6. QED  BY <1>2, <1>3, <1>4, <1>5

\* A step of the one call under way, by its place and phase, until its attempt is
\* cut short.
LEMMA TurnStep ==
  ASSUME TypeOK, TypeOK', ClearanceInv, TurnInv, OneAtATime, NEW t \in Threads, Step(t),
         LET k == call[t].key IN InTurn(call[t], row[k], events[k], runs[k])
  PROVE  TurnInv'
<1> DEFINE c == call[t]
           k == c.key
           r == row[k]
           log == events[k]
           n == runs[k]
           w == wins[k]
           lost == faults[k]
<1>1. /\ c \in Call /\ k \in Keys /\ c.phase \in Phases /\ c.row \in Row /\ r \in Row
      /\ n \in Nat /\ w \in Nat /\ c.attempt \in Nat /\ MaxRetries \in Nat
      /\ log \in Seq(Event) /\ Idle.op = "none"
  BY EngineAssumption DEF TypeOK, Call, Idle
<1>2. /\ Busy(t) /\ c.op # "none" /\ faults' = faults
      /\ row \in [Keys -> Row] /\ events \in [Keys -> Seq(Event)]
      /\ runs \in [Keys -> Nat] /\ wins \in [Keys -> Nat] /\ call \in [Threads -> Call]
  BY StepElsewhere DEF Busy, TypeOK
<1>3. Attended(c, r, log, n, w, lost) /\ CallClear(c, Grants) /\ InTurn(c, r, log, n)
  BY <1>2 DEF TurnInv, ClearanceInv
<1>4. ASSUME NEW d, Local(t, d),
             IF d.op = "none" THEN Alone(k, r, log, n, w, lost)
             ELSE d.key = k /\ Attended(d, r, log, n, w, lost)
      PROVE  TurnInv'
  BY <1>2, <1>4, TurnFrame DEF Local
<1>5. CASE HaltRefuses(t)
  <2>1. Alone(k, r, log, n, w, lost)
    BY <1>3, <1>5 DEF HaltRefuses, Attended, Alone, Worked
  <2>2. call' = [call EXCEPT ![t] = Idle] /\ UNCHANGED <<row, events, runs, wins, faults>>
    BY <1>5 DEF HaltRefuses
  <2>3. QED  BY <1>1, <2>1, <2>2, TurnFrame
<1>6. CASE CheckSubmit(t)
  <2> DEFINE d == [c EXCEPT !.point = "lookup"]
  <2>1. Local(t, d) /\ c.op = "submit" /\ c.point = "check"
    BY <1>6 DEF CheckSubmit
  <2>2. /\ d.key = k /\ d.op = "submit" /\ d.point = "lookup" /\ d.phase = "created"
    BY <1>1, <1>3, <2>1 DEF Call, CallClear
  <2>3. Attended(d, r, log, n, w, lost)
    <3> HIDE DEF d
    <3> QED  BY <1>3, <2>1, <2>2 DEF Attended, InTurn, Worked
  <2>4. QED
    <3> HIDE DEF d
    <3> QED  BY <1>4, <2>1, <2>2, <2>3
<1>7. CASE CheckApprove(t)
  <2>1. /\ c.op = "approve" /\ c.point = "check" /\ c.phase \in {"grant", "deny"}
        /\ c.row = r /\ c.attempt = 0
    BY <1>3, <1>7 DEF CheckApprove, CallClear, Attended, InTurn
  <2>2. Alone(k, r, log, n, w, lost)
    BY <1>3, <2>1 DEF Attended, Alone, Worked
  <2> DEFINE d == InPhase(c, c.phase)
  <2>3. /\ d.key = k /\ d.op = "approve" /\ d.point = "save" /\ d.phase = c.phase
        /\ d.row = r
    BY <1>1, <2>1, InPhaseFields
  <2>4. c.phase \in DOMAIN Source /\ "awaiting_approval" \in Source[c.phase]
    BY <2>1 DEF Source
  <2>5. r.state = "awaiting_approval" => Attended(d, r, log, n, w, lost)
    <3> HIDE DEF d
    <3> QED  BY <1>3, <2>1, <2>2, <2>3, <2>4 DEF Attended, Alone, InTurn, Worked, Rested
  <2>6. Local(t, Idle) \/ (r.state = "awaiting_approval" /\ Local(t, d))
    BY <1>7, <2>1 DEF CheckApprove
  <2>7. QED
    <3> HIDE DEF d
    <3> QED  BY <1>1, <1>2, <1>4, <2>2, <2>3, <2>5, <2>6
<1>8. CASE CheckExecute(t)
  <2>1. /\ c.op = "execute" /\ c.point = "check" /\ c.phase = "succeed"
        /\ c.row = r /\ c.attempt = 0
    BY <1>3, <1>8 DEF CheckExecute, CallClear, Attended, InTurn
  <2>2. Alone(k, r, log, n, w, lost)
    BY <1>3, <2>1 DEF Attended, Alone, Worked
  <2> DEFINE d1 == InPhase(c, "late")
             d2 == InPhase(c, "nohandler")
             d3 == [c EXCEPT !.point = "run"]
  <2>3. /\ d1.key = k /\ d1.op = "execute" /\ d1.point = "save" /\ d1.phase = "late"
        /\ d1.row = r /\ d1.attempt = 0
        /\ d2.key = k /\ d2.op = "execute" /\ d2.point = "save" /\ d2.phase = "nohandler"
        /\ d2.row = r /\ d2.attempt = 0
    BY <1>1, <2>1, InPhaseFields
  <2>4. /\ d3.key = k /\ d3.op = "execute" /\ d3.point = "run" /\ d3.phase = "succeed"
        /\ d3.row = r /\ d3.attempt = 0
    BY <1>1, <2>1 DEF Call
  <2>5. /\ {"late", "nohandler"} \subseteq DOMAIN Source
        /\ "executing" \in Source["late"] /\ "executing" \in Source["nohandler"]
    BY DEF Source
  <2>6. lost = 0 /\ r.state = "executing" => n = 0 /\ w = 0 /\ Matches(r, log)
    BY <1>1, <2>2 DEF Alone, Rested, WithinBudget, Over
  <2>7. r.state = "executing" =>
          \A d \in {d1, d2, d3} : d.key = k /\ d.op = "execute" /\ Attended(d, r, log, n, w, lost)
    <3> HIDE DEF d1, d2, d3
    <3>1. ASSUME r.state = "executing", lost = 0, NEW d, d.op = "execute", d.attempt = 0,
                 d.point \in {"save", "run"}
          PROVE  Worked(d, r, log, n, w)
      BY <1>1, <2>6, <3>1 DEF Worked, WithinBudget
    <3>2. r.state = "executing" => \A d \in {d1, d2, d3} : InTurn(d, r, log, n)
      BY <2>3, <2>4, <2>5 DEF InTurn, Executions
    <3>3. QED  BY <1>3, <2>3, <2>4, <3>1, <3>2 DEF Attended
  <2>8. Local(t, Idle) \/ (r.state = "executing" /\ \E d \in {d1, d2, d3} : Local(t, d))
    BY <1>8, <2>1 DEF CheckExecute
  <2>9. QED
    <3> HIDE DEF d1, d2, d3
    <3> QED  BY <1>1, <1>4, <2>2, <2>7, <2>8
<1>9. CASE LookUp(t)
  <2> DEFINE p == IF Request[k].admissible THEN "created" ELSE "refused"
             d == [c EXCEPT !.point = "create", !.phase = p]
  <2>1. c.point = "lookup" /\ Alone(k, r, log, n, w, lost)
    BY <1>3, <1>9 DEF LookUp, Attended, Alone, Worked
  <2>2. Local(t, Idle) \/ (r.state = "none" /\ Local(t, d))
    BY <1>9 DEF LookUp
  <2>3. /\ d.key = k /\ d.op = c.op /\ d.point = "create" /\ d.phase = p
    <3> HIDE DEF p
    <3> QED  BY <1>1 DEF Call
  <2>4. c.op # "execute"
    BY <1>3, <2>1 DEF CallClear, Attended, InTurn, Executions
  <2>5. r.state = "none" => Attended(d, r, log, n, w, lost)
    <3> HIDE DEF d
    <3> QED  BY <2>1, <2>3, <2>4 DEF Attended, Alone, InTurn, Worked
  <2>6. QED
    <3> HIDE DEF d, p
    <3> QED  BY <1>1, <1>2, <1>4, <2>1, <2>2, <2>3, <2>5
<1>10. CASE Create(t)
  <2> DEFINE s == NewRow(k, Target[c.phase])
             d == [c EXCEPT !.row = s, !.left = 1, !.point = "number"]
  <2>1. c.point = "create" /\ r.state = "none" /\ c.phase \in {"created", "refused"}
    BY <1>3, <1>10 DEF Create, Attended, InTurn, CallClear
  <2>2. /\ row' = [row EXCEPT ![k] = s] /\ call' = [call EXCEPT ![t] = d]
        /\ UNCHANGED <<events, runs, wins>>
    BY <1>2, <1>10, <2>1 DEF Create
  <2>3. /\ s.state = Target[c.phase] /\ s.needs = Request[k].asks /\ s.out = FALSE
    BY DEF NewRow
  <2>4. /\ d.key = k /\ d.op = c.op /\ d.point = "number" /\ d.phase = c.phase /\ d.row = s
        /\ d.attempt = c.attempt
    <3> HIDE DEF s
    <3> QED  BY <1>1 DEF Call
  <2>5. c.op # "execute"
    BY <1>3, <2>1 DEF Attended, InTurn, Executions
  <2>6. lost = 0 => WithinBudget(n, w) /\ ~(n > 0)
    BY <1>3, <2>1 DEF Attended, Worked, Rested, Over
  <2>7. Attended(d, s, log, n, w, lost)
    <3> HIDE DEF d, s
    <3> QED  BY <2>1, <2>3, <2>4, <2>5, <2>6 DEF Attended, RowInTurn, InTurn, Worked
  <2>8. row'[k] = s /\ events'[k] = log /\ runs'[k] = n /\ wins'[k] = w
    <3> HIDE DEF s
    <3> QED  BY <1>1, <1>2, <2>2
  <2>9. QED
    <3> HIDE DEF d, s
    <3> QED  BY <1>2, <2>2, <2>4, <2>7, <2>8, TurnFrame
<1>11. CASE Save(t)
  <2> DEFINE s == Saved(c)
             m == IF c.phase \in TwoEvents THEN 2 ELSE 1
             d == [c EXCEPT !.row = s, !.point = "number", !.left = m]
  <2>1. /\ c.point = "save" /\ c.phase \in DOMAIN Source /\ r.state \in Source[c.phase]
        /\ c.row = IF c.phase = "succeed" THEN [r EXCEPT !.out = TRUE] ELSE r
        /\ c.phase = "succeed" => n > 0
        /\ c.phase \in {"succeed", "retry"} => c.op = "execute"
        /\ c.op = "execute" => c.phase \in Executions
    BY <1>3, <1>11 DEF Save, Attended, InTurn
  <2>2. row' = [row EXCEPT ![k] = s] /\ call' = [call EXCEPT ![t] = d]
        /\ UNCHANGED <<events, runs, wins>>
    BY <1>2, <1>11 DEF Save
  <2>3. /\ c.row.state = r.state /\ c.row.needs = r.needs
        /\ c.row.out => r.out \/ c.phase = "succeed"
    BY <1>1, <2>1 DEF Row
  <2>4. /\ s.state = IF c.phase = "retry" THEN r.state ELSE Target[c.phase]
        /\ s.out = c.row.out
        /\ s.needs = (r.needs \/ c.phase = "hold")
    <3>1. /\ s.state = IF c.phase = "retry" THEN c.row.state ELSE Target[c.phase]
          /\ s.out = c.row.out /\ s.needs = (c.row.needs \/ c.phase = "hold")
      BY <1>1 DEF Saved, Row
    <3>2. QED  BY <2>3, <3>1
  <2>5. s.state = Target[c.phase]
    <3>1. c.phase = "retry" => r.state = "executing" /\ Target[c.phase] = "executing"
      BY <2>1 DEF Source, Target
    <3>2. QED  BY <2>4, <3>1
  <2>6. /\ d.key = k /\ d.op = c.op /\ d.point = "number" /\ d.phase = c.phase /\ d.row = s
        /\ d.attempt = c.attempt
    <3> HIDE DEF s, m
    <3> QED  BY <1>1 DEF Call
  <2>7. r.state \in Over => s.state \in Over
    BY <2>1, <2>5, TurnTables
  <2>8. RowInTurn(k, s, n)
    <3>1. s.out => s.state \in Over /\ n > 0
      <4>1. CASE c.phase = "succeed"
        BY <2>1, <2>5, <4>1 DEF Target, Over
      <4>2. CASE c.phase # "succeed"
        BY <1>3, <2>3, <2>4, <2>7, <4>2 DEF Attended, RowInTurn
      <4>3. QED  BY <4>1, <4>2
    <3>2. s.state \in {"proposed", "validated"} => s.needs = Request[k].asks
      <4>1. ASSUME s.state \in {"proposed", "validated"}
            PROVE  c.phase = "validate" /\ r.state = "proposed"
        <5>1. c.phase = "validate"
          BY <1>1, <2>1, <2>5, <4>1, TurnTables, PhaseTables DEF Target
        <5>2. QED  BY <2>1, <5>1 DEF Source
      <4>2. c.phase # "hold" => s.needs = r.needs
        BY <1>1, <2>4 DEF Row
      <4>3. QED  BY <1>3, <4>1, <4>2 DEF Attended, RowInTurn
    <3>3. QED
      <4> HIDE DEF s
      <4> QED  BY <3>1, <3>2 DEF RowInTurn
  <2>9. lost = 0 => Worked(d, s, log, n, w)
    <3> HIDE DEF d, s
    <3> QED  BY <1>3, <2>1, <2>6, <2>7 DEF Attended, Worked
  <2>10. InTurn(d, s, log, n)
    <3> HIDE DEF d, s
    <3> QED  BY <2>1, <2>5, <2>6 DEF InTurn
  <2>11. row'[k] = s /\ events'[k] = log /\ runs'[k] = n /\ wins'[k] = w
    <3> HIDE DEF s
    <3> QED  BY <1>1, <1>2, <2>2
  <2>12. QED
    <3> HIDE DEF d, s
    <3>1. Attended(d, s, log, n, w, lost)
      BY <2>6, <2>8, <2>9, <2>10 DEF Attended
    <3>2. QED  BY <1>2, <2>2, <2>6, <2>11, <3>1, TurnFrame
<1>12. CASE SaveRaises(t)
  <2>1. /\ c.point = "save" /\ c.phase \in DOMAIN Source /\ r.state \in Source[c.phase]
        /\ c.row = IF c.phase = "succeed" THEN [r EXCEPT !.out = TRUE] ELSE r
    BY <1>3, <1>12 DEF SaveRaises, Attended, InTurn
  <2>2. c.row.state = r.state
    BY <1>1, <2>1 DEF Row
  <2>3. CanSave(c)
    BY <2>1, <2>2, TurnTables DEF CanSave, Assigned
  <2>4. QED  BY <1>12, <2>3 DEF SaveRaises
<1>13. CASE Number(t)
  <2> DEFINE m == Len(log) + 1
             d == [c EXCEPT !.seq = m, !.point = "append"]
  <2>1. Local(t, d) /\ c.point = "number"
    BY <1>13 DEF Number
  <2>2. /\ d.key = k /\ d.op = c.op /\ d.point = "append" /\ d.phase = c.phase
        /\ d.row = c.row /\ d.attempt = c.attempt /\ d.seq = m
    <3> HIDE DEF m
    <3> QED  BY <1>1 DEF Call
  <2>3. Attended(d, r, log, n, w, lost)
    <3> HIDE DEF d
    <3> QED  BY <1>3, <2>1, <2>2 DEF Attended, InTurn, Worked
  <2>4. QED
    <3> HIDE DEF d
    <3> QED  BY <1>2, <1>4, <2>1, <2>2, <2>3
<1>14. CASE AppendEvent(t)
  <2> DEFINE e == [phase |-> c.phase, by |-> c.by]
             new == Append(log, e)
             d == Logged(c)
  <2>1. /\ c.point = "append" /\ events' = [events EXCEPT ![k] = new]
        /\ call' = [call EXCEPT ![t] = d] /\ UNCHANGED <<row, runs, wins>>
    BY <1>2, <1>14 DEF AppendEvent
  <2>2. /\ c.row = r /\ r.state = Target[c.phase]
        /\ c.phase \in {"succeed", "retry"} => c.op = "execute"
        /\ c.op = "execute" => c.phase \in Executions
        /\ RowInTurn(k, r, n)
    BY <1>3, <2>1 DEF Attended, InTurn
  <2>3. Matches(r, new)
    <3>1. new \in Seq(Event) /\ Len(new) = Len(log) + 1 /\ new[Len(new)] = e
      <4>1. e \in Event
        BY <1>1 DEF Event, Call
      <4> HIDE DEF e
      <4>2. QED  BY <1>1, <4>1
    <3>2. new # <<>> /\ new[Len(new)].phase = c.phase
      <4>1. Len(log) \in Nat
        BY <1>1
      <4>2. new # <<>>
        <5> HIDE DEF e
        <5> QED  BY <1>1, <3>1, <4>1
      <4>3. QED  BY <3>1, <4>2
    <3> HIDE DEF new
    <3>3. QED  BY <2>2, <3>2 DEF Matches
  <2>4. lost = 0 => WithinBudget(n, w)
                     /\ IF c.op = "execute"
                        THEN n = c.attempt
                             /\ (w > 0 => c.phase \in {"succeed", "close", "failclosed"})
                        ELSE n > 0 => r.state \in Over
    BY <1>3, <2>1 DEF Attended, Worked
  <2>5. IF d.op = "none" THEN Alone(k, r, new, n, w, lost)
        ELSE d.key = k /\ Attended(d, r, new, n, w, lost)
    <3> HIDE DEF new
    <3>1. CASE c.left > 1
      <4> DEFINE l == c.left - 1
                 f == [c EXCEPT !.point = "number", !.left = l]
      <4>1. d = f
        BY <3>1 DEF Logged
      <4>2. /\ f.key = k /\ f.op = c.op /\ f.point = "number" /\ f.phase = c.phase
            /\ f.row = c.row /\ f.attempt = c.attempt
        <5> HIDE DEF l
        <5> QED  BY <1>1 DEF Call
      <4>3. Attended(f, r, new, n, w, lost)
        <5> HIDE DEF f
        <5> QED  BY <2>2, <2>3, <2>4, <4>2 DEF Attended, InTurn, Worked
      <4>4. QED
        <5> HIDE DEF f, d
        <5> QED  BY <1>2, <4>1, <4>2, <4>3
    <3>2. CASE ~(c.left > 1) /\ c.phase \in Unaudited
      <4>1. d = Continue(c)
        BY <3>2 DEF Logged
      <4>2. d = Idle \/ d.key = k
        BY <1>1, <1>2, <1>14, <2>1, StepCall
      <4>3. QED
        <5> HIDE DEF d
        <5> QED  BY <1>1, <1>2, <2>2, <2>3, <2>4, <4>1, <4>2, ContinueTurn
    <3>3. CASE ~(c.left > 1) /\ c.phase \notin Unaudited
      <4> DEFINE f == [c EXCEPT !.point = "audit", !.left = 0]
      <4>1. d = f
        BY <3>3 DEF Logged
      <4>2. /\ f.key = k /\ f.op = c.op /\ f.point = "audit" /\ f.phase = c.phase
            /\ f.row = c.row /\ f.attempt = c.attempt
        BY <1>1 DEF Call
      <4>3. Attended(f, r, new, n, w, lost)
        <5> HIDE DEF f
        <5> QED  BY <2>2, <2>3, <2>4, <4>2 DEF Attended, InTurn, Worked
      <4>4. QED
        <5> HIDE DEF f, d
        <5> QED  BY <1>2, <4>1, <4>2, <4>3
    <3>4. QED  BY <3>1, <3>2, <3>3
  <2>6. row'[k] = r /\ events'[k] = new /\ runs'[k] = n /\ wins'[k] = w
    <3> HIDE DEF new
    <3> QED  BY <1>1, <1>2, <2>1
  <2>7. QED
    <3> HIDE DEF d, new
    <3> QED  BY <1>2, <2>1, <2>5, <2>6, TurnFrame
<1>15. CASE AppendRaises(t)
  BY <1>3, <1>15 DEF AppendRaises, Attended, InTurn
<1>16. CASE AuditWritten(t) \/ AuditLost(t)
  <2>1. c.point = "audit" /\ UNCHANGED <<row, events, runs, wins>>
    BY <1>16 DEF AuditWritten, AuditLost
  <2>2. /\ c.row = r /\ r.state = Target[c.phase]
        /\ c.phase \in {"succeed", "retry"} => c.op = "execute"
        /\ c.op = "execute" => c.phase \in Executions
        /\ RowInTurn(k, r, n)
    BY <1>3, <2>1 DEF Attended, InTurn
  <2>3. lost = 0 => /\ Matches(r, log) /\ WithinBudget(n, w)
                     /\ IF c.op = "execute"
                        THEN n = c.attempt
                             /\ (w > 0 => c.phase \in {"succeed", "close", "failclosed"})
                        ELSE n > 0 => r.state \in Over
    BY <1>3, <2>1 DEF Attended, Worked
  <2>4. CASE call' = [call EXCEPT ![t] = Continue(c)]
    <3> DEFINE d == Continue(c)
    <3>1. d = Idle \/ d.key = k
      BY <1>1, <1>2, <2>4, StepCall
    <3>2. IF d.op = "none" THEN Alone(k, r, log, n, w, lost)
          ELSE Attended(d, r, log, n, w, lost)
      BY <1>1, <1>2, <2>2, <2>3, ContinueTurn
    <3>3. call' = [call EXCEPT ![t] = d] /\ row'[k] = r /\ events'[k] = log
          /\ runs'[k] = n /\ wins'[k] = w
      BY <2>1, <2>4
    <3>4. QED
      <4> HIDE DEF d
      <4> QED  BY <1>1, <1>2, <3>1, <3>2, <3>3, TurnFrame
  <2>5. CASE c.phase \in Consequential /\ call' = [call EXCEPT ![t] = InPhase(c, "failclosed")]
    <3> DEFINE d == InPhase(c, "failclosed")
    <3>1. /\ d.key = k /\ d.op = c.op /\ d.point = "save" /\ d.phase = "failclosed"
          /\ d.row = c.row /\ d.attempt = c.attempt
      BY <1>1, InPhaseFields
    <3>2. "failclosed" \in DOMAIN Source /\ r.state \in Source["failclosed"]
      BY <2>2, <2>5, TurnTables, PhaseTables
    <3>3. Attended(d, r, log, n, w, lost)
      <4> HIDE DEF d
      <4> QED  BY <2>2, <2>3, <3>1, <3>2 DEF Attended, InTurn, Worked, Executions
    <3>4. call' = [call EXCEPT ![t] = d] /\ row'[k] = r /\ events'[k] = log
          /\ runs'[k] = n /\ wins'[k] = w
      BY <2>1, <2>5
    <3>5. QED
      <4> HIDE DEF d
      <4> QED  BY <1>2, <3>1, <3>3, <3>4, TurnFrame
  <2>6. QED
    BY <1>16, <2>4, <2>5 DEF AuditWritten, AuditLost
<1>17. CASE Gate(t)
  <2>1. /\ c.point = "gate" /\ c.row = r /\ r.state = "validated" /\ c.phase = "validate"
        /\ c.op # "execute" /\ RowInTurn(k, r, n) /\ r.needs = Request[k].asks
    BY <1>3, <1>17 DEF Gate, Attended, InTurn, RowInTurn, Executions
  <2>2. lost = 0 => Matches(r, log) /\ WithinBudget(n, w) /\ ~(n > 0)
    BY <1>3, <2>1 DEF Attended, Worked, Over
  <2> DEFINE answer == EvaluateGate(Request[k])
             p == Verdict(c)
             d == InPhase(c, p)
  <2>3. CASE answer = "raise"
    <3>1. Alone(k, r, log, n, w, lost)
      BY <2>1, <2>2, <2>3 DEF Alone, Rested
    <3>2. QED  BY <1>1, <1>4, <1>17, <2>3, <3>1 DEF Gate
  <2>4. CASE answer # "raise"
    <3>1. p \in {"gatefail", "hold", "late", "go"}
      BY <1>1, VerdictTyped
    <3>2. answer \in {"deny", "hold", "go"} /\ (answer = "go" => ~r.needs)
      BY <2>1, <2>4, GateAnswers, AskedIsHeld
    <3>3. (p = "hold" => answer = "hold") /\ (p = "go" => answer = "go")
      BY <2>1, <3>2 DEF Verdict
    <3>4. /\ d.key = k /\ d.op = c.op /\ d.point = "save" /\ d.phase = p
          /\ d.row = c.row /\ d.attempt = c.attempt
      <4> HIDE DEF p
      <4> QED  BY <1>1, InPhaseFields
    <3>5. p \in DOMAIN Source /\ "validated" \in Source[p]
      <4> HIDE DEF p
      <4> QED  BY <3>1 DEF Source
    <3>6. Attended(d, r, log, n, w, lost)
      <4> HIDE DEF d, p
      <4> QED  BY <2>1, <2>2, <3>1, <3>3, <3>4, <3>5 DEF Attended, InTurn, Worked
    <3>7. Local(t, d)
      BY <1>17, <2>4 DEF Gate
    <3>8. QED
      <4> HIDE DEF d
      <4> QED  BY <1>2, <1>4, <3>4, <3>6, <3>7
  <2>5. QED  BY <2>3, <2>4
<1>18. CASE RunHandler(t)
  <2> DEFINE m == c.attempt + 1
             d == [c EXCEPT !.attempt = m]
             e == [d EXCEPT !.row = [c.row EXCEPT !.out = TRUE]]
  <2>1. /\ c.point = "run" /\ c.row = r /\ r.state = "executing" /\ c.op = "execute"
        /\ RowInTurn(k, r, n) /\ ~r.out
    BY <1>3, <1>18 DEF RunHandler, Attended, InTurn, RowInTurn, Over
  <2>2. lost = 0 => Matches(r, log) /\ n = c.attempt /\ n <= MaxRetries /\ ~(w > 0)
    BY <1>3, <2>1 DEF Attended, Worked
  <2>3. /\ d \in Call /\ d.key = k /\ d.op = "execute" /\ d.row = r /\ d.attempt = m
    <3>1. m \in Nat
      BY <1>1
    <3> HIDE DEF m
    <3>2. QED  BY <1>1, <2>1, <3>1 DEF Call
  <2>4. /\ e \in Call /\ e.key = k /\ e.op = "execute" /\ e.row = [r EXCEPT !.out = TRUE]
        /\ e.attempt = m
    <3>1. [c.row EXCEPT !.out = TRUE] \in Row
      BY <1>1 DEF Row
    <3> HIDE DEF d, m
    <3>2. QED  BY <2>1, <2>3, <3>1 DEF Call
  <2>5. /\ runs' = [runs EXCEPT ![k] = @ + 1] /\ UNCHANGED <<row, events>>
        /\ \/ call' = [call EXCEPT ![t] = InPhase(e, "succeed")]
              /\ wins' = [wins EXCEPT ![k] = @ + 1]
           \/ call' = [call EXCEPT ![t] = InPhase(d, "retry")] /\ wins' = wins
    BY <1>1, <1>18 DEF RunHandler, Call
  <2>6. runs'[k] = n + 1 /\ n + 1 > 0 /\ row'[k] = r /\ events'[k] = log
    BY <1>1, <1>2, <2>5
  <2>7. lost = 0 => runs'[k] = m /\ m <= MaxRetries + 1 /\ w = 0
    BY <1>1, <2>2, <2>6
  <2>8. {"succeed", "retry"} \subseteq DOMAIN Source
        /\ "executing" \in Source["succeed"] /\ "executing" \in Source["retry"]
    BY DEF Source
  <2>9. RowInTurn(k, r, runs'[k])
    BY <2>1 DEF RowInTurn
  <2>10. CASE call' = [call EXCEPT ![t] = InPhase(e, "succeed")]
              /\ wins' = [wins EXCEPT ![k] = @ + 1]
    <3> DEFINE f == InPhase(e, "succeed")
    <3>1. /\ f.key = k /\ f.op = "execute" /\ f.row = [r EXCEPT !.out = TRUE]
          /\ f.phase = "succeed" /\ f.point = "save" /\ f.attempt = m
      <4> HIDE DEF d, e, m
      <4> QED  BY <2>4, InPhaseFields
    <3>2. wins'[k] = w + 1
      BY <1>1, <1>2, <2>10
    <3>3. Attended(f, r, log, runs'[k], wins'[k], lost)
      <4> HIDE DEF f, m
      <4>1. InTurn(f, r, log, runs'[k])
        BY <2>1, <2>6, <2>8, <3>1 DEF InTurn, Executions
      <4>2. lost = 0 => Worked(f, r, log, runs'[k], wins'[k])
        BY <1>1, <2>2, <2>6, <2>7, <3>1, <3>2 DEF Worked, WithinBudget
      <4>3. QED  BY <1>2, <2>9, <3>1, <4>1, <4>2 DEF Attended
    <3>4. call' = [call EXCEPT ![t] = f]
      BY <2>10
    <3>5. QED
      <4> HIDE DEF f
      <4> QED  BY <2>6, <3>1, <3>3, <3>4, TurnFrame
  <2>11. CASE call' = [call EXCEPT ![t] = InPhase(d, "retry")] /\ wins' = wins
    <3> DEFINE f == InPhase(d, "retry")
    <3>1. /\ f.key = k /\ f.op = "execute" /\ f.row = r
          /\ f.phase = "retry" /\ f.point = "save" /\ f.attempt = m
      <4> HIDE DEF d, m
      <4> QED  BY <2>3, InPhaseFields
    <3>2. wins'[k] = w
      BY <2>11
    <3>3. Attended(f, r, log, runs'[k], wins'[k], lost)
      <4> HIDE DEF f, m
      <4>1. InTurn(f, r, log, runs'[k])
        BY <2>1, <2>6, <2>8, <3>1 DEF InTurn, Executions
      <4>2. lost = 0 => Worked(f, r, log, runs'[k], wins'[k])
        BY <1>1, <2>2, <2>6, <2>7, <3>1, <3>2 DEF Worked, WithinBudget
      <4>3. QED  BY <1>2, <2>9, <3>1, <4>1, <4>2 DEF Attended
    <3>4. call' = [call EXCEPT ![t] = f]
      BY <2>11
    <3>5. QED
      <4> HIDE DEF f
      <4> QED  BY <2>6, <3>1, <3>3, <3>4, TurnFrame
  <2>12. QED  BY <2>5, <2>10, <2>11
<1>19. QED
  BY <1>5, <1>6, <1>7, <1>8, <1>9, <1>10, <1>11, <1>12, <1>13, <1>14, <1>15, <1>16,
     <1>17, <1>18 DEF Step

\* A step of a call whose attempt was cut short: it goes on in the attempt loop,
\* where no phase it can reach changes the state its copy has, and returns.
LEMMA CutShortStep ==
  ASSUME TypeOK, TypeOK', GuardInv, TurnInv, OneAtATime, NEW t \in Threads, Step(t),
         LET k == call[t].key IN
         faults[k] > 0 /\ CutShort(call[t], row[k], events[k], runs[k])
  PROVE  TurnInv'
<1> DEFINE c == call[t]
           k == c.key
           r == row[k]
           log == events[k]
           n == runs[k]
           w == wins[k]
           lost == faults[k]
<1>1. /\ c \in Call /\ k \in Keys /\ c.phase \in Phases /\ c.row \in Row /\ r \in Row
      /\ n \in Nat /\ c.attempt \in Nat /\ log \in Seq(Event) /\ Idle.op = "none"
  BY DEF TypeOK, Call, Idle
<1>2. /\ Busy(t) /\ c.op = "execute" /\ faults' = faults /\ lost > 0 /\ lost # 0
      /\ row \in [Keys -> Row] /\ events \in [Keys -> Seq(Event)]
      /\ runs \in [Keys -> Nat] /\ call \in [Threads -> Call] /\ faults \in [Keys -> Nat]
  <2>1. Busy(t) /\ faults' = faults
    BY StepElsewhere
  <2>2. c.op = "execute"
    BY DEF CutShort
  <2>3. lost > 0
    OBVIOUS
  <2>4. /\ row \in [Keys -> Row] /\ events \in [Keys -> Seq(Event)]
        /\ runs \in [Keys -> Nat] /\ call \in [Threads -> Call] /\ faults \in [Keys -> Nat]
    BY DEF TypeOK
  <2>5. lost # 0
    BY <1>1, <2>3, <2>4
  <2>6. QED  BY <2>1, <2>2, <2>3, <2>4, <2>5
<1>3. /\ CutShort(c, r, log, n) /\ RowInTurn(k, r, n) /\ Guarded(c)
      /\ n > 0 /\ c.row.out /\ c.row.state \in Ended
  BY <1>2 DEF TurnInv, Attended, GuardInv, CutShort
<1>4. c.point \in {"save", "number", "append", "audit", "run"}
  BY <1>3 DEF CutShort
<1>5. ASSUME NEW d, call' = [call EXCEPT ![t] = d], NEW s, row'[k] = s,
             NEW l, events'[k] = l, NEW m, runs'[k] = m, RowInTurn(k, s, m),
             d.op = "none" \/ (d.key = k /\ CutShort(d, s, l, m))
      PROVE  TurnInv'
  <2>1. IF d.op = "none" THEN Alone(k, s, l, m, wins'[k], lost)
        ELSE d.key = k /\ Attended(d, s, l, m, wins'[k], lost)
    BY <1>2, <1>5 DEF Alone, Attended
  <2>2. QED  BY <1>5, <2>1, TurnFrame
<1>6. ASSUME NEW d, Local(t, d), d.op = "none" \/ (d.key = k /\ CutShort(d, r, log, n))
      PROVE  TurnInv'
  <2>1. /\ call' = [call EXCEPT ![t] = d]
        /\ row'[k] = r /\ events'[k] = log /\ runs'[k] = n
    BY <1>6 DEF Local
  <2>2. QED  BY <1>3, <1>5, <1>6, <2>1
<1>7. CASE Save(t)
  <2> DEFINE s == Saved(c)
             m == IF c.phase \in TwoEvents THEN 2 ELSE 1
             d == [c EXCEPT !.row = s, !.point = "number", !.left = m]
  <2>1. c.point = "save" /\ CanSave(c)
    BY <1>7 DEF Save
  <2>2. c.phase = "retry"
    <3>1. c.phase \in {"retry", "succeed", "fail"}
      BY <1>3, <2>1 DEF CutShort
    <3>2. ~IsValidTransition(c.row.state, "succeeded") /\ ~IsValidTransition(c.row.state, "failed")
      BY <1>3 DEF Ended, IsValidTransition, ValidTransitions
    <3>3. Target["succeed"] = "succeeded" /\ Target["fail"] = "failed"
      BY DEF Target
    <3>4. QED  BY <2>1, <3>1, <3>2, <3>3 DEF CanSave, Assigned
  <2>3. s.state = c.row.state /\ s.out = c.row.out
    BY <1>1, <2>2 DEF Saved, Row
  <2>4. row' = [row EXCEPT ![k] = s] /\ call' = [call EXCEPT ![t] = d]
        /\ UNCHANGED <<events, runs, wins>>
    BY <1>2, <1>7 DEF Save
  <2>5. /\ d.key = k /\ d.op = c.op /\ d.point = "number" /\ d.phase = c.phase /\ d.row = s
    <3> HIDE DEF s, m
    <3> QED  BY <1>1 DEF Call
  <2>6. row'[k] = s /\ events'[k] = log /\ runs'[k] = n
    <3> HIDE DEF s
    <3> QED  BY <1>1, <1>2, <2>4
  <2> HIDE DEF d, s
  <2>7. CutShort(d, s, log, n)
    BY <1>2, <1>3, <2>2, <2>3, <2>5 DEF CutShort
  <2>8. RowInTurn(k, s, n)
    BY <1>3, <2>3 DEF RowInTurn, Ended, Over
  <2>9. call' = [call EXCEPT ![t] = d]
    BY <2>4
  <2>10. QED  BY <1>5, <2>5, <2>6, <2>7, <2>8, <2>9
<1>8. CASE SaveRaises(t)
  <2>1. c.point = "save" /\ ~CanSave(c) /\ Local(t, Raised(c))
    BY <1>8 DEF SaveRaises
  <2>2. c.phase \in {"succeed", "fail"} /\ c.row = r
    BY <1>3, <2>1 DEF CutShort, CanSave
  <2>3. c.guard \in {"none", "attempt"}
    BY <1>1, <1>2, <1>3 DEF Guarded, Call
  <2>4. CASE c.guard = "attempt"
    <3> DEFINE d == InPhase(c, "retry")
    <3>1. Local(t, d)
      BY <2>1, <2>4 DEF Raised
    <3>2. /\ d.key = k /\ d.op = c.op /\ d.point = "save" /\ d.phase = "retry" /\ d.row = r
      BY <1>1, <2>2, InPhaseFields
    <3>3. CutShort(d, r, log, n)
      <4> HIDE DEF d
      <4> QED  BY <1>2, <1>3, <2>2, <3>2 DEF CutShort
    <3> HIDE DEF d
    <3>4. QED  BY <1>6, <3>1, <3>2, <3>3
  <2>5. CASE c.guard = "none"
    BY <1>1, <1>6, <2>1, <2>5 DEF Raised
  <2>6. QED  BY <2>3, <2>4, <2>5
<1>9. CASE Number(t)
  <2> DEFINE m == Len(log) + 1
             d == [c EXCEPT !.seq = m, !.point = "append"]
  <2>1. Local(t, d) /\ c.point = "number"
    BY <1>9 DEF Number
  <2>2. /\ d.key = k /\ d.op = c.op /\ d.point = "append" /\ d.phase = c.phase
        /\ d.row = c.row /\ d.seq = m
    <3> HIDE DEF m
    <3> QED  BY <1>1 DEF Call
  <2> HIDE DEF d
  <2>3. CutShort(d, r, log, n)
    BY <1>3, <2>1, <2>2 DEF CutShort
  <2>4. QED  BY <1>6, <2>1, <2>2, <2>3
<1>10. CASE AppendEvent(t)
  <2> DEFINE e == [phase |-> c.phase, by |-> c.by]
             new == Append(log, e)
             l == c.left - 1
             d == [c EXCEPT !.point = "number", !.left = l]
             f == [c EXCEPT !.point = "audit", !.left = 0]
  <2>1. /\ c.point = "append" /\ events' = [events EXCEPT ![k] = new]
        /\ call' = [call EXCEPT ![t] = Logged(c)] /\ UNCHANGED <<row, runs, wins>>
    BY <1>2, <1>10 DEF AppendEvent
  <2>2. c.phase = "retry" /\ c.row = r
    BY <1>3, <2>1 DEF CutShort
  <2>3. Logged(c) = d \/ Logged(c) = f
    BY <2>2 DEF Logged, Unaudited
  <2>4. d.key = k /\ d.op = c.op /\ d.point = "number" /\ d.phase = c.phase /\ d.row = c.row
    <3> HIDE DEF l
    <3> QED  BY <1>1 DEF Call
  <2>5. f.key = k /\ f.op = c.op /\ f.point = "audit" /\ f.phase = c.phase /\ f.row = c.row
    BY <1>1 DEF Call
  <2>6. row'[k] = r /\ events'[k] = new /\ runs'[k] = n
    <3> HIDE DEF new
    <3> QED  BY <1>1, <1>2, <2>1
  <2> HIDE DEF d, f, new
  <2>7. CutShort(d, r, new, n) /\ CutShort(f, r, new, n)
    BY <1>3, <2>2, <2>4, <2>5 DEF CutShort
  <2>8. QED  BY <1>3, <1>5, <2>1, <2>3, <2>4, <2>5, <2>6, <2>7
<1>11. CASE AppendRaises(t)
  BY <1>3, <1>11 DEF AppendRaises, CutShort
<1>12. CASE AuditWritten(t) \/ AuditLost(t)
  <2> DEFINE d == [c EXCEPT !.point = "run", !.guard = "none"]
             f == InPhase(c, "fail")
  <2>1. c.point = "audit" /\ UNCHANGED <<row, events, runs, wins>>
    BY <1>12 DEF AuditWritten, AuditLost
  <2>2. c.phase = "retry" /\ c.row = r
    BY <1>3, <2>1 DEF CutShort
  <2>3. Continue(c) = d \/ Continue(c) = f
    BY <2>2, PhaseTables DEF Continue, AfterRetry
  <2>4. d.key = k /\ d.op = c.op /\ d.point = "run" /\ d.row = c.row
    BY <1>1 DEF Call
  <2>5. f.key = k /\ f.op = c.op /\ f.point = "save" /\ f.phase = "fail" /\ f.row = c.row
    BY <1>1, InPhaseFields
  <2>6. call' = [call EXCEPT ![t] = Continue(c)]
    BY <1>12, <2>2 DEF AuditWritten, AuditLost, Consequential
  <2>7. row'[k] = r /\ events'[k] = log /\ runs'[k] = n
    BY <2>1
  <2> HIDE DEF d, f
  <2>8. CutShort(d, r, log, n) /\ CutShort(f, r, log, n)
    BY <1>3, <2>2, <2>4, <2>5 DEF CutShort
  <2>9. QED  BY <1>3, <1>5, <2>3, <2>4, <2>5, <2>6, <2>7, <2>8
<1>13. CASE RunHandler(t)
  <2> DEFINE m == c.attempt + 1
             d == [c EXCEPT !.attempt = m]
             e == [d EXCEPT !.row = [c.row EXCEPT !.out = TRUE]]
             x == InPhase(e, "succeed")
             y == InPhase(d, "retry")
  <2>1. c.point = "run" /\ c.row = r
    BY <1>3, <1>13 DEF RunHandler, CutShort
  <2>2. r.out /\ [c.row EXCEPT !.out = TRUE] = r
    BY <1>1, <1>3, <2>1 DEF Row
  <2>3. d \in Call /\ d.key = k /\ d.op = c.op /\ d.row = r
    <3>1. m \in Nat
      BY <1>1
    <3> HIDE DEF m
    <3>2. QED  BY <1>1, <2>1, <3>1 DEF Call
  <2>4. e \in Call /\ e.key = k /\ e.op = c.op /\ e.row = r
    <3> HIDE DEF d
    <3> QED  BY <1>1, <2>2, <2>3 DEF Call
  <2>5. /\ runs' = [runs EXCEPT ![k] = @ + 1] /\ UNCHANGED <<row, events>>
        /\ call' = [call EXCEPT ![t] = x] \/ call' = [call EXCEPT ![t] = y]
    BY <1>1, <1>13 DEF RunHandler, Call
  <2>6. runs'[k] = n + 1 /\ n + 1 > 0 /\ row'[k] = r /\ events'[k] = log
    BY <1>1, <1>2, <2>5
  <2> HIDE DEF d, e
  <2>7. /\ x.key = k /\ x.op = c.op /\ x.point = "save" /\ x.phase = "succeed" /\ x.row = r
        /\ y.key = k /\ y.op = c.op /\ y.point = "save" /\ y.phase = "retry" /\ y.row = r
    BY <2>3, <2>4, InPhaseFields
  <2> HIDE DEF x, y
  <2>8. CutShort(x, r, log, runs'[k]) /\ CutShort(y, r, log, runs'[k])
    BY <1>2, <1>3, <2>1, <2>2, <2>6, <2>7 DEF CutShort
  <2>9. RowInTurn(k, r, runs'[k])
    BY <1>3, <2>6 DEF RowInTurn
  <2>10. QED  BY <1>5, <2>5, <2>6, <2>7, <2>8, <2>9
<1>14. CASE HaltRefuses(t) \/ CheckSubmit(t) \/ CheckApprove(t) \/ CheckExecute(t)
              \/ LookUp(t) \/ Create(t) \/ Gate(t)
  BY <1>4, <1>14 DEF HaltRefuses, CheckSubmit, CheckApprove, CheckExecute, LookUp, Create,
     Gate
<1>15. QED
  BY <1>7, <1>8, <1>9, <1>10, <1>11, <1>12, <1>13, <1>14 DEF Step

\* A call cut short leaves its workflow to nobody, or goes on in the attempt loop.
LEMMA FaultFrame ==
  ASSUME TypeOK, TypeOK', TurnInv, OneAtATime, NEW t \in Threads, Busy(t), NEW d,
         call' = [call EXCEPT ![t] = d], UNCHANGED <<row, events, runs, wins>>,
         LET k == call[t].key IN
         /\ faults' = [faults EXCEPT ![k] = @ + 1]
         /\ d.op = "none" \/ (d.key = k /\ CutShort(d, row[k], events[k], runs[k]))
  PROVE  TurnInv'
<1> DEFINE k == call[t].key
<1>1. /\ k \in Keys /\ call \in [Threads -> Call] /\ faults \in [Keys -> Nat]
      /\ call'[t] = d
  BY DEF TypeOK, Call
<1>2. /\ faults'[k] > 0 /\ faults'[k] # 0
      /\ \A j \in Keys : j # k => faults'[j] = faults[j]
  BY <1>1
<1>3. \A u \in Threads : u # t => ~Busy(u) /\ ~Busy(u)'
  BY <1>1 DEF OneAtATime, Busy
<1>4. RowInTurn(k, row[k], runs[k])
  BY DEF TurnInv, Attended
<1>5. ASSUME NEW j \in Keys, \A u \in Threads : Busy(u)' => call'[u].key # j
      PROVE  Alone(j, row'[j], events'[j], runs'[j], wins'[j], faults'[j])
  <2>1. CASE j = k
    BY <1>2, <1>4, <2>1 DEF Alone
  <2>2. CASE j # k
    <3>1. \A u \in Threads : Busy(u) => call[u].key # j
      BY <1>3, <2>2
    <3>2. Alone(j, row[j], events[j], runs[j], wins[j], faults[j])
      BY <3>1 DEF TurnInv
    <3>3. QED  BY <1>2, <2>2, <3>2
  <2>3. QED  BY <2>1, <2>2
<1>6. ASSUME NEW u \in Threads, Busy(u)'
      PROVE  LET j == call'[u].key IN
             Attended(call'[u], row'[j], events'[j], runs'[j], wins'[j], faults'[j])
  <2>1. u = t /\ d.op # "none"
    BY <1>1, <1>3, <1>6 DEF Busy
  <2>2. QED  BY <1>1, <1>2, <1>4, <2>1 DEF Attended
<1>7. QED  BY <1>5, <1>6 DEF TurnInv

\* A store operation that fails in an attempt leaves the copy past execution, and
\* the row where the copy came from.
LEMMA FailureTurn ==
  ASSUME TypeOK, TypeOK', GuardInv, TurnInv, OneAtATime, NEW t \in Threads, StoreFails(t)
  PROVE  TurnInv'
<1> DEFINE c == call[t]
           k == c.key
           r == row[k]
           log == events[k]
           n == runs[k]
<1>1. /\ Busy(t) /\ c \in Call /\ Ahead(c) \in Call /\ k \in Keys /\ r \in Row
      /\ UNCHANGED <<row, events, runs, wins>>
      /\ faults' = [faults EXCEPT ![k] = @ + 1]
      /\ \/ call' = [call EXCEPT ![t] = Idle]
         \/ /\ call' = [call EXCEPT ![t] = InPhase(c, "retry")]
            /\ c.guard = "attempt" /\ c.point # "save"
         \/ /\ call' = [call EXCEPT ![t] = InPhase(Ahead(c), "retry")]
            /\ c.guard = "attempt" /\ c.point = "save" /\ CanSave(c)
  BY FailureMoves DEF TypeOK, Call
<1>2. CASE call' = [call EXCEPT ![t] = Idle]
  <2>1. Idle.op = "none"
    BY DEF Idle
  <2>2. QED  BY <1>1, <1>2, <2>1, FaultFrame
<1>3. CASE c.guard = "attempt"
  <2>1. /\ c.op = "execute" /\ c.row.out /\ c.phase \in {"succeed", "close", "failclosed"}
        /\ c.point \in {"save", "number", "append", "audit"}
    BY <1>3 DEF GuardInv, Guarded
  <2>2. RowInTurn(k, r, n) /\ (InTurn(c, r, log, n) \/ CutShort(c, r, log, n))
    BY <1>1 DEF TurnInv, Attended
  <2>3. {"succeed", "close", "failclosed"} \subseteq DOMAIN Target
        /\ \A p \in {"succeed", "close", "failclosed"} : Target[p] \in Ended
    BY DEF Target, Ended
  <2>4. CASE c.point # "save" /\ call' = [call EXCEPT ![t] = InPhase(c, "retry")]
    <3> DEFINE d == InPhase(c, "retry")
    <3>1. /\ d.key = k /\ d.op = c.op /\ d.point = "save" /\ d.phase = "retry" /\ d.row = c.row
      BY <1>1, InPhaseFields
    <3>2. c.row = r /\ r.state \in Ended
      BY <2>1, <2>2, <2>3, <2>4 DEF InTurn, CutShort
    <3>3. CutShort(d, r, log, n)
      <4>1. n > 0
        BY <2>1, <2>2, <3>2 DEF RowInTurn
      <4> HIDE DEF d
      <4>2. QED  BY <2>1, <3>1, <3>2, <4>1 DEF CutShort
    <3>4. call' = [call EXCEPT ![t] = d]
      BY <2>4
    <3> HIDE DEF d
    <3>5. QED  BY <1>1, <3>1, <3>3, <3>4, FaultFrame
  <2>5. CASE /\ c.point = "save" /\ CanSave(c)
             /\ call' = [call EXCEPT ![t] = InPhase(Ahead(c), "retry")]
    <3> DEFINE d == InPhase(Ahead(c), "retry")
               s == Saved(c)
    <3>1. s \in Row /\ s.out = c.row.out /\ s.state = Target[c.phase]
      BY <1>1, <2>1, SavedTyped DEF Saved, Call, Row
    <3>2. Ahead(c).key = k /\ Ahead(c).op = c.op /\ Ahead(c).row = s
      <4> HIDE DEF s
      <4> QED  BY <1>1 DEF Ahead, Call, s
    <3>3. /\ d.key = k /\ d.op = c.op /\ d.point = "save" /\ d.phase = "retry" /\ d.row = s
      <4> HIDE DEF s
      <4> QED  BY <1>1, <3>2, InPhaseFields
    <3>4. InTurn(c, r, log, n)
      <4>1. ~IsValidTransition(c.row.state, "succeeded") \/ c.row.state \notin Ended
        BY DEF Ended, IsValidTransition, ValidTransitions
      <4>2. Target["succeed"] = "succeeded"
        BY DEF Target
      <4>3. QED  BY <2>1, <2>2, <2>5, <4>1, <4>2 DEF CutShort, CanSave, Assigned
    <3>5. /\ c.phase \in DOMAIN Source /\ r.state \in Source[c.phase]
          /\ c.row = IF c.phase = "succeed" THEN [r EXCEPT !.out = TRUE] ELSE r
          /\ c.phase = "succeed" => n > 0
      BY <2>5, <3>4 DEF InTurn
    <3>6. r.out \/ r.state = "executing"
      BY <2>1, <3>5 DEF Source
    <3>7. n > 0
      BY <2>1, <2>2, <3>5 DEF RowInTurn
    <3>8. s.state = "dead_letter" \/ IsValidTransition(r.state, s.state)
      <4>1. Target["failclosed"] = "dead_letter"
        BY DEF Target
      <4>2. QED  BY <2>1, <3>1, <3>5, <4>1, TurnTables
    <3> HIDE DEF s, d
    <3>9. CutShort(d, r, log, n)
      BY <2>1, <2>3, <3>1, <3>3, <3>6, <3>7, <3>8 DEF CutShort
    <3>10. call' = [call EXCEPT ![t] = d]
      BY <2>5 DEF d
    <3>11. QED  BY <1>1, <3>3, <3>9, <3>10, FaultFrame
  <2>6. QED  BY <1>1, <1>2, <2>4, <2>5
<1>4. QED  BY <1>1, <1>2, <1>3

\* A call begins when nobody is at work: it finds its workflow at rest.
LEMMA TurnInvocation ==
  ASSUME TypeOK, TypeOK', TurnInv, OneAtATime', NEW t \in Threads, Invocation(t)
  PROVE  TurnInv'
<1>1. PICK k \in Keys :
        \/ CallSubmit(t, k)
        \/ \E a \in Approvers, decision \in {"grant", "deny"} : CallApprove(t, k, a, decision)
        \/ CallExecute(t, k)
        \/ CallCancel(t, k)
  BY DEF Invocation
<1> DEFINE r == row[k]
<1>2. r \in Row /\ call \in [Threads -> Call]
  BY DEF TypeOK
<1>3. ASSUME NEW d, Begin(t, d), d.op # "none", d.key = k,
             Alone(k, r, events[k], runs[k], wins[k], faults[k]) =>
               Attended(d, r, events[k], runs[k], wins[k], faults[k])
      PROVE  TurnInv'
  <2>1. /\ ~Busy(t) /\ call' = [call EXCEPT ![t] = d]
        /\ UNCHANGED <<row, events, runs, wins, faults>>
    BY <1>3 DEF Begin
  <2>2. call'[t] = d /\ Busy(t)'
    BY <1>2, <1>3, <2>1 DEF Busy
  <2>3. \A u \in Threads : u # t => ~Busy(u) /\ ~Busy(u)' /\ call'[u] = call[u]
    BY <1>2, <2>1, <2>2 DEF OneAtATime, Busy
  <2>4. \A u \in Threads : ~Busy(u)
    BY <2>1, <2>3
  <2>5. \A j \in Keys : Alone(j, row[j], events[j], runs[j], wins[j], faults[j])
    BY <2>4 DEF TurnInv
  <2>6. Attended(d, r, events[k], runs[k], wins[k], faults[k])
    BY <1>3, <2>5
  <2>7. QED  BY <1>3, <2>1, <2>2, <2>3, <2>5, <2>6 DEF TurnInv
<1>4. ASSUME NEW op \in {"submit", "approve", "execute", "cancel"}, NEW p,
             NEW pt \in {"check", "save"}, NEW q, NEW by,
             op # "submit" => q = r,
             p \in {"succeed", "retry"} => op = "execute",
             op = "execute" => p \in Executions,
             pt = "save" => p = "cancel" /\ op = "cancel" /\ r.state \in Source["cancel"],
             Alone(k, r, events[k], runs[k], wins[k], faults[k])
      PROVE  LET d == Invoke(op, k, p, pt, q, by) IN
             /\ d.op = op /\ d.key = k
             /\ Attended(d, r, events[k], runs[k], wins[k], faults[k])
  <2> DEFINE d == Invoke(op, k, p, pt, q, by)
  <2>1. /\ d.op = op /\ d.key = k /\ d.phase = p /\ d.point = pt /\ d.row = q /\ d.attempt = 0
    BY DEF Invoke, Idle
  <2>2. "cancel" \in DOMAIN Source
    BY DEF Source
  <2>3. Attended(d, r, events[k], runs[k], wins[k], faults[k])
    <3> HIDE DEF d
    <3> QED  BY <1>4, <2>1, <2>2 DEF Alone, Attended, InTurn, Worked, Rested
  <2>4. QED  BY <2>1, <2>3
<1>5. CASE CallSubmit(t, k)
  <2> DEFINE d == Invoke("submit", k, "created", "check", NoRow, NoApprover)
  <2>1. Begin(t, d)
    BY <1>5 DEF CallSubmit
  <2>2. QED
    <3>1. d.op # "none" /\ d.key = k
      BY DEF Invoke, Idle
    <3>2. ASSUME Alone(k, r, events[k], runs[k], wins[k], faults[k])
          PROVE  Attended(d, r, events[k], runs[k], wins[k], faults[k])
      BY <1>4, <3>2
    <3> HIDE DEF d
    <3>3. QED  BY <1>3, <2>1, <3>1, <3>2
<1>6. ASSUME NEW a \in Approvers, NEW decision \in {"grant", "deny"},
             CallApprove(t, k, a, decision)
      PROVE  TurnInv'
  <2> DEFINE d == Invoke("approve", k, decision, "check", r, a)
  <2>1. Begin(t, d)
    BY <1>6 DEF CallApprove
  <2>2. QED
    <3>1. d.op # "none" /\ d.key = k
      BY DEF Invoke, Idle
    <3>2. ASSUME Alone(k, r, events[k], runs[k], wins[k], faults[k])
          PROVE  Attended(d, r, events[k], runs[k], wins[k], faults[k])
      BY <1>4, <3>2
    <3> HIDE DEF d
    <3>3. QED  BY <1>3, <2>1, <3>1, <3>2
<1>7. CASE CallExecute(t, k)
  <2> DEFINE d == Invoke("execute", k, "succeed", "check", r, NoApprover)
  <2>1. Begin(t, d)
    BY <1>7 DEF CallExecute
  <2>2. QED
    <3>1. d.op # "none" /\ d.key = k
      BY DEF Invoke, Idle
    <3>2. ASSUME Alone(k, r, events[k], runs[k], wins[k], faults[k])
          PROVE  Attended(d, r, events[k], runs[k], wins[k], faults[k])
      BY <1>4, <3>2 DEF Executions
    <3> HIDE DEF d
    <3>3. QED  BY <1>3, <2>1, <3>1, <3>2
<1>8. CASE CallCancel(t, k)
  <2> DEFINE d == Invoke("cancel", k, "cancel", "save", r, NoApprover)
  <2>1. Begin(t, d)
    BY <1>8 DEF CallCancel
  <2>2. r.state \in Source["cancel"]
    <3>1. r.state \in WorkflowState /\ "cancelled" \in ValidTransitions[r.state]
      BY <1>8 DEF CallCancel, IsValidTransition
    <3>2. "cancelled" \in ValidTransitions[r.state] =>
            r.state \in {"proposed", "validated", "awaiting_approval", "approved",
                         "executing", "failed"}
      BY <3>1 DEF WorkflowState, ValidTransitions
    <3>3. QED  BY <3>1, <3>2 DEF Source
  <2>3. QED
    <3>1. d.op # "none" /\ d.key = k
      BY DEF Invoke, Idle
    <3>2. ASSUME Alone(k, r, events[k], runs[k], wins[k], faults[k])
          PROVE  Attended(d, r, events[k], runs[k], wins[k], faults[k])
      BY <1>4, <2>2, <3>2
    <3> HIDE DEF d
    <3>3. QED  BY <1>3, <2>1, <3>1, <3>2
<1>9. QED  BY <1>1, <1>5, <1>6, <1>7, <1>8

\* A call that dies leaves its workflow to nobody; the environment touches none.
LEMMA TurnNext ==
  ASSUME TypeOK, TypeOK', ClearanceInv, GuardInv, TurnInv, OneAtATime, OneAtATime',
         [Next]_vars
  PROVE  TurnInv'
<1>1. ASSUME NEW t \in Threads, Step(t) PROVE TurnInv'
  <2> DEFINE k == call[t].key
  <2>1. \/ InTurn(call[t], row[k], events[k], runs[k])
        \/ faults[k] > 0 /\ CutShort(call[t], row[k], events[k], runs[k])
    BY <1>1, StepElsewhere DEF TurnInv, Attended
  <2>2. QED  BY <1>1, <2>1, TurnStep, CutShortStep
<1>2. ASSUME NEW t \in Threads, Die(t) PROVE TurnInv'
  <2>1. Idle.op = "none"
    BY DEF Idle
  <2>2. /\ Busy(t) /\ call' = [call EXCEPT ![t] = Idle]
        /\ UNCHANGED <<row, events, runs, wins>>
        /\ faults' = [faults EXCEPT ![call[t].key] = @ + 1]
    BY <1>2 DEF Die
  <2>3. QED  BY <2>1, <2>2, FaultFrame
<1>3. CASE (\E k \in Keys : Expire(k)) \/ Engage \/ Release \/ UNCHANGED vars
  <2>1. UNCHANGED <<row, events, call, runs, wins, faults>>
    BY <1>3 DEF Expire, Engage, Release, vars, counters
  <2>2. QED  BY <2>1 DEF TurnInv, Busy
<1>4. QED  BY <1>1, <1>2, <1>3, TurnInvocation, FailureTurn DEF Next

\* Callers who take turns, each finishing its call before the next one begins, work
\* on the stored row itself, or on a copy that a failing store operation left ahead
\* of it: the invariant every statement below follows from.
THEOREM TurnHolds == Spec /\ []OneAtATime => []TurnInv
<1>1. TypeOK /\ TypeOK' /\ ClearanceInv /\ GuardInv /\ TurnInv /\ OneAtATime
        /\ OneAtATime' /\ [Next]_vars => TurnInv'
  BY TurnNext
<1>2. QED  BY <1>1, TurnInit, TypeCorrect, ClearanceHolds, GuardHolds, PTL DEF Spec

\* Callers who take turns leave every workflow no call of which was cut short where
\* another operation can take it up, with a log that ends in its state (all four
\* operations).
THEOREM OrderLeft == Spec /\ []OneAtATime => []LeftInOrder
<1>1. TurnInv => LeftInOrder
  BY DEF TurnInv, LeftInOrder, Settled, LogMatchesRow, AtRest, Alone, Rested, Matches
<1>2. QED  BY <1>1, TurnHolds, PTL
-------------------------------------------------------------------------------
(* The budget of an execution.  Each of them may invoke the handler once more *)
(* than max_retries; a call that was cut short may have left one unfinished.  *)

Allowance(lost) == (MaxRetries + 1) * lost

\* Of an execution under way: what it has used of its own budget.
Spending(c, n, lost) ==
  /\ c.attempt <= MaxRetries + 1 /\ n <= Allowance(lost) + c.attempt
  /\ c.point = "run" => c.attempt <= MaxRetries

\* Of a workflow that is not being executed: its own execution is over, or to come.
Spent(r, n, lost) == n <= Allowance(1 + lost) /\ (r.state \in Over \/ n <= Allowance(lost))

Executing(c) == c.op = "execute" /\ c.point # "check"

\* The inductive invariant.
BudgetInv ==
  \A k \in Keys :
    /\ \A t \in Threads : Executing(call[t]) /\ call[t].key = k =>
         Spending(call[t], runs[k], faults[k])
    /\ (\A t \in Threads : Executing(call[t]) => call[t].key # k) =>
         Spent(row[k], runs[k], faults[k])

\* The allowance of a key grows with the calls on it that were cut short.
LEMMA AllowanceGrows ==
  ASSUME NEW lost \in Nat
  PROVE  /\ Allowance(lost) \in Nat /\ Allowance(1 + lost) = Allowance(lost) + MaxRetries + 1
         /\ lost + 1 = 1 + lost /\ Allowance(0) = 0
<1>1. MaxRetries \in Nat
  BY EngineAssumption
<1>2. QED  BY <1>1, SMTT(30) DEF Allowance

\* No handler has run initially.
LEMMA BudgetInit == Init => BudgetInv
<1> SUFFICES ASSUME Init PROVE BudgetInv
  OBVIOUS
<1>1. \A t \in Threads : ~Executing(call[t])
  BY DEF Init, Executing, Idle
<1>2. \A k \in Keys : runs[k] = 0 /\ faults[k] = 0
  BY DEF Init
<1>3. 0 <= Allowance(0) /\ 0 <= Allowance(1 + 0)
  BY AllowanceGrows, EngineAssumption
<1>4. QED  BY <1>1, <1>2, <1>3 DEF BudgetInv, Spent

\* A step of one call, when callers take turns: only its own workflow's counts and
\* those of its execution have to be looked at.
LEMMA BudgetFrame ==
  ASSUME TypeOK, BudgetInv, OneAtATime, NEW t \in Threads, Busy(t), NEW d,
         call' = [call EXCEPT ![t] = d], d.op = "none" \/ d.key = call[t].key,
         \A j \in Keys : j # call[t].key =>
           row'[j] = row[j] /\ runs'[j] = runs[j] /\ faults'[j] = faults[j],
         LET k == call[t].key IN
         IF Executing(d) THEN Spending(d, runs'[k], faults'[k])
         ELSE Spent(row'[k], runs'[k], faults'[k])
  PROVE  BudgetInv'
<1> DEFINE k == call[t].key
<1>1. k \in Keys /\ call \in [Threads -> Call] /\ call'[t] = d
  BY DEF TypeOK, Call
<1>2. \A u \in Threads : u # t => ~Executing(call[u]) /\ ~Executing(call'[u])
  BY <1>1 DEF OneAtATime, Busy, Executing
<1>3. Executing(d) => d.key = k
  BY DEF Executing
<1>4. ASSUME NEW j \in Keys, NEW u \in Threads, Executing(call'[u]), call'[u].key = j
      PROVE  Spending(call'[u], runs'[j], faults'[j])
  <2>1. u = t /\ j = k
    BY <1>1, <1>2, <1>3, <1>4
  <2>2. QED  BY <1>1, <1>4, <2>1
<1>5. ASSUME NEW j \in Keys, \A u \in Threads : Executing(call'[u]) => call'[u].key # j
      PROVE  Spent(row'[j], runs'[j], faults'[j])
  <2>1. CASE j = k
    BY <1>1, <1>3, <1>5, <2>1
  <2>2. CASE j # k
    <3>1. \A u \in Threads : Executing(call[u]) => call[u].key # j
      BY <1>2, <2>2
    <3>2. Spent(row[j], runs[j], faults[j])
      BY <3>1 DEF BudgetInv
    <3>3. QED  BY <2>2, <3>2
  <2>3. QED  BY <2>1, <2>2
<1>6. QED  BY <1>4, <1>5 DEF BudgetInv

\* An execution that is over leaves a state after which no handler runs again, and
\* no call takes a workflow back from one.
LEMMA OverInTurn ==
  ASSUME TypeOK, GuardInv, TurnInv, NEW t \in Threads, Step(t)
  PROVE  LET k == call[t].key IN
         /\ row[k].state \in Over => row'[k].state \in Over
         /\ Executing(call[t]) /\ call'[t].op = "none" => row'[k].state \in Over
<1> DEFINE c == call[t]
           k == c.key
           r == row[k]
<1>1. /\ c \in Call /\ k \in Keys /\ r \in Row /\ c.row \in Row /\ c.phase \in Phases
      /\ row \in [Keys -> Row] /\ call \in [Threads -> Call]
  BY DEF TypeOK, Call
<1>2. /\ Busy(t) /\ RowInTurn(k, r, runs[k]) /\ Guarded(c)
      /\ InTurn(c, r, events[k], runs[k]) \/ CutShort(c, r, events[k], runs[k])
  BY StepElsewhere DEF TurnInv, Attended, GuardInv
<1>3. Ended \subseteq Over
  BY DEF Ended, Over
<1>4. CASE Create(t)
  <2>1. c.point = "create"
    BY <1>4 DEF Create
  <2>2. r.state = "none" /\ c.op # "execute"
    BY <1>2, <2>1 DEF InTurn, CutShort, Guarded
  <2>3. "none" \notin Over
    BY DEF Over
  <2>4. QED  BY <2>2, <2>3 DEF Executing
<1>5. CASE Save(t)
  <2> DEFINE s == Saved(c)
             m == IF c.phase \in TwoEvents THEN 2 ELSE 1
             d == [c EXCEPT !.row = s, !.point = "number", !.left = m]
  <2>1. c.point = "save" /\ row' = [row EXCEPT ![k] = s] /\ call' = [call EXCEPT ![t] = d]
    BY <1>1, <1>5 DEF Save
  <2>2. d.op = c.op
    <3> HIDE DEF s, m
    <3> QED  BY <1>1 DEF Call
  <2>3. c.op # "none"
    BY <1>2 DEF Busy
  <2> HIDE DEF d
  <2>4. call'[t].op # "none" /\ row'[k] = s
    BY <1>1, <2>1, <2>2, <2>3
  <2>5. s.state = IF c.phase = "retry" THEN c.row.state ELSE Target[c.phase]
    BY <1>1 DEF Saved, Row
  <2>6. CASE InTurn(c, r, events[k], runs[k])
    <3>1. /\ c.phase \in DOMAIN Source /\ r.state \in Source[c.phase]
          /\ c.phase = "retry" => c.row.state = r.state
      BY <1>1, <2>1, <2>6 DEF InTurn, Row
    <3>2. QED  BY <2>4, <2>5, <3>1, TurnTables
  <2>7. CASE CutShort(c, r, events[k], runs[k])
    <3>1. c.row.state \in Ended /\ c.phase \in {"retry", "succeed", "fail"}
      BY <2>1, <2>7 DEF CutShort
    <3>2. Target["succeed"] \in Over /\ Target["fail"] \in Over
      BY DEF Target, Over
    <3>3. QED  BY <1>3, <2>4, <2>5, <3>1, <3>2
  <2>8. QED  BY <1>2, <2>6, <2>7
<1>6. CASE ~Create(t) /\ ~Save(t)
  <2>1. row' = row
    BY <1>6 DEF Step, HaltRefuses, CheckSubmit, CheckApprove, CheckExecute, LookUp,
       SaveRaises, Number, AppendEvent, AppendRaises, AuditWritten, AuditLost, Gate,
       RunHandler, Local
  <2>2. ASSUME Executing(c), call'[t].op = "none" PROVE r.state \in Over
    <3>1. c.op = "execute" /\ c.point # "check"
      BY <2>2 DEF Executing
    <3>2. CASE CutShort(c, r, events[k], runs[k])
      <4>1. CASE c.row = r
        BY <1>3, <3>2, <4>1 DEF CutShort
      <4>2. CASE c.row # r
        <5>1. c.point = "save" /\ c.phase = "retry"
          BY <3>2, <4>2 DEF CutShort
        <5>2. QED
          BY <1>6, <5>1 DEF Step, HaltRefuses, CheckSubmit, CheckApprove, CheckExecute,
             LookUp, SaveRaises, Number, AppendEvent, AppendRaises, AuditWritten, AuditLost,
             Gate, RunHandler, CanSave
      <4>3. QED  BY <4>1, <4>2
    <3>3. CASE InTurn(c, r, events[k], runs[k])
      <4>1. c.phase \in Executions
        BY <3>1, <3>3 DEF InTurn
      <4>2. CASE c.point \in {"append", "audit"}
        <5>1. r.state = Target[c.phase]
          BY <3>3, <4>2 DEF InTurn
        <5>2. c.phase # "retry" => Target[c.phase] \in Over
          BY <4>1 DEF Executions, Target, Over
        <5>3. CASE c.phase = "retry"
          <6> DEFINE d == [c EXCEPT !.point = "run", !.guard = "none"]
                     f == InPhase(c, "fail")
                     g == [c EXCEPT !.point = "audit", !.left = 0]
                     l == c.left - 1
                     h == [c EXCEPT !.point = "number", !.left = l]
          <6>1. d.op = c.op /\ f.op = c.op /\ g.op = c.op
            BY <1>1, InPhaseFields DEF Call
          <6>2. h.op = c.op
            <7> HIDE DEF l
            <7> QED  BY <1>1 DEF Call
          <6>3. Continue(c) \in {d, f}
            BY <5>3, PhaseTables DEF Continue, AfterRetry
          <6>4. Logged(c) \in {g, h}
            BY <5>3 DEF Logged, Unaudited
          <6>5. AppendEvent(t) \/ AuditWritten(t) \/ AuditLost(t)
            BY <3>3, <4>2 DEF Step, HaltRefuses, CheckSubmit, CheckApprove, CheckExecute,
               LookUp, Create, Save, SaveRaises, Number, AppendRaises, Gate, RunHandler, InTurn
          <6>6. call'[t] \in {d, f, g, h}
            <7>1. call' = [call EXCEPT ![t] = Continue(c)]
                  \/ call' = [call EXCEPT ![t] = Logged(c)]
              BY <5>3, <6>5 DEF AppendEvent, AuditWritten, AuditLost, Consequential
            <7>2. QED
              <8> HIDE DEF d, f, g, h
              <8> QED  BY <1>1, <6>3, <6>4, <7>1
          <6>7. QED
            <7> HIDE DEF d, f, g, h
            <7> QED  BY <2>2, <3>1, <6>1, <6>2, <6>6
        <5>4. QED  BY <5>1, <5>2, <5>3
      <4>3. CASE c.point \notin {"append", "audit"}
        <5>1. SaveRaises(t) \/ Number(t) \/ RunHandler(t)
          <6>1. c.point # "lookup" /\ c.point # "create" /\ c.point # "gate"
            BY <1>2, <3>1 DEF Guarded
          <6>2. QED
            BY <1>6, <3>1, <4>3, <6>1 DEF Step, HaltRefuses, CheckSubmit, CheckApprove,
               CheckExecute, LookUp, AppendEvent, AppendRaises, AuditWritten, AuditLost, Gate
        <5>2. ~SaveRaises(t)
          <6>1. ASSUME c.point = "save" PROVE CanSave(c)
            <7>1. /\ c.phase \in DOMAIN Source /\ r.state \in Source[c.phase]
                  /\ c.row.state = r.state
              BY <1>1, <3>3, <6>1 DEF InTurn, Row
            <7>2. QED  BY <7>1, TurnTables DEF CanSave, Assigned
          <6>2. QED  BY <6>1 DEF SaveRaises
        <5>3. Number(t) => call'[t].op = c.op
          <6> DEFINE m == Len(events[k]) + 1
                     d == [c EXCEPT !.seq = m, !.point = "append"]
          <6>1. Number(t) => call' = [call EXCEPT ![t] = d]
            BY DEF Number, Local
          <6>2. d.op = c.op
            <7> HIDE DEF m
            <7> QED  BY <1>1 DEF Call
          <6> HIDE DEF d
          <6>3. QED  BY <1>1, <6>1, <6>2
        <5>4. RunHandler(t) => call'[t] # Idle
          <6> DEFINE m == c.attempt + 1
                     d == [c EXCEPT !.attempt = m]
                     e == [d EXCEPT !.row = [c.row EXCEPT !.out = TRUE]]
          <6>1. d \in Call /\ e \in Call
            <7>1. m \in Nat
              BY <1>1 DEF Call
            <7>2. [c.row EXCEPT !.out = TRUE] \in Row
              BY <1>1 DEF Row
            <7> HIDE DEF m
            <7>3. QED  BY <1>1, <7>1, <7>2 DEF Call
          <6>2. RunHandler(t) => \/ call' = [call EXCEPT ![t] = InPhase(e, "succeed")]
                                 \/ call' = [call EXCEPT ![t] = InPhase(d, "retry")]
            BY <1>1 DEF RunHandler, Call
          <6>3. InPhase(e, "succeed").point = "save" /\ InPhase(d, "retry").point = "save"
            <7> HIDE DEF d, e
            <7> QED  BY <6>1, InPhaseFields
          <6>4. Idle.point = "check"
            BY DEF Idle
          <6> HIDE DEF d, e
          <6>5. QED  BY <1>1, <6>2, <6>3, <6>4
        <5>5. call'[t] = Idle \/ call'[t].op = c.op
          BY StepCall
        <5>6. QED  BY <2>2, <3>1, <5>1, <5>2, <5>3, <5>4, <5>5
      <4>4. QED  BY <4>2, <4>3
    <3>4. QED  BY <1>2, <3>2, <3>3
  <2>3. QED  BY <2>1, <2>2
<1>7. QED  BY <1>4, <1>5, <1>6

\* Only an invocation of the handler counts an attempt, and the loop ends when the
\* attempts are used up.
LEMMA AttemptsKept ==
  ASSUME TypeOK, NEW t \in Threads, Step(t)
  PROVE  LET c == call[t]
             d == call'[t]
         IN \/ d = Idle /\ runs' = runs
            \/ /\ RunHandler(t) /\ d.op = c.op /\ d.key = c.key /\ d.point = "save"
               /\ d.attempt = c.attempt + 1 /\ runs' = [runs EXCEPT ![c.key] = @ + 1]
            \/ /\ d.op = c.op /\ d.key = c.key /\ d.attempt = c.attempt /\ runs' = runs
               /\ d.point = "run" => CheckExecute(t) \/ c.attempt <= MaxRetries
               /\ d.point = "check" => c.point = "check"
<1> DEFINE c == call[t]
           Keeps(d) == /\ d.op = c.op /\ d.key = c.key /\ d.attempt = c.attempt
                       /\ d.point # "run" /\ d.point # "check"
           Loops(d) == d = Idle \/ Keeps(d)
                       \/ (/\ d.op = c.op /\ d.key = c.key /\ d.attempt = c.attempt
                           /\ d.point = "run" /\ c.attempt <= MaxRetries)
<1>1. /\ c \in Call /\ c.attempt \in Nat /\ MaxRetries \in Nat
      /\ call \in [Threads -> Call] /\ c.phase \in Phases
  BY EngineAssumption DEF TypeOK, Call
<1>2. \A p : Keeps(InPhase(c, p))
  BY <1>1, InPhaseFields
<1>3. Loops(Raised(c))
  BY <1>2 DEF Raised
<1>4. Loops(Continue(c))
  <2>1. Keeps([c EXCEPT !.point = "gate"])
    BY <1>1 DEF Call
  <2>2. c.attempt <= MaxRetries => Loops([c EXCEPT !.point = "run", !.guard = "none"])
    BY <1>1 DEF Call
  <2>3. c.attempt > MaxRetries \/ c.attempt <= MaxRetries
    BY <1>1
  <2>4. Loops(AfterRetry(c))
    BY <1>2, <2>2, <2>3 DEF AfterRetry
  <2>5. QED  BY <1>2, <2>1, <2>4 DEF Continue
<1>5. Loops(Logged(c))
  <2> DEFINE l == c.left - 1
  <2>1. Keeps([c EXCEPT !.point = "number", !.left = l])
    <3> HIDE DEF l
    <3> QED  BY <1>1 DEF Call
  <2>2. Keeps([c EXCEPT !.point = "audit", !.left = 0])
    BY <1>1 DEF Call
  <2>3. QED  BY <1>4, <2>1, <2>2 DEF Logged
<1>6. ASSUME NEW d, call' = [call EXCEPT ![t] = d], Loops(d), runs' = runs
      PROVE  Loops(call'[t]) /\ runs' = runs
  BY <1>1, <1>6
<1>7. CASE HaltRefuses(t)
  BY <1>1, <1>7 DEF HaltRefuses
<1>8. CASE CheckSubmit(t)
  <2>1. Keeps([c EXCEPT !.point = "lookup"])
    BY <1>1 DEF Call
  <2>2. QED  BY <1>1, <1>8, <2>1 DEF CheckSubmit, Local
<1>9. CASE CheckApprove(t)
  BY <1>1, <1>2, <1>9 DEF CheckApprove, Local
<1>10. CASE CheckExecute(t)
  <2> DEFINE e == [c EXCEPT !.point = "run"]
  <2>1. e.op = c.op /\ e.key = c.key /\ e.attempt = c.attempt /\ e.point = "run"
    BY <1>1 DEF Call
  <2>2. runs' = runs /\ (\/ call' = [call EXCEPT ![t] = Idle]
                         \/ call' = [call EXCEPT ![t] = InPhase(c, "late")]
                         \/ call' = [call EXCEPT ![t] = InPhase(c, "nohandler")]
                         \/ call' = [call EXCEPT ![t] = e])
    BY <1>10 DEF CheckExecute, Local
  <2> HIDE DEF e
  <2>3. QED  BY <1>1, <1>2, <1>10, <2>1, <2>2
<1>11. CASE LookUp(t)
  <2>1. \A p : Keeps([c EXCEPT !.point = "create", !.phase = p])
    BY <1>1 DEF Call
  <2>2. QED  BY <1>1, <1>11, <2>1 DEF LookUp, Local
<1>12. CASE Create(t)
  <2> DEFINE s == IF row[c.key].state = "none" THEN NewRow(c.key, Target[c.phase])
                  ELSE row[c.key]
             pt == IF c.phase = "refused" /\ row[c.key].state # "none"
                   THEN "audit" ELSE "number"
             d == [c EXCEPT !.row = s, !.left = 1, !.point = pt]
  <2>1. call' = [call EXCEPT ![t] = d] /\ runs' = runs
    BY <1>1, <1>12 DEF Create
  <2>2. pt # "run" /\ pt # "check"
    OBVIOUS
  <2>3. Keeps(d)
    <3> HIDE DEF s, pt
    <3> QED  BY <1>1, <2>2 DEF Call
  <2> HIDE DEF d
  <2>4. QED  BY <1>1, <2>1, <2>3
<1>13. CASE Save(t)
  <2> DEFINE s == Saved(c)
             m == IF c.phase \in TwoEvents THEN 2 ELSE 1
             d == [c EXCEPT !.row = s, !.point = "number", !.left = m]
  <2>1. call' = [call EXCEPT ![t] = d] /\ runs' = runs
    BY <1>1, <1>13 DEF Save
  <2>2. Keeps(d)
    <3> HIDE DEF s, m
    <3> QED  BY <1>1 DEF Call
  <2> HIDE DEF d
  <2>3. QED  BY <1>1, <2>1, <2>2
<1>14. CASE SaveRaises(t) \/ AppendRaises(t)
  BY <1>1, <1>3, <1>14 DEF SaveRaises, AppendRaises, Local
<1>15. CASE Number(t)
  <2> DEFINE m == Len(events[c.key]) + 1
             d == [c EXCEPT !.seq = m, !.point = "append"]
  <2>1. call' = [call EXCEPT ![t] = d] /\ runs' = runs
    BY <1>15 DEF Number, Local
  <2>2. Keeps(d)
    <3> HIDE DEF m
    <3> QED  BY <1>1 DEF Call
  <2> HIDE DEF d
  <2>3. QED  BY <1>1, <2>1, <2>2
<1>16. CASE AppendEvent(t)
  BY <1>1, <1>5, <1>16 DEF AppendEvent
<1>17. CASE AuditWritten(t) \/ AuditLost(t)
  BY <1>1, <1>2, <1>4, <1>17 DEF AuditWritten, AuditLost
<1>18. CASE Gate(t)
  BY <1>1, <1>2, <1>18 DEF Gate, Local
<1>19. CASE RunHandler(t)
  <2> DEFINE m == c.attempt + 1
             d == [c EXCEPT !.attempt = m]
             e == [d EXCEPT !.row = [c.row EXCEPT !.out = TRUE]]
  <2>1. /\ d \in Call /\ d.op = c.op /\ d.key = c.key /\ d.attempt = m
    <3>1. m \in Nat
      BY <1>1
    <3> HIDE DEF m
    <3>2. QED  BY <1>1, <3>1 DEF Call
  <2>2. e \in Call /\ e.op = c.op /\ e.key = c.key /\ e.attempt = m
    <3>1. [c.row EXCEPT !.out = TRUE] \in Row
      BY <1>1 DEF Call, Row
    <3> HIDE DEF d, m
    <3>2. QED  BY <2>1, <3>1 DEF Call
  <2>3. /\ runs' = [runs EXCEPT ![c.key] = @ + 1]
        /\ \/ call' = [call EXCEPT ![t] = InPhase(e, "succeed")]
           \/ call' = [call EXCEPT ![t] = InPhase(d, "retry")]
    BY <1>1, <1>19 DEF RunHandler, Call
  <2> HIDE DEF d, e
  <2>4. QED  BY <1>1, <1>19, <2>1, <2>2, <2>3, InPhaseFields
<1>20. QED
  BY <1>7, <1>8, <1>9, <1>10, <1>11, <1>12, <1>13, <1>14, <1>15, <1>16, <1>17, <1>18,
     <1>19 DEF Step

\* Every store operation of the only call keeps the handler runs within the allowance.
LEMMA BudgetStep ==
  ASSUME TypeOK, GuardInv, TurnInv, BudgetInv, OneAtATime, NEW t \in Threads, Step(t)
  PROVE  BudgetInv'
<1> DEFINE c == call[t]
           k == c.key
           d == call'[t]
           n == runs[k]
           lost == faults[k]
<1>1. /\ k \in Keys /\ n \in Nat /\ lost \in Nat /\ c.attempt \in Nat /\ MaxRetries \in Nat
      /\ runs \in [Keys -> Nat] /\ c.op # "none" /\ Busy(t) /\ faults' = faults
      /\ \A j \in Keys : j # k => row'[j] = row[j] /\ runs'[j] = runs[j]
  BY StepElsewhere, EngineAssumption DEF TypeOK, Call, Busy
<1>2. Allowance(lost) \in Nat /\ Allowance(1 + lost) = Allowance(lost) + MaxRetries + 1
  BY <1>1, AllowanceGrows
<1>3. call' = [call EXCEPT ![t] = d] /\ (d.op = "none" \/ d.key = k)
  <2>1. Idle.op = "none"
    BY DEF Idle
  <2>2. QED  BY <2>1, StepCall
<1>4. SUFFICES IF Executing(d) THEN Spending(d, runs'[k], lost)
               ELSE Spent(row'[k], runs'[k], lost)
  <2>1. IF Executing(d) THEN Spending(d, runs'[k], faults'[k])
        ELSE Spent(row'[k], runs'[k], faults'[k])
    BY <1>1, <1>4
  <2>2. \A j \in Keys : j # k =>
           row'[j] = row[j] /\ runs'[j] = runs[j] /\ faults'[j] = faults[j]
    BY <1>1
  <2> HIDE DEF d
  <2>3. QED  BY <1>1, <1>3, <2>1, <2>2, BudgetFrame
<1>5. /\ row[k].state \in Over => row'[k].state \in Over
      /\ Executing(c) /\ d.op = "none" => row'[k].state \in Over
  BY OverInTurn
<1>6. \/ d.op = "none" /\ runs'[k] = n
      \/ /\ RunHandler(t) /\ d.op = c.op /\ d.point = "save"
         /\ d.attempt = c.attempt + 1 /\ runs'[k] = n + 1
      \/ /\ d.op = c.op /\ d.attempt = c.attempt /\ runs'[k] = n
         /\ d.point = "run" => CheckExecute(t) \/ c.attempt <= MaxRetries
         /\ d.point = "check" => c.point = "check"
  <2>1. \/ d = Idle /\ runs' = runs
        \/ /\ RunHandler(t) /\ d.op = c.op /\ d.key = c.key /\ d.point = "save"
           /\ d.attempt = c.attempt + 1 /\ runs' = [runs EXCEPT ![c.key] = @ + 1]
        \/ /\ d.op = c.op /\ d.key = c.key /\ d.attempt = c.attempt /\ runs' = runs
           /\ d.point = "run" => CheckExecute(t) \/ c.attempt <= MaxRetries
           /\ d.point = "check" => c.point = "check"
    BY AttemptsKept
  <2>2. Idle.op = "none"
    BY DEF Idle
  <2> HIDE DEF d
  <2>3. QED  BY <1>1, <2>1, <2>2
<1>7. CASE Executing(c)
  <2>1. c.attempt <= MaxRetries + 1 /\ n <= Allowance(lost) + c.attempt
        /\ (c.point = "run" => c.attempt <= MaxRetries)
    BY <1>1, <1>7 DEF BudgetInv, Spending
  <2>2. ~CheckExecute(t) /\ c.op = "execute" /\ c.point # "check"
    BY <1>7 DEF CheckExecute, Executing
  <2>3. RunHandler(t) => c.point = "run"
    BY DEF RunHandler
  <2> HIDE DEF d
  <2>4. CASE d.op = "none" /\ runs'[k] = n
    <3>1. n <= Allowance(1 + lost)
      BY <1>1, <1>2, <2>1
    <3>2. ~Executing(d)
      BY <2>4 DEF Executing
    <3>3. row'[k].state \in Over
      BY <1>5, <1>7, <2>4
    <3>4. QED  BY <2>4, <3>1, <3>2, <3>3 DEF Spent
  <2>5. CASE RunHandler(t) /\ d.op = c.op /\ d.point = "save"
             /\ d.attempt = c.attempt + 1 /\ runs'[k] = n + 1
    <3>1. d.attempt <= MaxRetries + 1 /\ n + 1 <= Allowance(lost) + d.attempt
      BY <1>1, <1>2, <2>1, <2>3, <2>5
    <3>2. Executing(d)
      BY <2>2, <2>5 DEF Executing
    <3>3. QED  BY <2>5, <3>1, <3>2 DEF Spending
  <2>6. CASE /\ d.op = c.op /\ d.attempt = c.attempt /\ runs'[k] = n
             /\ d.point = "run" => CheckExecute(t) \/ c.attempt <= MaxRetries
             /\ d.point = "check" => c.point = "check"
    BY <2>1, <2>2, <2>6 DEF Spending, Executing
  <2>7. QED  BY <1>6, <2>4, <2>5, <2>6
<1>8. CASE ~Executing(c)
  <2>1. \A u \in Threads : Executing(call[u]) => u = t
    BY <1>1 DEF OneAtATime, Executing, Busy
  <2>2. \A u \in Threads : ~Executing(call[u])
    BY <1>8, <2>1
  <2>3. Spent(row[k], n, lost)
    BY <1>1, <2>2 DEF BudgetInv
  <2>4. ~RunHandler(t)
    BY <1>8 DEF RunHandler, GuardInv, Guarded, Executing
  <2>5. runs'[k] = n
    BY <1>6, <2>4
  <2>6. CASE ~Executing(d)
    BY <1>5, <2>3, <2>5, <2>6 DEF Spent
  <2>7. CASE Executing(d)
    <3>1. d.op = "execute" /\ d.point # "check"
      BY <2>7 DEF Executing
    <3>2. c.op = "execute" /\ c.point = "check" /\ d.attempt = c.attempt
      BY <1>6, <1>8, <2>4, <3>1 DEF Executing
    <3>3. CheckExecute(t)
      <4>1. d # Idle
        BY <3>1 DEF Idle
      <4>2. ~HaltRefuses(t)
        <5>1. call \in [Threads -> Call]
          BY DEF TypeOK
        <5>2. QED  BY <4>1, <5>1 DEF HaltRefuses
      <4>3. QED
        BY <3>2, <4>2 DEF Step, CheckSubmit, CheckApprove, LookUp, Create, Save,
           SaveRaises, Number, AppendEvent, AppendRaises, AuditWritten, AuditLost, Gate,
           RunHandler
    <3>4. InTurn(c, row[k], events[k], n)
      BY <1>1, <3>2 DEF TurnInv, Attended, CutShort
    <3>5. c.attempt = 0 /\ c.row = row[k]
      BY <3>2, <3>4 DEF InTurn
    <3>6. c.row.state = "executing"
      <4>1. call \in [Threads -> Call] /\ Idle.op = "none"
        BY DEF TypeOK, Idle
      <4>2. c.row.state # "executing" => d = Idle
        BY <3>3, <4>1 DEF CheckExecute, Local
      <4>3. QED  BY <3>1, <4>1, <4>2
    <3>7. n <= Allowance(lost)
      BY <2>3, <3>5, <3>6 DEF Spent, Over
    <3> HIDE DEF d
    <3>8. QED  BY <1>1, <1>2, <2>5, <2>7, <3>2, <3>5, <3>7 DEF Spending
  <2>8. QED  BY <2>6, <2>7
<1>9. QED  BY <1>7, <1>8

\* A call cut short may have left an execution unfinished: its budget is counted on.
LEMMA BudgetFault ==
  ASSUME TypeOK, GuardInv, BudgetInv, OneAtATime, NEW t \in Threads, Die(t) \/ StoreFails(t)
  PROVE  BudgetInv'
<1> DEFINE c == call[t]
           k == c.key
           d == call'[t]
           n == runs[k]
           lost == faults[k]
<1>1. /\ k \in Keys /\ n \in Nat /\ lost \in Nat /\ c.attempt \in Nat /\ MaxRetries \in Nat
      /\ c \in Call /\ call \in [Threads -> Call] /\ faults \in [Keys -> Nat]
  BY EngineAssumption DEF TypeOK, Call
<1>2. /\ Busy(t) /\ row' = row /\ runs' = runs
      /\ faults' = [faults EXCEPT ![k] = @ + 1]
  BY DEF Die, StoreFails
<1>3. /\ call' = [call EXCEPT ![t] = d]
      /\ \/ d.op = "none"
         \/ /\ d.key = k /\ d.op = c.op /\ d.attempt = c.attempt /\ d.point = "save"
            /\ c.guard = "attempt"
  <2>1. CASE call' = [call EXCEPT ![t] = Idle]
    BY <1>1, <2>1 DEF Idle
  <2>2. CASE call' = [call EXCEPT ![t] = InPhase(c, "retry")] /\ c.guard = "attempt"
    BY <1>1, <2>2, InPhaseFields
  <2>3. CASE /\ call' = [call EXCEPT ![t] = InPhase(Ahead(c), "retry")]
             /\ Ahead(c) \in Call /\ c.guard = "attempt"
    <3>1. Saved(c) \in Row
      BY <1>1, SavedTyped
    <3>2. Ahead(c).key = k /\ Ahead(c).op = c.op /\ Ahead(c).attempt = c.attempt
      BY <1>1, <3>1 DEF Ahead, Call
    <3>3. QED  BY <1>1, <2>3, <3>2, InPhaseFields
  <2>4. QED  BY <2>1, <2>2, <2>3, FailureMoves DEF Die
<1>4. /\ Allowance(lost) \in Nat /\ Allowance(1 + lost) = Allowance(lost) + MaxRetries + 1
      /\ Allowance(1 + (1 + lost)) = Allowance(1 + lost) + MaxRetries + 1
      /\ faults'[k] = 1 + lost
  <2>1. 1 + lost \in Nat
    BY <1>1
  <2>2. QED  BY <1>1, <1>2, <2>1, AllowanceGrows
<1>5. n <= Allowance(1 + lost)
  <2>1. CASE Executing(c)
    <3>1. c.attempt <= MaxRetries + 1 /\ n <= Allowance(lost) + c.attempt
      BY <1>1, <2>1 DEF BudgetInv, Spending
    <3>2. QED  BY <1>1, <1>4, <3>1
  <2>2. CASE ~Executing(c)
    <3>1. \A u \in Threads : ~Executing(call[u])
      BY <1>2, <2>2 DEF OneAtATime, Executing, Busy
    <3>2. QED  BY <1>1, <3>1 DEF BudgetInv, Spent
  <2>3. QED  BY <2>1, <2>2
<1>6. CASE d.op = "none"
  <2>1. n <= Allowance(1 + (1 + lost))
    BY <1>1, <1>4, <1>5
  <2>2. ~Executing(d) /\ Spent(row'[k], runs'[k], faults'[k])
    BY <1>2, <1>4, <1>5, <1>6, <2>1 DEF Spent, Executing
  <2>3. \A j \in Keys : j # k =>
           row'[j] = row[j] /\ runs'[j] = runs[j] /\ faults'[j] = faults[j]
    BY <1>1, <1>2
  <2> HIDE DEF d
  <2>4. QED  BY <1>2, <1>3, <1>6, <2>2, <2>3, BudgetFrame
<1>7. CASE d.op # "none"
  <2>1. /\ d.key = k /\ d.op = c.op /\ d.attempt = c.attempt /\ d.point = "save"
        /\ c.guard = "attempt"
    BY <1>3, <1>7
  <2>2. Executing(c) /\ Executing(d)
    <3>1. c.op = "execute" /\ c.point # "check"
      BY <2>1 DEF GuardInv, Guarded
    <3>2. QED  BY <2>1, <3>1 DEF Executing
  <2>3. Spending(d, runs'[k], faults'[k])
    <3>1. c.attempt <= MaxRetries + 1 /\ n <= Allowance(lost) + c.attempt
      BY <1>1, <2>2 DEF BudgetInv, Spending
    <3>2. n <= Allowance(1 + lost) + c.attempt
      BY <1>1, <1>4, <3>1
    <3>3. QED  BY <1>2, <1>4, <2>1, <3>1, <3>2 DEF Spending
  <2>4. \A j \in Keys : j # k =>
           row'[j] = row[j] /\ runs'[j] = runs[j] /\ faults'[j] = faults[j]
    BY <1>1, <1>2
  <2> HIDE DEF d
  <2>5. QED  BY <1>2, <1>3, <2>1, <2>2, <2>3, <2>4, BudgetFrame
<1>8. QED  BY <1>6, <1>7

\* So does every action of a caller that takes its turn.
LEMMA BudgetNext ==
  ASSUME TypeOK, GuardInv, TurnInv, BudgetInv, OneAtATime, [Next]_vars
  PROVE  BudgetInv'
<1>1. ASSUME NEW t \in Threads, Invocation(t) PROVE BudgetInv'
  <2>1. ASSUME NEW op, NEW k, NEW p, NEW pt, NEW r, NEW by,
               op = "execute" => pt = "check"
        PROVE  ~Executing(Invoke(op, k, p, pt, r, by))
    BY <2>1 DEF Invoke, Idle, Executing
  <2>2. PICK e : ~Executing(e) /\ Begin(t, e)
    BY <1>1, <2>1 DEF Invocation, CallSubmit, CallApprove, CallExecute, CallCancel
  <2>3. /\ call' = [call EXCEPT ![t] = e] /\ UNCHANGED <<row, runs, faults>>
        /\ ~Executing(call[t]) /\ call \in [Threads -> Call]
    BY <2>2 DEF Begin, Busy, Executing, TypeOK
  <2>4. \A u \in Threads : Executing(call'[u]) <=> Executing(call[u])
    BY <2>2, <2>3
  <2>5. \A u \in Threads : Executing(call[u]) => call'[u] = call[u]
    BY <2>3
  <2>6. QED  BY <2>3, <2>4, <2>5 DEF BudgetInv
<1>2. CASE (\E k \in Keys : Expire(k)) \/ Engage \/ Release \/ UNCHANGED vars
  BY <1>2 DEF Expire, Engage, Release, vars, counters, BudgetInv
<1>3. QED  BY <1>1, <1>2, BudgetStep, BudgetFault DEF Next

\* The attempts of every execution are counted within max_retries + 1, whether its
\* call returns, is cut short by a crash, or goes on after a store operation failed.
THEOREM BudgetHolds == Spec /\ []OneAtATime => []BudgetInv
<1>1. TypeOK /\ GuardInv /\ TurnInv /\ BudgetInv /\ OneAtATime /\ [Next]_vars => BudgetInv'
  BY BudgetNext
<1>2. QED  BY <1>1, BudgetInit, TurnHolds, TypeCorrect, GuardHolds, PTL DEF Spec

\* Callers who take turns invoke a handler within its budget, and take at most one
\* result from it unless a call was cut short (execute's loop over max_retries, and
\* its except clause).
THEOREM BudgetKept == Spec /\ []OneAtATime => []ExecutionBounded
<1>1. ASSUME TurnInv, NEW k \in Keys, faults[k] = 0 PROVE wins[k] <= 1
  <2>1. CASE \E t \in Threads : Busy(t) /\ call[t].key = k
    BY <1>1, <2>1 DEF TurnInv, Attended, Worked, Rested, WithinBudget
  <2>2. CASE ~\E t \in Threads : Busy(t) /\ call[t].key = k
    BY <1>1, <2>2 DEF TurnInv, Alone, Rested, WithinBudget
  <2>3. QED  BY <2>1, <2>2
<1>2. ASSUME TypeOK, BudgetInv, OneAtATime, NEW k \in Keys
      PROVE  runs[k] <= (MaxRetries + 1) * (1 + faults[k])
  <2>1. runs[k] \in Nat /\ faults[k] \in Nat /\ MaxRetries \in Nat
    BY <1>2, EngineAssumption DEF TypeOK
  <2>2. Allowance(faults[k]) \in Nat
        /\ Allowance(1 + faults[k]) = Allowance(faults[k]) + MaxRetries + 1
    BY <2>1, AllowanceGrows
  <2>3. runs[k] <= Allowance(1 + faults[k])
    <3>1. CASE \E t \in Threads : Executing(call[t]) /\ call[t].key = k
      <4>1. PICK t \in Threads : Executing(call[t]) /\ call[t].key = k
        BY <3>1
      <4>2. call[t].attempt \in Nat
        BY <1>2 DEF TypeOK, Call
      <4>3. call[t].attempt <= MaxRetries + 1 /\ runs[k] <= Allowance(faults[k]) + call[t].attempt
        BY <1>2, <4>1 DEF BudgetInv, Spending
      <4>4. QED  BY <2>1, <2>2, <4>2, <4>3
    <3>2. CASE ~\E t \in Threads : Executing(call[t]) /\ call[t].key = k
      BY <1>2, <3>2 DEF BudgetInv, Spent
    <3>3. QED  BY <3>1, <3>2
  <2>4. QED  BY <2>3 DEF Allowance
<1>3. TypeOK /\ TurnInv /\ BudgetInv /\ OneAtATime => ExecutionBounded
  BY <1>1, <1>2 DEF ExecutionBounded, RetryBudget, NoDuplicateExecution
<1>4. QED  BY <1>3, TypeCorrect, TurnHolds, BudgetHolds, PTL
-------------------------------------------------------------------------------
(* How a step changes the stored rows when callers take turns.              *)

\* The row a save replaces, and the one it stores.
LEMMA SaveInTurn ==
  ASSUME TypeOK, ClearanceInv, TurnInv, NEW t \in Threads, Save(t),
         LET k == call[t].key IN ~CutShort(call[t], row[k], events[k], runs[k])
  PROVE  LET c == call[t]
             k == c.key
         IN /\ c.phase \in DOMAIN Source /\ row[k].state \in Source[c.phase]
            /\ row' = [row EXCEPT ![k] = Saved(c)] /\ UNCHANGED <<runs, wins>>
            /\ Saved(c).state = Target[c.phase]
            /\ Saved(c).out = (row[k].out \/ c.phase = "succeed")
            /\ c.phase = "succeed" => runs[k] > 0
            /\ row[k].out => row[k].state \in Over
            /\ c.phase = "hold" => EvaluateGate(Request[k]) = "hold"
            /\ c.phase = "go" /\ row[k].state = "validated" =>
                 EvaluateGate(Request[k]) = "go"
            /\ RowClear(k, row[k], Grants)
<1> DEFINE c == call[t]
           k == c.key
           r == row[k]
<1>1. c \in Call /\ k \in Keys /\ r \in Row /\ c.row \in Row /\ Busy(t) /\ c.point = "save"
  BY DEF Save, TypeOK, Call
<1>2. InTurn(c, r, events[k], runs[k]) /\ RowInTurn(k, r, runs[k]) /\ RowClear(k, r, Grants)
  BY <1>1 DEF TurnInv, Attended, ClearanceInv
<1>3. /\ c.phase \in DOMAIN Source /\ r.state \in Source[c.phase]
      /\ c.row = IF c.phase = "succeed" THEN [r EXCEPT !.out = TRUE] ELSE r
  BY <1>1, <1>2 DEF InTurn
<1>4. c.row.state = r.state /\ c.row.out = (r.out \/ c.phase = "succeed")
  BY <1>1, <1>3 DEF Row
<1>5. /\ Saved(c).state = IF c.phase = "retry" THEN c.row.state ELSE Target[c.phase]
      /\ Saved(c).out = c.row.out
  BY <1>1 DEF Saved, Row
<1>6. c.phase = "retry" => r.state = "executing" /\ Target[c.phase] = "executing"
  BY <1>3 DEF Source, Target
<1>7. row' = [row EXCEPT ![k] = Saved(c)] /\ UNCHANGED <<runs, wins>>
  BY DEF Save
<1>8. QED  BY <1>1, <1>2, <1>3, <1>4, <1>5, <1>6, <1>7 DEF InTurn, RowInTurn

\* The row that a call saves whose attempt was cut short: it goes where its copy
\* went before the store operation failed, and has the result.
LEMMA SaveCutShort ==
  ASSUME TypeOK, NEW t \in Threads, Save(t),
         LET k == call[t].key IN CutShort(call[t], row[k], events[k], runs[k])
  PROVE  LET c == call[t]
             k == c.key
         IN /\ row' = [row EXCEPT ![k] = Saved(c)] /\ UNCHANGED <<runs, wins>>
            /\ runs[k] > 0 /\ Saved(c).out /\ (row[k].out \/ row[k].state = "executing")
            /\ \/ Saved(c).state \in {row[k].state, "dead_letter"}
               \/ IsValidTransition(row[k].state, Saved(c).state)
<1> DEFINE c == call[t]
           k == c.key
           r == row[k]
<1>1. c \in Call /\ c.row \in Row /\ c.point = "save" /\ CanSave(c)
  BY DEF Save, TypeOK, Call
<1>2. c.phase \in {"retry", "succeed", "fail"} /\ c.row.state \in Ended /\ c.row.out /\ runs[k] > 0
  BY <1>1 DEF CutShort
<1>3. c.phase = "retry"
  <2>1. ~IsValidTransition(c.row.state, "succeeded") /\ ~IsValidTransition(c.row.state, "failed")
    BY <1>2 DEF Ended, IsValidTransition, ValidTransitions
  <2>2. Target["succeed"] = "succeeded" /\ Target["fail"] = "failed"
    BY DEF Target
  <2>3. QED  BY <1>1, <1>2, <2>1, <2>2 DEF CanSave, Assigned
<1>4. Saved(c).state = c.row.state /\ Saved(c).out = c.row.out
  BY <1>1, <1>3 DEF Saved, Row
<1>5. /\ r.out \/ r.state = "executing"
      /\ c.row.state \in {r.state, "dead_letter"} \/ IsValidTransition(r.state, c.row.state)
  BY <1>1, <1>3 DEF CutShort
<1>6. row' = [row EXCEPT ![k] = Saved(c)] /\ UNCHANGED <<runs, wins>>
  BY DEF Save
<1>7. QED  BY <1>2, <1>4, <1>5, <1>6

\* A row is saved from a source of its phase, or follows its copy.
LEMMA LegalStep ==
  ASSUME TypeOK, ClearanceInv, TurnInv, [Next]_vars, NEW k \in Keys,
         row[k].state \notin {"none", row'[k].state}
  PROVE  IsValidTransition(row[k].state, row'[k].state) \/ row'[k].state = "dead_letter"
<1>1. PICK t \in Threads : Create(t) \/ Save(t)
  <2>1. ~UNCHANGED <<row, runs>>
    OBVIOUS
  <2>2. PICK t \in Threads : Create(t) \/ Save(t) \/ RunHandler(t)
    BY <2>1, Writers
  <2>3. RunHandler(t) => row' = row
    BY DEF RunHandler
  <2>4. QED  BY <2>2, <2>3
<1> DEFINE c == call[t]
<1>2. c.key \in Keys /\ row \in [Keys -> Row]
  BY DEF TypeOK, Call
<1>3. CASE Create(t)
  <2>1. Busy(t) /\ c.point = "create"
    BY <1>3 DEF Create
  <2>2. row[c.key].state = "none"
    BY <2>1 DEF TurnInv, Attended, InTurn, CutShort
  <2>3. \A j \in Keys : j # c.key => row'[j] = row[j]
    BY <1>3, StepElsewhere DEF Step
  <2>4. QED  BY <2>2, <2>3
<1>4. CASE Save(t) /\ CutShort(c, row[c.key], events[c.key], runs[c.key])
  <2>1. /\ row' = [row EXCEPT ![c.key] = Saved(c)]
        /\ \/ Saved(c).state \in {row[c.key].state, "dead_letter"}
           \/ IsValidTransition(row[c.key].state, Saved(c).state)
    BY <1>4, SaveCutShort
  <2>2. c.key = k /\ row'[k].state = Saved(c).state
    BY <1>2, <2>1
  <2>3. QED  BY <2>1, <2>2
<1>5. CASE Save(t) /\ ~CutShort(c, row[c.key], events[c.key], runs[c.key])
  <2>1. /\ c.phase \in DOMAIN Source /\ row[c.key].state \in Source[c.phase]
        /\ row' = [row EXCEPT ![c.key] = Saved(c)]
        /\ Saved(c).state = Target[c.phase]
    BY <1>5, SaveInTurn
  <2>2. c.key = k /\ row'[k].state = Target[c.phase]
    BY <1>2, <2>1
  <2>3. c.phase = "retry" => row[k].state = "executing" /\ Target[c.phase] = "executing"
    BY <2>1, <2>2 DEF Source, Target
  <2>4. Target["failclosed"] = "dead_letter"
    BY DEF Target
  <2>5. QED  BY <2>1, <2>2, <2>3, <2>4, TurnTables
<1>6. QED  BY <1>1, <1>3, <1>4, <1>5

\* With callers who take turns a stored workflow moves along VALID_TRANSITIONS
\* alone, except to fail closed (Workflow.transition, Engine._fail_closed).
THEOREM TransitionsLegal == Spec /\ []OneAtATime => StoredTransitionsLegal
<1>1. TypeOK /\ ClearanceInv /\ TurnInv /\ [Next]_vars =>
        [\A k \in Keys : row[k].state \notin {"none", row'[k].state} =>
           IsValidTransition(row[k].state, row'[k].state) \/ row'[k].state = "dead_letter"]_vars
  BY LegalStep
<1>2. QED  BY <1>1, TurnHolds, TypeCorrect, ClearanceHolds, PTL DEF Spec, StoredTransitionsLegal
-------------------------------------------------------------------------------
(* The refinement of GovernedWork.                                          *)

\* Where the requests stand, and those attempted: what GovernedWork sees.
Stages == [k \in Keys |-> StageOf(row[k])]
Tried == {k \in Keys : runs[k] > 0}

\* A row written at one key moves that request alone.
LEMMA StageHop ==
  ASSUME TypeOK, NEW k \in Keys, NEW r, row' = [row EXCEPT ![k] = r], UNCHANGED runs
  PROVE  /\ Stages' = [Stages EXCEPT ![k] = StageOf(r)] /\ Tried' = Tried
         /\ Stages[k] = StageOf(row[k])
         /\ StageOf(r) = StageOf(row[k]) => Stages' = Stages
<1>1. \A j \in Keys : row'[j] = IF j = k THEN r ELSE row[j]
  BY DEF TypeOK
<1> DEFINE S(q) == StageOf(q)
<1>2. Stages' = [j \in Keys |-> S(row'[j])] /\ Stages = [j \in Keys |-> S(row[j])]
  BY DEF Stages
<1>3. S(r) = StageOf(r) /\ S(row[k]) = StageOf(row[k])
  OBVIOUS
<1> HIDE DEF S
<1>4. QED  BY <1>1, <1>2, <1>3 DEF Tried

\* The stages a save may take a request through, by its phase.
LEMMA StagesInTurn ==
  ASSUME NEW r, NEW s, NEW p \in DOMAIN Source, r.state \in Source[p],
         s.state = Target[p], s.out = (r.out \/ p = "succeed"),
         r.out \in BOOLEAN, r.out => r.state \in Over
  PROVE  LET a == StageOf(r)
             b == StageOf(s)
         IN \/ a = b
            \/ p = "hold" /\ a = "none" /\ b = "held"
            \/ p = "go" /\ r.state = "validated" /\ a = "none" /\ b = "cleared"
            \/ p = "grant" /\ a = "held" /\ b = "cleared"
            \/ p = "succeed" /\ a = "cleared" /\ b = "done"
            \/ a \in {"none", "held", "cleared"} /\ b = "stopped"
<1>1. CASE r.out
  BY <1>1 DEF StageOf
<1>2. CASE ~r.out /\ p = "succeed"
  <2>1. r.state = "executing"
    BY <1>2 DEF Source
  <2>2. QED  BY <1>2, <2>1 DEF StageOf
<1>3. CASE ~r.out /\ p # "succeed"
  <2>1. ~s.out
    BY <1>3
  <2> DEFINE none == {"none", "proposed", "validated"}
             ends == {"failed", "dead_letter", "succeeded", "closed", "cancelled"}
  <2>2. /\ r.state \in none => StageOf(r) = "none"
        /\ r.state = "awaiting_approval" => StageOf(r) = "held"
        /\ r.state \in {"approved", "executing"} => StageOf(r) = "cleared"
        /\ r.state \in ends => StageOf(r) = "stopped"
    BY <1>3 DEF StageOf
  <2>3. /\ s.state \in none => StageOf(s) = "none"
        /\ s.state = "awaiting_approval" => StageOf(s) = "held"
        /\ s.state \in {"approved", "executing"} => StageOf(s) = "cleared"
        /\ s.state \in ends => StageOf(s) = "stopped"
    BY <2>1 DEF StageOf
  <2>4. p \in Phases \ {"created", "refused", "invalid"}
    BY TurnTables
  <2>5. \/ r.state \in none /\ s.state \in none
        \/ p = "hold" /\ r.state \in none /\ s.state = "awaiting_approval"
        \/ p = "go" /\ r.state = "validated" /\ s.state = "executing"
        \/ p = "grant" /\ r.state = "awaiting_approval" /\ s.state = "approved"
        \/ r.state \in {"approved", "executing"} /\ s.state = "executing"
        \/ r.state \in none \cup {"awaiting_approval", "approved", "executing"} \cup ends
           /\ s.state \in ends
    BY <1>3, <2>4, PhaseTables DEF Source, Target
  <2>6. QED  BY <2>2, <2>3, <2>5
<1>4. QED  BY <1>1, <1>2, <1>3

\* Nothing is submitted and nothing attempted.
LEMMA PromiseInit == Init => Work!Init
<1> SUFFICES ASSUME Init PROVE Work!Init
  OBVIOUS
<1>1. \A k \in Keys : StageOf(row[k]) = "none" /\ runs[k] = 0
  BY DEF Init, NoRow, StageOf
<1>2. QED  BY <1>1 DEF Work!Init

\* Every step of the engine is a step of GovernedWork or leaves it alone.
LEMMA PromiseStep ==
  ASSUME TypeOK, ClearanceInv, TurnInv, [Next]_vars
  PROVE  [Work!Next]_<<Stages, Tried>>
<1>1. CASE UNCHANGED <<row, runs>>
  BY <1>1 DEF Stages, Tried
<1>2. ASSUME NEW t \in Threads, Create(t) PROVE [Work!Next]_<<Stages, Tried>>
  <2> DEFINE c == call[t]
             k == c.key
             r == NewRow(k, Target[c.phase])
  <2>1. Busy(t) /\ c.point = "create" /\ k \in Keys /\ row[k].state = "none"
    BY <1>2 DEF Create, TurnInv, Attended, InTurn, CutShort, TypeOK, Call
  <2>2. c.phase \in {"created", "refused"} /\ ~row[k].out
    BY <2>1 DEF ClearanceInv, CallClear, TurnInv, Attended, RowInTurn, TypeOK, Row, Over
  <2>3. row' = [row EXCEPT ![k] = r] /\ UNCHANGED runs
    BY <1>2, <2>1 DEF Create
  <2>4. StageOf(row[k]) = "none" /\ StageOf(r) \in {"none", "stopped"}
    BY <2>1, <2>2 DEF NewRow, Target, StageOf
  <2>5. /\ Stages' = [Stages EXCEPT ![k] = StageOf(r)] /\ Tried' = Tried
        /\ Stages[k] = "none" /\ (StageOf(r) = "none" => Stages' = Stages)
    <3> HIDE DEF k, r
    <3> QED  BY <2>1, <2>3, <2>4, StageHop
  <2>6. QED
    BY <2>1, <2>4, <2>5 DEF Work!Next, Work!Stop, Work!Move, Stages, Tried
<1>3. ASSUME NEW t \in Threads, Save(t),
             LET k == call[t].key IN ~CutShort(call[t], row[k], events[k], runs[k])
      PROVE  [Work!Next]_<<Stages, Tried>>
  <2> DEFINE c == call[t]
             k == c.key
             r == row[k]
             s == Saved(c)
             p == c.phase
  <2>1. /\ p \in DOMAIN Source /\ r.state \in Source[p]
        /\ row' = [row EXCEPT ![k] = s] /\ UNCHANGED runs
        /\ s.state = Target[p] /\ s.out = (r.out \/ p = "succeed")
        /\ p = "succeed" => runs[k] > 0
        /\ r.out => r.state \in Over
        /\ p = "hold" => EvaluateGate(Request[k]) = "hold"
        /\ p = "go" /\ r.state = "validated" => EvaluateGate(Request[k]) = "go"
        /\ RowClear(k, r, Grants)
    BY <1>3, SaveInTurn
  <2>2. k \in Keys /\ r.out \in BOOLEAN
    BY DEF TypeOK, Call, Row
  <2> DEFINE a == StageOf(r)
             b == StageOf(s)
  <2>3. \/ a = b
        \/ p = "hold" /\ a = "none" /\ b = "held"
        \/ p = "go" /\ r.state = "validated" /\ a = "none" /\ b = "cleared"
        \/ p = "grant" /\ a = "held" /\ b = "cleared"
        \/ p = "succeed" /\ a = "cleared" /\ b = "done"
        \/ a \in {"none", "held", "cleared"} /\ b = "stopped"
    <3> HIDE DEF k, r, s, p
    <3> QED  BY <2>1, <2>2, StagesInTurn
  <2>4. /\ Stages' = [Stages EXCEPT ![k] = b] /\ Tried' = Tried /\ Stages[k] = a
        /\ a = b => Stages' = Stages
    BY <2>1, <2>2, StageHop
  <2>5. p = "hold" => r.state = "validated"
    BY <2>1 DEF Source
  <2>6. r.state = "validated" => Request[k].admissible
    BY <2>1 DEF RowClear
  <2>7. p = "succeed" => k \in Tried
    BY <2>1, <2>2 DEF Tried
  <2>8. CASE p = "hold" /\ a = "none" /\ b = "held"
    <3>1. Work!Hold(k)
      BY <2>1, <2>2, <2>4, <2>5, <2>6, <2>8 DEF Work!Hold, Work!Move, Stages, Tried
    <3>2. QED  BY <2>2, <3>1 DEF Work!Next
  <2>9. CASE p = "go" /\ r.state = "validated" /\ a = "none" /\ b = "cleared"
    <3>1. Work!Admit(k)
      BY <2>1, <2>2, <2>4, <2>6, <2>9 DEF Work!Admit, Work!Move, Stages, Tried
    <3>2. QED  BY <2>2, <3>1 DEF Work!Next
  <2>10. CASE p = "grant" /\ a = "held" /\ b = "cleared"
    <3>1. Work!Approve(k)
      BY <2>4, <2>10 DEF Work!Approve, Work!Move, Stages, Tried
    <3>2. QED  BY <2>2, <3>1 DEF Work!Next
  <2>11. CASE p = "succeed" /\ a = "cleared" /\ b = "done"
    <3>1. Work!Finish(k)
      BY <2>4, <2>7, <2>11 DEF Work!Finish, Work!Move, Stages, Tried
    <3>2. QED  BY <2>2, <3>1 DEF Work!Next
  <2>12. CASE a \in {"none", "held", "cleared"} /\ b = "stopped"
    <3>1. Work!Stop(k)
      BY <2>4, <2>12 DEF Work!Stop, Work!Move, Stages, Tried
    <3>2. QED  BY <2>2, <3>1 DEF Work!Next
  <2>13. CASE a = b
    BY <2>4, <2>13
  <2>14. QED
    <3> HIDE DEF a, b, p
    <3> QED  BY <2>3, <2>8, <2>9, <2>10, <2>11, <2>12, <2>13
<1>4. ASSUME NEW t \in Threads, Save(t),
             LET k == call[t].key IN CutShort(call[t], row[k], events[k], runs[k])
      PROVE  [Work!Next]_<<Stages, Tried>>
  <2> DEFINE c == call[t]
             k == c.key
             r == row[k]
             s == Saved(c)
             a == StageOf(r)
  <2>1. /\ row' = [row EXCEPT ![k] = s] /\ UNCHANGED runs
        /\ runs[k] > 0 /\ s.out /\ (r.out \/ r.state = "executing")
    BY <1>4, SaveCutShort
  <2>2. k \in Keys /\ r.out \in BOOLEAN
    BY DEF TypeOK, Call, Row
  <2>3. StageOf(s) = "done" /\ a \in {"cleared", "done"}
    BY <2>1, <2>2 DEF StageOf
  <2>4. /\ Stages' = [Stages EXCEPT ![k] = StageOf(s)] /\ Tried' = Tried /\ Stages[k] = a
        /\ StageOf(s) = a => Stages' = Stages
    BY <2>1, <2>2, StageHop
  <2>5. k \in Tried
    BY <2>1, <2>2 DEF Tried
  <2>6. CASE a = "done"
    BY <2>3, <2>4, <2>6
  <2>7. CASE a = "cleared"
    <3>1. Work!Finish(k)
      BY <2>3, <2>4, <2>5, <2>7 DEF Work!Finish, Work!Move, Stages, Tried
    <3>2. QED  BY <2>2, <3>1 DEF Work!Next
  <2>8. QED  BY <2>3, <2>6, <2>7
<1>5. ASSUME NEW t \in Threads, RunHandler(t) PROVE [Work!Next]_<<Stages, Tried>>
  <2> DEFINE k == call[t].key
  <2>1. /\ Busy(t) /\ call[t].point = "run" /\ k \in Keys /\ row' = row
        /\ runs' = [runs EXCEPT ![k] = @ + 1] /\ runs \in [Keys -> Nat]
    BY <1>5 DEF RunHandler, TypeOK, Call
  <2>2. Stages' = Stages
    BY <2>1 DEF Stages
  <2>3. CASE CutShort(call[t], row[k], events[k], runs[k])
    <3>1. runs[k] > 0
      BY <2>3 DEF CutShort
    <3>2. \A j \in Keys : runs'[j] > 0 <=> runs[j] > 0
      BY <2>1, <3>1
    <3>3. Tried' = Tried
      BY <3>2 DEF Tried
    <3>4. QED  BY <2>2, <3>3
  <2>4. CASE ~CutShort(call[t], row[k], events[k], runs[k])
    <3>1. row[k].state = "executing" /\ ~row[k].out
      BY <2>1, <2>4 DEF TurnInv, Attended, InTurn, RowInTurn, TypeOK, Row, Over
    <3>2. Tried' = Tried \cup {k}
      <4>1. \A j \in Keys : runs'[j] = IF j = k THEN runs[j] + 1 ELSE runs[j]
        BY <2>1
      <4>2. \A j \in Keys : runs'[j] > 0 <=> (runs[j] > 0 \/ j = k)
        BY <2>1, <4>1
      <4>3. QED  BY <2>1, <4>2 DEF Tried
    <3>3. Stages[k] = "cleared"
      BY <2>1, <3>1 DEF Stages, StageOf
    <3>4. Work!Attempt(k)
      <4> HIDE DEF k
      <4> QED  BY <2>2, <3>2, <3>3 DEF Work!Attempt, Stages, Tried
    <3>5. QED  BY <2>1, <3>4 DEF Work!Next, Work!Attempt
  <2>5. QED  BY <2>3, <2>4
<1>6. QED  BY <1>1, <1>2, <1>3, <1>4, <1>5, Writers

\* With callers who take turns the engine keeps GovernedWork's promise: held work
\* waits for a decision, only cleared work is attempted, and a stopped or finished
\* request stays so, although calls die and store operations and audit writes fail.
THEOREM PromiseKept == Spec /\ []OneAtATime => KeepsPromise
<1>1. TypeOK /\ ClearanceInv /\ TurnInv /\ [Next]_vars =>
        [Work!Next]_<<[k \in Keys |-> StageOf(row[k])], {k \in Keys : runs[k] > 0}>>
  BY PromiseStep DEF Stages, Tried
<1>2. QED
  BY <1>1, PromiseInit, TurnHolds, TypeCorrect, ClearanceHolds, PTL
     DEF Spec, KeepsPromise, Work!Spec
===============================================================================
