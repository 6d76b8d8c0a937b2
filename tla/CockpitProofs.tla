---------------------------- MODULE CockpitProofs ----------------------------
(***************************************************************************)
(* Proofs about TelemetryRun and LiveCockpit, which share the engine, for  *)
(* any number of ticks, attempts, subscribers and frames that wait.        *)
(*                                                                         *)
(* AccountInv adds to AccountTrue where the ticks read so far were counted *)
(* while the run is not aborted.  OrderInv adds to OrderKept that a        *)
(* request which may still be handled is the current one, and its tick the *)
(* highest, unless it timed out.  ViewInv adds to ViewCurrent what the     *)
(* frames on their way bring: applied in their order to what a subscriber  *)
(* knows, or from its snapshot on, they lead to the recommendations of now.*)
(***************************************************************************)
EXTENDS TelemetryRun, LiveCockpit, FiniteSetTheorems, SequenceTheorems, TLAPS

-------------------------------------------------------------------------------
(* The engine: what it recommends waits for a decision, one at a time.     *)

\* The engine's side: a recommendation that waits for its decision is the one the
\* engine remembers, and one is approved and not yet executed only before the next.
OneOpen ==
  /\ \A i \in DOMAIN recs : recs[i] = "PENDING" => pending = i
  /\ \A i \in DOMAIN recs : recs[i] = "APPROVED" => pending = 0
  /\ \A i, j \in DOMAIN recs : recs[i] = "APPROVED" /\ recs[j] = "APPROVED" => i = j

\* Executing what was approved leaves as many recommendations.
LEMMA ExecutedType ==
  ASSUME EngineTypeOK
  PROVE  Executed \in Seq(Statuses) /\ Len(Executed) = Len(recs) /\ DOMAIN Executed = DOMAIN recs
<1>1. DOMAIN recs = 1..Len(recs) /\ Len(recs) \in Nat BY DEF EngineTypeOK
<1>2. Executed \in [1..Len(recs) -> Statuses] BY <1>1 DEF EngineTypeOK, Executed, Statuses
<1>3. Executed \in Seq(Statuses) BY <1>1, <1>2, SeqDef
<1> QED BY <1>1, <1>2, <1>3

\* What ingest does to the recommendations.
LEMMA IngestRecs ==
  ASSUME EngineTypeOK, NEW t, NEW triggered \in BOOLEAN, Ingest(t, triggered)
  PROVE  /\ recs' \in Seq(Statuses)
         /\ \A i \in DOMAIN recs :
              i \in DOMAIN recs' /\ recs'[i] = IF recs[i] = "APPROVED" THEN "EXECUTED" ELSE recs[i]
         /\ \/ /\ triggered /\ MayRaise /\ Len(recs) < MaxRecs
               /\ Len(recs') = Len(recs) + 1 /\ pending' = Len(recs')
               /\ recs'[Len(recs')] = "PENDING"
            \/ ~(triggered /\ MayRaise) /\ Len(recs') = Len(recs) /\ pending' = pending
<1>1. Executed \in Seq(Statuses) /\ Len(Executed) = Len(recs) /\ DOMAIN Executed = DOMAIN recs
  BY ExecutedType
<1>2. \A i \in DOMAIN recs : Executed[i] = IF recs[i] = "APPROVED" THEN "EXECUTED" ELSE recs[i]
  BY DEF Executed
<1>3. Len(recs) \in Nat /\ DOMAIN recs = 1..Len(recs) /\ "PENDING" \in Statuses
  BY DEF EngineTypeOK, Statuses
<1>4. CASE triggered /\ MayRaise
  <2>1. recs' = Append(Executed, "PENDING") /\ pending' = Len(Append(Executed, "PENDING"))
        /\ Len(recs) < MaxRecs
    BY <1>4 DEF Ingest
  <2>2. /\ recs' \in Seq(Statuses) /\ Len(recs') = Len(recs) + 1
        /\ recs'[Len(recs) + 1] = "PENDING"
        /\ \A i \in 1..Len(recs) : recs'[i] = Executed[i]
    BY <1>1, <1>3, <2>1
  <2>3. DOMAIN recs' = 1..(Len(recs) + 1) BY <2>2
  <2>4. \A i \in DOMAIN recs : i \in DOMAIN recs' BY <1>3, <2>3
  <2> QED BY <1>2, <1>3, <1>4, <2>1, <2>2, <2>4
<1>5. CASE ~(triggered /\ MayRaise)
  <2>1. recs' = Executed /\ pending' = pending BY <1>5 DEF Ingest
  <2> QED BY <1>1, <1>2, <1>5, <2>1
<1> QED BY <1>4, <1>5

\* A tick keeps the types of the engine.
LEMMA IngestType ==
  ASSUME EngineTypeOK, NEW t \in Nat, NEW triggered \in BOOLEAN, Ingest(t, triggered)
  PROVE  EngineTypeOK'
<1>1. window' \in Seq(Nat) /\ Len(window') = Len(window) + 1 /\ decided' = decided
      /\ cooldown' = IF cooldown > 0 THEN cooldown - 1 ELSE 0
  BY DEF Ingest, EngineTypeOK
<1>2. /\ recs' \in Seq(Statuses) /\ Len(recs) \in Nat
      /\ \/ /\ Len(recs) < MaxRecs /\ Len(recs') = Len(recs) + 1 /\ pending' = Len(recs')
         \/ Len(recs') = Len(recs) /\ pending' = pending
  BY IngestRecs DEF EngineTypeOK
<1> QED BY <1>1, <1>2, CockpitAssumption DEF CockpitAssumption, EngineTypeOK

\* A decision keeps them, and raises nothing.
LEMMA DecideType ==
  ASSUME EngineTypeOK, NEW i \in DOMAIN recs, NEW status \in {"APPROVED", "REJECTED"},
         Decide(i, status)
  PROVE  EngineTypeOK' /\ Len(recs') = Len(recs) /\ DOMAIN recs' = DOMAIN recs
<1>1. recs' \in Seq(Statuses) /\ Len(recs') = Len(recs) /\ DOMAIN recs' = DOMAIN recs
  BY DEF Decide, EngineTypeOK, Statuses
<1> QED BY <1>1, CockpitAssumption DEF CockpitAssumption, Decide, EngineTypeOK

\* A tick executes what was approved, and raises only where nothing is open.
LEMMA OpenIngest ==
  ASSUME EngineTypeOK, OneOpen, NEW t, NEW triggered \in BOOLEAN, Ingest(t, triggered)
  PROVE  OneOpen'
<1>1. Len(recs) \in Nat /\ DOMAIN recs = 1..Len(recs) /\ DOMAIN recs' = 1..Len(recs')
  BY IngestRecs DEF EngineTypeOK
<1>2. ASSUME NEW i \in DOMAIN recs'
      PROVE  recs'[i] # "APPROVED" /\ (recs'[i] = "PENDING" => pending' = i)
  <2>1. CASE i \in DOMAIN recs
    <3>1. recs'[i] = IF recs[i] = "APPROVED" THEN "EXECUTED" ELSE recs[i] BY <2>1, IngestRecs
    <3>2. recs[i] = "PENDING" => pending = i /\ i # 0 BY <2>1, <1>1 DEF OneOpen
    <3>3. recs[i] = "PENDING" => pending' = pending
      <4>1. recs[i] = "PENDING" => ~MayRaise BY <3>2 DEF MayRaise
      <4> QED BY <4>1, IngestRecs
    <3> QED BY <3>1, <3>2, <3>3
  <2>2. CASE i \notin DOMAIN recs
    <3>1. \/ /\ Len(recs') = Len(recs) + 1 /\ pending' = Len(recs')
             /\ recs'[Len(recs')] = "PENDING"
          \/ Len(recs') = Len(recs)
      BY IngestRecs
    <3>2. i \in 1..Len(recs') /\ i \notin 1..Len(recs) BY <2>2, <1>1
    <3>4. Len(recs') # Len(recs) BY <3>2
    <3>5. Len(recs') = Len(recs) + 1 /\ Len(recs) \in Nat BY <3>1, <3>4, <1>1
    <3>3. i = Len(recs') BY <3>2, <3>5
    <3> QED BY <3>1, <3>3, <3>4
  <2> QED BY <2>1, <2>2
<1> QED BY <1>2 DEF OneOpen

\* A decision is on the recommendation that the engine remembers.
LEMMA OpenDecide ==
  ASSUME EngineTypeOK, OneOpen, NEW i \in DOMAIN recs, NEW status \in {"APPROVED", "REJECTED"},
         Decide(i, status)
  PROVE  OneOpen'
<1>1. /\ recs[i] = "PENDING" /\ recs' = [recs EXCEPT ![i] = status] /\ pending' = 0
  BY DEF Decide
<1>2. DOMAIN recs' = DOMAIN recs /\ i # 0 /\ pending = i BY <1>1 DEF OneOpen, EngineTypeOK
<1>3. ASSUME NEW j \in DOMAIN recs, j # i
      PROVE  recs'[j] = recs[j] /\ recs[j] \notin {"PENDING", "APPROVED"}
  BY <1>1, <1>2, <1>3 DEF OneOpen
<1>4. recs'[i] = status BY <1>1
<1> QED BY <1>1, <1>2, <1>3, <1>4 DEF OneOpen
-------------------------------------------------------------------------------
(* The supervisor and the engine.                                          *)

\* A tick is posted after it was read.
Underway ==
  relay.at \in {"posting", "waiting"} => relay.tick \in 1..Ticks /\ relay.attempt \in 1..Attempts

\* The ticks the engine took in.
Taken == {window[i] : i \in DOMAIN window}

\* What the supervisor counted, while it runs and when it has ended.
AccountInv ==
  /\ Taken \subseteq 1..Ticks
  /\ delivered \subseteq Taken
  /\ answered => relay.at = "waiting" /\ relay.tick \in Taken
  /\ relay.at \in {"reading", "posting", "waiting"} => relay.exit = "none"
  /\ relay.exit = "none" => \A t \in 1..(relay.tick - 1) : t \in delivered \cup dropped
  /\ relay.exit = "none" /\ relay.at \in {"reading", "reaping"} /\ relay.tick # 0 =>
       relay.tick \in delivered \cup dropped
  /\ relay.at = "reaping" /\ relay.exit = "none" => twin = "failed" \/ relay.tick = Ticks
  /\ relay.at = "reaping" => relay.exit # "success"
  /\ relay.at = "ended" => twin # "running"
  /\ relay.exit = "success" => twin = "clean" /\ Taken = 1..Ticks

\* The requests that may be handled in their order.
InTime == {r \in requests : r.tick \notin overtime}

\* The ticks were taken in in their order, and the next comes after them.
OrderInv ==
  /\ \A i \in DOMAIN window : window[i] <= relay.tick
  /\ \A r \in requests : r.tick <= relay.tick
  /\ \A r \in InTime : r = Current /\ relay.at \notin {"reading", "posting"}
  /\ InTime # {} \/ relay.at = "posting" =>
       \A i \in DOMAIN window : window[i] < relay.tick \/ window[i] \in overtime
  /\ answered => Current \notin requests
  /\ OrderKept
-------------------------------------------------------------------------------
(* Types.                                                                  *)

\* The run starts well typed.
LEMMA TypeInit == Init => TypeOK
<1> SUFFICES ASSUME Init PROVE TypeOK OBVIOUS
<1>1. RelayTypeOK
  <2>1. 0 \in 0..Ticks /\ 0 \in 0..Attempts BY RelayAssumption DEF RelayAssumption
  <2> QED BY <2>1 DEF Init, RelayInit, RelayTypeOK
<1>2. window \in Seq(Nat) /\ recs \in Seq(Statuses) /\ Len(window) = 0 /\ Len(recs) = 0
  BY DEF Init, EngineInit
<1> QED
  BY <1>1, <1>2, CockpitAssumption DEF CockpitAssumption, Init, EngineInit, TypeOK, EngineTypeOK

\* What the supervisor does keeps its types.
LEMMA RelayType == ASSUME TypeOK, Underway, RelayNext PROVE RelayTypeOK' /\ Underway'
<1> USE RelayAssumption DEF RelayAssumption, Moves, Current, Request, Underway
<1>1. CASE TwinExits BY <1>1 DEF TwinExits, TypeOK, RelayTypeOK
<1>2. CASE Read
  <2>1. relay' = [relay EXCEPT !.at = "posting", !.tick = relay.tick + 1, !.attempt = 1]
        /\ answered' = FALSE /\ UNCHANGED <<twin, requests, delivered, dropped, overtime>>
        /\ relay.tick < Ticks
    BY <1>2 DEF Read
  <2>2. relay.tick \in Nat BY DEF TypeOK, RelayTypeOK
  <2>3. relay.tick + 1 \in 1..Ticks /\ relay.tick + 1 \in 0..Ticks /\ 1 \in 1..Attempts
        /\ 1 \in 0..Attempts
    BY <2>1, <2>2
  <2>4. relay' \in [at : {"posting"}, tick : {relay.tick + 1}, attempt : {1},
                    exit : {"none", "success", "failure", "interrupted"}]
    BY <2>1 DEF TypeOK, RelayTypeOK
  <2> QED BY <2>1, <2>3, <2>4 DEF TypeOK, RelayTypeOK
<1>3. CASE BadLine BY <1>3 DEF BadLine, Abort, TypeOK, RelayTypeOK
<1>4. CASE Interrupt BY <1>4 DEF Interrupt, Abort, TypeOK, RelayTypeOK
<1>5. CASE InterruptReap BY <1>5 DEF InterruptReap, TypeOK, RelayTypeOK
<1>6. CASE EndOfStream BY <1>6 DEF EndOfStream, TypeOK, RelayTypeOK
<1>7. CASE Post
  <2>1. Current \in Request BY <1>7 DEF Post
  <2>2. requests' = requests \cup {Current} /\ relay' = [relay EXCEPT !.at = "waiting"]
        /\ answered' = FALSE /\ UNCHANGED <<twin, delivered, dropped, overtime>>
        /\ relay.at = "posting"
    BY <1>7 DEF Post
  <2>3. requests' \subseteq Request BY <2>1, <2>2 DEF TypeOK, RelayTypeOK
  <2> QED BY <2>2, <2>3 DEF TypeOK, RelayTypeOK
<1>8. CASE Delivered BY <1>8 DEF Delivered, TypeOK, RelayTypeOK
<1>9. CASE Refused BY <1>9 DEF Refused, TypeOK, RelayTypeOK
<1>10. ASSUME Held, relay.at \in {"posting", "waiting"}
       PROVE  /\ relay' \in [at : {"reading", "posting"}, tick : 0..Ticks,
                             attempt : 0..Attempts, exit : {relay.exit}]
              /\ Underway' /\ dropped' \subseteq 1..Ticks
              /\ answered' = FALSE /\ UNCHANGED twin
  <2>1. relay.tick \in 1..Ticks /\ relay.attempt \in 1..Attempts BY <1>10
  <2>2. CASE relay.attempt < Attempts /\ UNCHANGED dropped
             /\ Moves([relay EXCEPT !.at = "posting", !.attempt = relay.attempt + 1])
    <3>1. relay' \in [at : {"posting"}, tick : {relay.tick}, attempt : {relay.attempt + 1},
                      exit : {relay.exit}]
      BY <2>2 DEF TypeOK, RelayTypeOK
    <3>2. relay.attempt + 1 \in 1..Attempts /\ relay.attempt + 1 \in 0..Attempts
      BY <2>1, <2>2
    <3> QED BY <2>1, <2>2, <3>1, <3>2 DEF TypeOK, RelayTypeOK
  <2>3. CASE dropped' = dropped \cup {relay.tick} /\ Moves([relay EXCEPT !.at = "reading"])
    BY <2>1, <2>3 DEF TypeOK, RelayTypeOK
  <2> QED BY <1>10, <2>2, <2>3 DEF Held, Drop
<1>11. CASE Unreachable
  <2>1. Held /\ relay.at \in {"posting", "waiting"} /\ requests' \subseteq requests
        /\ UNCHANGED <<delivered, overtime>>
    BY <1>11 DEF Unreachable
  <2> QED BY <2>1, <1>10 DEF TypeOK, RelayTypeOK
<1>12. CASE TimeOut
  <2>1. Held /\ relay.at = "waiting" /\ overtime' = overtime \cup {relay.tick}
        /\ UNCHANGED <<requests, delivered>>
    BY <1>12 DEF TimeOut
  <2> QED BY <2>1, <1>10 DEF TypeOK, RelayTypeOK
<1>13. CASE Diverted
  <2>1. relay.tick \in 1..Ticks BY <1>13 DEF Diverted
  <2> QED BY <1>13, <2>1 DEF Diverted, Drop, TypeOK, RelayTypeOK
<1>14. CASE Reap
  <2>1. relay' = [relay EXCEPT !.at = "ended", !.exit = Exit]
        /\ UNCHANGED <<requests, answered, delivered, dropped, overtime>>
    BY <1>14 DEF Reap
  <2>2. Exit \in {"none", "success", "failure", "interrupted"}
    BY DEF Exit, TypeOK, RelayTypeOK
  <2>3. twin' \in {"running", "clean", "failed", "stopped"}
    BY <1>14 DEF Reap, TypeOK, RelayTypeOK
  <2> QED BY <2>1, <2>2, <2>3 DEF TypeOK, RelayTypeOK
<1> QED
  BY <1>1, <1>2, <1>3, <1>4, <1>5, <1>6, <1>7, <1>8, <1>9, <1>11, <1>12, <1>13, <1>14
  DEF RelayNext

\* Every step of the run keeps the types.
LEMMA TypeStep == TypeOK /\ Underway /\ [Next]_vars => TypeOK' /\ Underway'
<1> SUFFICES ASSUME TypeOK, Underway, [Next]_vars PROVE TypeOK' /\ Underway' OBVIOUS
<1>1. CASE RelayNext /\ UNCHANGED engineVars
  <2>1. EngineTypeOK' BY <1>1 DEF engineVars, TypeOK, EngineTypeOK
  <2> QED BY <1>1, <2>1, RelayType DEF TypeOK
<1>2. ASSUME NEW r \in requests, NEW triggered \in BOOLEAN, PostTelemetry(r, triggered)
      PROVE  TypeOK' /\ Underway'
  <2>1. r.tick \in Nat BY RelayAssumption DEF RelayAssumption, TypeOK, RelayTypeOK, Request
  <2>2. EngineTypeOK' BY <1>2, <2>1, IngestType DEF PostTelemetry, TypeOK
  <2>3. /\ requests' = requests \ {r} /\ answered' \in BOOLEAN
        /\ UNCHANGED <<twin, relay, delivered, dropped, overtime>>
    BY <1>2 DEF PostTelemetry, Handled, TypeOK, RelayTypeOK
  <2> QED BY <2>2, <2>3 DEF TypeOK, RelayTypeOK, Underway
<1>3. ASSUME NEW i \in DOMAIN recs, NEW status \in {"APPROVED", "REJECTED"},
             PostApprove(i, status)
      PROVE  TypeOK' /\ Underway'
  <2>1. EngineTypeOK' BY <1>3, DecideType DEF PostApprove, TypeOK
  <2> QED BY <1>3, <2>1 DEF PostApprove, relayVars, TypeOK, RelayTypeOK, Underway
<1>4. CASE UNCHANGED vars
  BY <1>4 DEF vars, relayVars, engineVars, TypeOK, RelayTypeOK, EngineTypeOK, Underway
<1> QED BY <1>1, <1>2, <1>3, <1>4 DEF Next

\* Every reachable state of the run is well typed.
THEOREM RunTyped == Spec => [](TypeOK /\ Underway)
<1>1. Init => Underway BY DEF Init, RelayInit, Underway
<1> QED BY <1>1, TypeInit, TypeStep, PTL DEF Spec

\* At most one recommendation waits for a decision, the one the engine remembers, and
\* at most one is approved and waits for the next tick, which executes it: whatever
\* the manager and the supervisors do (ingest and the approve route).
THEOREM RunOneOpen == Spec => []OneOpen
<1>1. Init => OneOpen BY DEF Init, EngineInit, OneOpen
<1>2. TypeOK /\ OneOpen /\ [Next]_vars => OneOpen'
  <2> SUFFICES ASSUME TypeOK, OneOpen, [Next]_vars PROVE OneOpen' OBVIOUS
  <2>1. EngineTypeOK BY DEF TypeOK
  <2>2. CASE UNCHANGED engineVars BY <2>2 DEF engineVars, OneOpen
  <2>3. ASSUME NEW r \in requests, NEW triggered \in BOOLEAN, PostTelemetry(r, triggered)
        PROVE  OneOpen'
    BY <2>1, <2>3, OpenIngest DEF PostTelemetry
  <2>4. ASSUME NEW i \in DOMAIN recs, NEW status \in {"APPROVED", "REJECTED"},
               PostApprove(i, status)
        PROVE  OneOpen'
    BY <2>1, <2>4, OpenDecide DEF PostApprove
  <2> QED BY <2>2, <2>3, <2>4 DEF Next, vars
<1> QED BY <1>1, <1>2, RunTyped, PTL DEF Spec
-------------------------------------------------------------------------------
(* What the engine took in.                                                *)

\* A handled request appends its tick.
LEMMA Appended ==
  ASSUME TypeOK, NEW r \in requests, NEW triggered \in BOOLEAN, PostTelemetry(r, triggered)
  PROVE  /\ window' = Append(window, r.tick) /\ Len(window') = Len(window) + 1
         /\ DOMAIN window = 1..Len(window) /\ DOMAIN window' = 1..(Len(window) + 1)
         /\ \A i \in 1..Len(window) : window'[i] = window[i]
         /\ window'[Len(window) + 1] = r.tick
         /\ Taken' = Taken \cup {r.tick}
         /\ r.tick \in 1..Ticks
         /\ requests' = requests \ {r}
         /\ answered' = (answered \/ (relay.at = "waiting" /\ r = Current))
         /\ UNCHANGED <<twin, relay, delivered, dropped, overtime>>
<1>1. r.tick \in 1..Ticks /\ r.tick \in Nat
  BY RelayAssumption DEF RelayAssumption, TypeOK, RelayTypeOK, Request
<1>2. window' = Append(window, r.tick) BY DEF PostTelemetry, Ingest
<1>3. window \in Seq(Nat) /\ Len(window) \in Nat BY DEF TypeOK, EngineTypeOK
<1>4. /\ Len(window') = Len(window) + 1
      /\ DOMAIN window = 1..Len(window) /\ DOMAIN window' = 1..(Len(window) + 1)
      /\ \A i \in 1..Len(window) : window'[i] = window[i]
      /\ window'[Len(window) + 1] = r.tick
  BY <1>1, <1>2, <1>3
<1>5. 1..(Len(window) + 1) = 1..Len(window) \cup {Len(window) + 1} BY <1>3
<1>6. Taken' = Taken \cup {r.tick}
  <2>1. Taken' = {window'[i] : i \in 1..(Len(window) + 1)} BY <1>4, Zenon DEF Taken
  <2>2. Taken = {window[i] : i \in 1..Len(window)} BY <1>4, Zenon DEF Taken
  <2>3. \A x : x \in Taken' => x \in Taken \cup {r.tick} BY <1>4, <1>5, <2>1, <2>2
  <2>4. \A x : x \in Taken => x \in Taken' BY <1>4, <1>5, <2>1, <2>2
  <2>5. r.tick \in Taken' BY <1>4, <1>5, <2>1
  <2> QED BY <2>3, <2>4, <2>5
<1> QED BY <1>1, <1>2, <1>4, <1>6 DEF PostTelemetry, Handled

\* No step of the supervisor or of the manager changes what was taken in.
LEMMA TakenKept == ASSUME UNCHANGED window PROVE Taken' = Taken
BY DEF Taken
-------------------------------------------------------------------------------
(* The account.                                                            *)

\* The supervisor holds the payload: it tries again, or counts it as dropped.
LEMMA HeldStep ==
  ASSUME TypeOK, Underway, Held, relay.at \in {"posting", "waiting"}
  PROVE  /\ answered' = FALSE /\ UNCHANGED twin
         /\ relay'.tick = relay.tick /\ relay'.exit = relay.exit
         /\ \/ relay'.at = "posting" /\ UNCHANGED dropped
            \/ relay'.at = "reading" /\ dropped' = dropped \cup {relay.tick}
BY DEF Held, Drop, Moves, TypeOK, RelayTypeOK

\* What the supervisor does keeps the account.
LEMMA AccountRelay ==
  ASSUME TypeOK, Underway, AccountInv, RelayNext, UNCHANGED engineVars PROVE AccountInv'
<1>1. UNCHANGED window /\ Taken' = Taken BY TakenKept DEF engineVars
<1>2. relay \in [at : {"reading", "posting", "waiting", "reaping", "ended", "left"},
                 tick : 0..Ticks, attempt : 0..Attempts,
                 exit : {"none", "success", "failure", "interrupted"}]
  BY DEF TypeOK, RelayTypeOK
<1>3. Ticks \in Nat \ {0} BY RelayAssumption DEF RelayAssumption
<1> USE DEF Moves
<1>4. CASE TwinExits BY <1>1, <1>4 DEF TwinExits, AccountInv
<1>5. CASE Read BY <1>1, <1>2, <1>3, <1>5 DEF Read, AccountInv
<1>6. CASE BadLine BY <1>1, <1>2, <1>6 DEF BadLine, Abort, AccountInv
<1>7. CASE Interrupt BY <1>1, <1>2, <1>7 DEF Interrupt, Abort, AccountInv
<1>8. CASE InterruptReap BY <1>1, <1>2, <1>8 DEF InterruptReap, AccountInv
<1>9. CASE EndOfStream BY <1>1, <1>2, <1>9 DEF EndOfStream, AccountInv
<1>10. CASE Post BY <1>1, <1>2, <1>10 DEF Post, AccountInv
<1>11. CASE Delivered BY <1>1, <1>2, <1>11 DEF Delivered, AccountInv
<1>12. CASE Refused BY <1>1, <1>2, <1>12 DEF Refused, AccountInv
<1>13. ASSUME Held, relay.at \in {"posting", "waiting"}, UNCHANGED delivered PROVE AccountInv'
  BY <1>1, <1>2, <1>3, <1>13, HeldStep DEF AccountInv
<1>14. CASE Unreachable BY <1>13, <1>14 DEF Unreachable
<1>15. CASE TimeOut BY <1>13, <1>15 DEF TimeOut
<1>17. CASE Diverted
  BY <1>1, <1>2, <1>3, <1>17 DEF Diverted, Drop, AccountInv
<1>16. CASE Reap
  <2>1. /\ relay.at = "reaping" /\ relay'.at = "ended" /\ relay'.tick = relay.tick
        /\ relay'.exit = Exit
        /\ UNCHANGED <<requests, answered, delivered, dropped, overtime>>
    BY <1>2, <1>16 DEF Reap
  <2>2. twin' # "running" /\ (twin # "running" => twin' = twin)
    BY <1>16 DEF Reap, TypeOK, RelayTypeOK
  <2>3. relay'.exit = "success" =>
          relay.exit = "none" /\ twin' = "clean" /\ dropped = {} /\ relay.tick = Ticks
    BY <2>1, <2>2 DEF Exit, AccountInv
  <2>4. relay'.exit # "none" BY <2>1 DEF Exit
  <2>5. relay'.exit = "success" => Taken = 1..Ticks
    <3> SUFFICES ASSUME relay'.exit = "success" PROVE 1..Ticks \subseteq Taken
      BY DEF AccountInv
    <3>1. \A t \in 1..(Ticks - 1) : t \in delivered BY <2>3 DEF AccountInv
    <3>2. Ticks \in delivered BY <1>3, <2>1, <2>3 DEF AccountInv
    <3> QED BY <1>3, <3>1, <3>2 DEF AccountInv
  <2> QED BY <1>1, <2>1, <2>2, <2>3, <2>4, <2>5 DEF AccountInv
<1> QED
  BY <1>4, <1>5, <1>6, <1>7, <1>8, <1>9, <1>10, <1>11, <1>12, <1>14, <1>15, <1>16,
     <1>17
  DEF RelayNext

\* Every step keeps the account.
LEMMA AccountStep == TypeOK /\ Underway /\ AccountInv /\ [Next]_vars => AccountInv'
<1> SUFFICES ASSUME TypeOK, Underway, AccountInv, [Next]_vars PROVE AccountInv' OBVIOUS
<1>1. CASE RelayNext /\ UNCHANGED engineVars BY <1>1, AccountRelay
<1>2. ASSUME NEW r \in requests, NEW triggered \in BOOLEAN, PostTelemetry(r, triggered)
      PROVE  AccountInv'
  <2>1. /\ Taken' = Taken \cup {r.tick} /\ r.tick \in 1..Ticks
        /\ answered' = (answered \/ (relay.at = "waiting" /\ r = Current))
        /\ UNCHANGED <<twin, relay, delivered, dropped, overtime>>
    BY <1>2, Appended
  <2>2. answered' => relay.at = "waiting" /\ relay.tick \in Taken'
    <3>1. r = Current => r.tick = relay.tick BY DEF Current
    <3> QED BY <2>1, <3>1, Zenon DEF AccountInv
  <2> QED BY <2>1, <2>2 DEF AccountInv
<1>3. ASSUME NEW i \in DOMAIN recs, NEW status \in {"APPROVED", "REJECTED"},
             PostApprove(i, status)
      PROVE  AccountInv'
  <2>1. UNCHANGED window /\ UNCHANGED relayVars BY <1>3 DEF PostApprove, Decide
  <2> QED BY <2>1, TakenKept DEF relayVars, AccountInv
<1>4. CASE UNCHANGED vars
  BY <1>4, TakenKept DEF vars, relayVars, engineVars, AccountInv
<1> QED BY <1>1, <1>2, <1>3, <1>4 DEF Next

\* The supervisor reports success only when the twin ended by itself and the engine
\* took in every tick; it leaves no twin behind unless while it reaps it; and what
\* it counted as delivered was taken in (supervisor.py, _deliver and _classify).
THEOREM AccountHolds == Spec => []AccountTrue
<1>1. Init => AccountInv
  <2> SUFFICES ASSUME Init PROVE AccountInv OBVIOUS
  <2>1. Taken = {} BY DEF Taken, Init, EngineInit
  <2> QED BY <2>1 DEF Init, RelayInit, AccountInv
<1>2. AccountInv => AccountTrue BY DEF AccountInv, AccountTrue, Taken
<1> QED BY <1>1, <1>2, RunTyped, AccountStep, PTL DEF Spec
-------------------------------------------------------------------------------
(* The order of the ticks.                                                 *)

\* While the supervisor stays with its tick and the engine takes in nothing, the
\* requests in time are among those of before.
LEMMA OrderHeld ==
  ASSUME TypeOK, OrderInv, UNCHANGED window, relay'.tick = relay.tick, overtime \subseteq overtime',
         requests' \subseteq requests, answered' => Current' \notin requests',
         \A r \in InTime' : r = Current' /\ relay'.at \notin {"reading", "posting"},
         InTime' # {} \/ relay'.at = "posting" => InTime # {} \/ relay.at = "posting"
                                                  \/ relay.tick \in overtime'
  PROVE  OrderInv'
<1>1. \A i \in DOMAIN window' : window'[i] <= relay'.tick BY DEF OrderInv
<1>2. \A r \in requests' : r.tick <= relay'.tick BY DEF OrderInv
<1>3. OrderKept' BY DEF OrderInv, OrderKept
<1>4. InTime' # {} \/ relay'.at = "posting" =>
        \A i \in DOMAIN window' : window'[i] < relay'.tick \/ window'[i] \in overtime'
  <2> SUFFICES ASSUME InTime' # {} \/ relay'.at = "posting", NEW i \in DOMAIN window
               PROVE  window[i] < relay.tick \/ window[i] \in overtime'
    OBVIOUS
  <2>1. CASE InTime # {} \/ relay.at = "posting" BY <2>1 DEF OrderInv
  <2>2. CASE relay.tick \in overtime'
    <3>1. window[i] \in Nat /\ relay.tick \in Nat
      BY DEF TypeOK, RelayTypeOK, EngineTypeOK
    <3>2. window[i] <= relay.tick BY DEF OrderInv
    <3> QED BY <2>2, <3>1, <3>2
  <2> QED BY <2>1, <2>2
<1> QED BY <1>1, <1>2, <1>3, <1>4 DEF OrderInv

\* What the supervisor does keeps the order.
LEMMA OrderRelay ==
  ASSUME TypeOK, Underway, OrderInv, RelayNext, UNCHANGED engineVars PROVE OrderInv'
<1>1. UNCHANGED window BY DEF engineVars
<1>2. relay \in [at : {"reading", "posting", "waiting", "reaping", "ended", "left"},
                 tick : 0..Ticks, attempt : 0..Attempts,
                 exit : {"none", "success", "failure", "interrupted"}]
  BY DEF TypeOK, RelayTypeOK
<1> USE DEF Moves
<1>3. \A r \in InTime : r = Current /\ relay.at \notin {"reading", "posting"} BY DEF OrderInv
<1>4. CASE TwinExits
  <2>1. UNCHANGED <<relay, requests, answered, overtime>> BY <1>4 DEF TwinExits
  <2>2. Current' = Current /\ InTime' = InTime BY <2>1 DEF Current, InTime
  <2>3. answered' => Current' \notin requests' BY <2>1, <2>2 DEF OrderInv
  <2> QED BY <1>1, <1>3, <2>1, <2>2, <2>3, OrderHeld
<1>5. CASE Read
  <2>1. /\ relay'.tick = relay.tick + 1 /\ relay'.at = "posting" /\ relay.at = "reading"
        /\ answered' = FALSE /\ UNCHANGED <<requests, overtime>>
    BY <1>2, <1>5 DEF Read
  <2>2. InTime = {} /\ InTime' = {} BY <1>3, <2>1 DEF InTime
  <2>3. relay.tick \in Int /\ relay.tick < relay'.tick BY <1>2, <2>1
  <2>4. \A i \in DOMAIN window : window[i] \in Int BY DEF TypeOK, EngineTypeOK
  <2>5. \A r \in requests : r.tick \in Int BY DEF TypeOK, RelayTypeOK, Request
  <2>6. \A i \in DOMAIN window : window[i] < relay'.tick /\ window[i] <= relay'.tick
    <3>1. \A i \in DOMAIN window : window[i] <= relay.tick BY DEF OrderInv
    <3>2. relay'.tick = relay.tick + 1 BY <2>1
    <3> QED BY <2>3, <2>4, <3>1, <3>2
  <2>7. \A r \in requests : r.tick <= relay'.tick
    <3>1. \A r \in requests : r.tick <= relay.tick BY DEF OrderInv
    <3>2. relay'.tick = relay.tick + 1 BY <2>1
    <3> QED BY <2>3, <2>5, <3>1, <3>2
  <2>8. OrderKept' BY <1>1, <2>1 DEF OrderInv, OrderKept
  <2> QED BY <1>1, <2>1, <2>2, <2>6, <2>7, <2>8 DEF OrderInv
<1>6. CASE BadLine \/ EndOfStream
  <2>1. relay'.tick = relay.tick /\ relay.at = "reading" /\ relay'.at = "reaping"
        /\ answered' = FALSE /\ UNCHANGED <<requests, overtime>>
    BY <1>2, <1>6 DEF BadLine, EndOfStream, Abort
  <2>2. InTime = {} /\ InTime' = {} BY <1>3, <2>1 DEF InTime
  <2> QED BY <1>1, <2>1, <2>2, OrderHeld
<1>7. CASE Interrupt \/ InterruptReap \/ Delivered \/ Reap \/ Refused
  <2>1. relay'.tick = relay.tick /\ relay'.attempt = relay.attempt /\ relay'.at # "posting"
        /\ requests' \subseteq requests /\ UNCHANGED overtime
    BY <1>2, <1>7 DEF Interrupt, InterruptReap, Delivered, Reap, Refused, Abort
  <2>2. Current' = Current BY <2>1 DEF Current
  <2>3. InTime' \subseteq InTime BY <2>1 DEF InTime
  <2>4. relay'.at = "reading" => InTime' = {}
    <3>1. Interrupt \/ InterruptReap \/ Reap \/ Refused => relay'.at # "reading"
      BY <1>2 DEF Interrupt, InterruptReap, Reap, Refused, Abort
    <3>2. Delivered => Current \notin InTime BY DEF Delivered, OrderInv, InTime
    <3> QED BY <1>3, <1>7, <2>3, <3>1, <3>2
  <2>5. answered' => Current' \notin requests'
    <3>1. CASE Reap
      <4>1. UNCHANGED <<requests, answered>> BY <3>1 DEF Reap
      <4> QED BY <2>2, <4>1 DEF OrderInv
    <3>2. CASE Interrupt \/ InterruptReap \/ Delivered \/ Refused
      BY <3>2 DEF Interrupt, InterruptReap, Delivered, Refused, Abort
    <3> QED BY <1>7, <3>1, <3>2
  <2> QED BY <1>1, <1>3, <2>1, <2>2, <2>3, <2>4, <2>5, OrderHeld
<1>8. CASE Post
  <2>1. relay'.tick = relay.tick /\ relay'.attempt = relay.attempt
        /\ relay.at = "posting" /\ relay'.at = "waiting"
        /\ requests' = requests \cup {Current} /\ answered' = FALSE /\ UNCHANGED overtime
    BY <1>2, <1>8 DEF Post
  <2>2. Current' = Current /\ Current.tick = relay.tick BY <2>1 DEF Current
  <2>3. InTime = {} /\ InTime' \subseteq {Current} BY <1>3, <2>1 DEF InTime
  <2>4. \A i \in DOMAIN window : window[i] < relay.tick \/ window[i] \in overtime
    BY <2>1 DEF OrderInv
  <2>5. \A r \in requests' : r.tick <= relay.tick BY <1>2, <2>1, <2>2 DEF OrderInv
  <2>6. OrderKept' BY <1>1, <2>1 DEF OrderInv, OrderKept
  <2> QED BY <1>1, <2>1, <2>2, <2>3, <2>4, <2>5, <2>6 DEF OrderInv
<1>9. CASE Unreachable
  <2>1. Held /\ relay.at \in {"posting", "waiting"} /\ UNCHANGED overtime
        /\ \/ relay.at = "posting" /\ UNCHANGED requests
           \/ relay.at = "waiting" /\ Current \in requests /\ requests' = requests \ {Current}
    BY <1>9 DEF Unreachable
  <2>2. relay'.tick = relay.tick /\ relay'.at \in {"posting", "reading"} /\ answered' = FALSE
    BY <2>1, HeldStep
  <2>3. InTime' = {} BY <1>3, <2>1 DEF InTime
  <2>4. InTime # {} \/ relay.at = "posting" \/ relay.tick \in overtime
    BY <2>1 DEF InTime, Current
  <2> QED BY <1>1, <2>1, <2>2, <2>3, <2>4, OrderHeld
<1>10. CASE TimeOut
  <2>1. Held /\ relay.at = "waiting" /\ overtime' = overtime \cup {relay.tick}
        /\ UNCHANGED requests
    BY <1>10 DEF TimeOut
  <2>2. relay'.tick = relay.tick /\ answered' = FALSE BY <2>1, HeldStep
  <2>3. InTime' = {} BY <1>3, <2>1 DEF InTime, Current
  <2> QED BY <1>1, <2>1, <2>2, <2>3, OrderHeld
<1>11. CASE Diverted
  <2>1. /\ relay'.tick = relay.tick /\ relay.at = "waiting" /\ relay'.at = "reading"
        /\ Current \in requests /\ requests' = requests \ {Current}
        /\ answered' = FALSE /\ UNCHANGED overtime
    BY <1>2, <1>11 DEF Diverted, Drop
  <2>2. InTime' = {} BY <1>3, <2>1 DEF InTime
  <2>3. InTime # {} \/ relay.tick \in overtime BY <2>1 DEF InTime, Current
  <2> QED BY <1>1, <2>1, <2>2, <2>3, OrderHeld
<1> QED BY <1>4, <1>5, <1>6, <1>7, <1>8, <1>9, <1>10, <1>11 DEF RelayNext

\* Every step keeps the order.
LEMMA OrderStep == TypeOK /\ Underway /\ OrderInv /\ [Next]_vars => OrderInv'
<1> SUFFICES ASSUME TypeOK, Underway, OrderInv, [Next]_vars PROVE OrderInv' OBVIOUS
<1>1. CASE RelayNext /\ UNCHANGED engineVars BY <1>1, OrderRelay
<1>2. ASSUME NEW r \in requests, NEW triggered \in BOOLEAN, PostTelemetry(r, triggered)
      PROVE  OrderInv'
  <2> DEFINE n == Len(window)
  <2>1. /\ n \in Nat /\ DOMAIN window = 1..n /\ DOMAIN window' = 1..(n + 1)
        /\ \A i \in 1..n : window'[i] = window[i]
        /\ window'[n + 1] = r.tick
        /\ requests' = requests \ {r}
        /\ answered' = (answered \/ (relay.at = "waiting" /\ r = Current))
        /\ UNCHANGED <<twin, relay, delivered, dropped, overtime>>
    BY <1>2, Appended DEF TypeOK, EngineTypeOK
  <2>2. Current' = Current /\ InTime' = InTime \ {r} BY <2>1 DEF Current, InTime
  <2>3. r.tick <= relay.tick BY DEF OrderInv
  <2>4. \A i \in 1..(n + 1) : i = n + 1 \/ i \in 1..n BY <2>1
  <2>5. InTime' # {} => r.tick \in overtime
    BY <2>2 DEF OrderInv, InTime
  <2>6. relay.at = "posting" => r.tick \in overtime BY DEF OrderInv, InTime
  <2>7. r.tick \notin overtime =>
          \A i \in 1..n : window[i] < r.tick \/ window[i] \in overtime
    <3> SUFFICES ASSUME r.tick \notin overtime
                 PROVE  \A i \in 1..n : window[i] < r.tick \/ window[i] \in overtime
      OBVIOUS
    <3>1. r \in InTime BY DEF InTime
    <3>2. r.tick = relay.tick BY <3>1 DEF OrderInv, Current
    <3> QED BY <2>1, <3>1, <3>2 DEF OrderInv
  <2>8. \A i \in DOMAIN window' : window'[i] <= relay.tick
    BY <2>1, <2>3, <2>4 DEF OrderInv
  <2>9. InTime' # {} \/ relay.at = "posting" =>
          \A i \in DOMAIN window' : window'[i] < relay.tick \/ window'[i] \in overtime
    BY <2>1, <2>2, <2>4, <2>5, <2>6 DEF OrderInv
  <2>10. answered' => Current' \notin requests'
    <3>1. answered => Current \notin requests BY DEF OrderInv
    <3> QED BY <2>1, <2>2, <3>1, Zenon
  <2>11. OrderKept'
    <3> SUFFICES ASSUME NEW i \in DOMAIN window', NEW j \in DOMAIN window', i < j
                 PROVE  window'[i] < window'[j] \/ {window'[i], window'[j]} \cap overtime # {}
      BY <2>1 DEF OrderKept
    <3>1. i \in 1..n BY <2>1
    <3>2. CASE j \in 1..n BY <2>1, <3>1, <3>2 DEF OrderInv, OrderKept
    <3>3. CASE j = n + 1 BY <2>1, <2>7, <3>1, <3>3
    <3> QED BY <2>1, <2>4, <3>2, <3>3
  <2>12. \A q \in requests' : q.tick <= relay.tick BY <2>1 DEF OrderInv
  <2>13. \A q \in InTime' : q = Current /\ relay.at \notin {"reading", "posting"}
    BY <2>2 DEF OrderInv
  <2> QED BY <2>1, <2>2, <2>8, <2>9, <2>10, <2>11, <2>12, <2>13 DEF OrderInv
<1>3. CASE UNCHANGED <<window, relayVars>>
  BY <1>3 DEF relayVars, OrderInv, OrderKept, InTime, Current
<1>4. ASSUME NEW i \in DOMAIN recs, NEW status \in {"APPROVED", "REJECTED"},
             PostApprove(i, status)
      PROVE  OrderInv'
  BY <1>3, <1>4 DEF PostApprove, Decide
<1>5. CASE UNCHANGED vars BY <1>3, <1>5 DEF vars, engineVars
<1> QED BY <1>1, <1>2, <1>4, <1>5 DEF Next

\* Nothing was taken in yet.
LEMMA OrderInit == Init => OrderInv
<1> SUFFICES ASSUME Init PROVE OrderInv OBVIOUS
<1>1. DOMAIN window = {} BY DEF Init, EngineInit
<1>2. InTime = {} BY DEF InTime, Init, RelayInit
<1> QED BY <1>1, <1>2 DEF Init, RelayInit, OrderInv, OrderKept

\* The engine takes the ticks in once each and in their order, except those whose
\* attempt timed out (supervisor.py, the retry loop of _deliver).
THEOREM OrderHolds == Spec => []OrderKept
<1>1. OrderInv => OrderKept BY DEF OrderInv
<1> QED BY <1>1, RunTyped, OrderInit, OrderStep, PTL DEF Spec
-------------------------------------------------------------------------------
(* The pause after a decision.                                             *)

\* What the cooldown still asks for has not been waited yet.
CooldownInv == decided # 0 => cooldown + (Len(window) - decided) >= CooldownTicks

\* Every step keeps what the cooldown still asks for.
LEMMA CooldownStep == TypeOK /\ CooldownInv /\ [Next]_vars => CooldownInv'
<1> SUFFICES ASSUME TypeOK, CooldownInv, [Next]_vars PROVE CooldownInv' OBVIOUS
<1>1. /\ cooldown \in Nat /\ Len(window) \in Nat /\ decided \in 0..Len(window)
      /\ CooldownTicks \in Nat
  BY CockpitAssumption DEF CockpitAssumption, TypeOK, EngineTypeOK
<1>2. CASE UNCHANGED engineVars BY <1>2 DEF engineVars, CooldownInv
<1>3. ASSUME NEW r \in requests, NEW triggered \in BOOLEAN, PostTelemetry(r, triggered)
      PROVE  CooldownInv'
  <2>1. Len(window') = Len(window) + 1 BY <1>3, Appended
  <2>2. cooldown' = (IF cooldown > 0 THEN cooldown - 1 ELSE 0) /\ decided' = decided
    BY <1>3 DEF PostTelemetry, Ingest
  <2> QED BY <1>1, <2>1, <2>2 DEF CooldownInv
<1>4. ASSUME NEW i \in DOMAIN recs, NEW status \in {"APPROVED", "REJECTED"},
             PostApprove(i, status)
      PROVE  CooldownInv'
  <2>1. cooldown' = CooldownTicks /\ decided' = Len(window) /\ window' = window
    BY <1>4 DEF PostApprove, Decide
  <2> QED BY <1>1, <2>1 DEF CooldownInv
<1> QED BY <1>2, <1>3, <1>4 DEF Next, vars

\* A recommendation is raised only by a tick, and not in a pause.
LEMMA RaiseStep ==
  ASSUME TypeOK, [Next]_vars, Len(recs') > Len(recs) PROVE cooldown = 0
<1>1. Len(recs) \in Nat BY DEF TypeOK, EngineTypeOK
<1>2. CASE UNCHANGED recs BY <1>1, <1>2
<1>3. ASSUME NEW r \in requests, NEW triggered \in BOOLEAN, PostTelemetry(r, triggered),
             ~(triggered /\ MayRaise)
      PROVE  FALSE
  <2>1. recs' = Executed BY <1>3, Zenon DEF PostTelemetry, Ingest
  <2>2. Len(Executed) = Len(recs) BY DEF Executed, TypeOK, EngineTypeOK
  <2> QED BY <1>1, <2>1, <2>2
<1>4. ASSUME NEW i \in DOMAIN recs, NEW status \in {"APPROVED", "REJECTED"},
             PostApprove(i, status)
      PROVE  FALSE
  <2>1. Len(recs') = Len(recs) BY <1>4 DEF PostApprove, Decide, TypeOK, EngineTypeOK
  <2> QED BY <1>1, <2>1
<1> QED BY <1>2, <1>3, <1>4 DEF Next, vars, engineVars, MayRaise

\* How many numbers an interval holds.
LEMMA IntervalSize ==
  ASSUME NEW n \in Nat, NEW d \in 0..n
  PROVE  IsFiniteSet((d + 1)..n) /\ Cardinality((d + 1)..n) = n - d
<1>1. /\ IsFiniteSet((d + 1)..n)
      /\ Cardinality((d + 1)..n) = IF d + 1 > n THEN 0 ELSE n - (d + 1) + 1
  BY FS_Interval
<1>2. CASE d = n BY <1>1, <1>2
<1>3. CASE d < n
  <2>1. ~(d + 1 > n) /\ n - (d + 1) + 1 = n - d BY <1>3
  <2> QED BY <1>1, <2>1
<1> QED BY <1>1, <1>2, <1>3

\* Ticks in their order are different ones.
LEMMA QuietTicks ==
  ASSUME TypeOK, OrderKept,
         {window[i] : i \in (decided + 1)..Len(window)} \cap overtime = {}
  PROVE  Cardinality({window[i] : i \in (decided + 1)..Len(window)}) = Len(window) - decided
<1> DEFINE S == (decided + 1)..Len(window)
           T == {window[i] : i \in S}
           f == [i \in S |-> window[i]]
<1>1. /\ Len(window) \in Nat /\ decided \in 0..Len(window) /\ DOMAIN window = 1..Len(window)
      /\ \A i \in 1..Len(window) : window[i] \in Nat
  BY DEF TypeOK, EngineTypeOK
<1>2. S \subseteq DOMAIN window /\ decided + 1 \in Int BY <1>1
<1>3. \A i, j \in S : i < j => window[i] # window[j]
  <2> SUFFICES ASSUME NEW i \in S, NEW j \in S, i < j PROVE window[i] # window[j] OBVIOUS
  <2>1. window[i] < window[j] BY <1>2 DEF OrderKept
  <2>2. window[i] \in Nat /\ window[j] \in Nat BY <1>1, <1>2
  <2> QED BY <2>1, <2>2
<1>4. \A i, j \in S : i # j => window[i] # window[j]
  <2>1. \A i, j \in S : i # j => i < j \/ j < i BY <1>1
  <2> QED BY <1>3, <2>1
<1>5. f \in Bijection(S, T)
  BY <1>4 DEF Bijection, Injection, Surjection, IsInjective
<1>6. ExistsBijection(S, T) BY <1>5 DEF ExistsBijection
<1>7. IsFiniteSet(S) /\ Cardinality(S) = Len(window) - decided
  BY <1>1, IntervalSize
<1>8. Cardinality(T) = Cardinality(S) BY <1>6, <1>7, FS_Bijection
<1> QED BY <1>7, <1>8

\* After a decision CooldownTicks different ticks pass before the next
\* recommendation, unless one of those that passed was delivered again
\* (CockpitStateEngine.ingest and decide).
THEOREM CooldownHolds == Spec => CooldownKept
<1>1. Init => CooldownInv BY DEF Init, EngineInit, CooldownInv
<1>2. TypeOK /\ OrderKept /\ CooldownInv /\ [Next]_vars =>
        [Len(recs') > Len(recs) /\ decided # 0 =>
          LET quiet == {window[i] : i \in (decided + 1)..Len(window)} IN
          Cardinality(quiet) >= CooldownTicks \/ quiet \cap overtime # {}]_vars
  <2> DEFINE quiet == {window[i] : i \in (decided + 1)..Len(window)}
  <2> SUFFICES ASSUME TypeOK, OrderKept, CooldownInv, [Next]_vars,
                      Len(recs') > Len(recs), decided # 0, quiet \cap overtime = {}
               PROVE  Cardinality(quiet) >= CooldownTicks
    OBVIOUS
  <2>1. cooldown = 0 BY RaiseStep
  <2>2. Cardinality(quiet) = Len(window) - decided BY QuietTicks
  <2>3. Len(window) - decided >= CooldownTicks
    BY <2>1, CockpitAssumption DEF CockpitAssumption, CooldownInv, TypeOK, EngineTypeOK
  <2> QED BY <2>2, <2>3
<1> QED BY <1>1, <1>2, RunTyped, OrderHolds, CooldownStep, PTL DEF Spec, CooldownKept
-------------------------------------------------------------------------------
(* The engine and the subscribers of its cockpit: what is on its way.      *)

\* What is on its way to a subscriber: the frame in the writer's hands if it is
\* still to be sent to it, at 0, and the frames that wait.
From(c, w) == IF c \in w.to THEN 0 ELSE 1
At(w, ob, k) == IF k = 0 THEN w.frame ELSE ob[k]

\* A frame that tells of a recommendation, and the snapshot of a subscriber.
About(f, i) == f.kind \in {"triggered", "updated"} /\ f.body.rec = i
Snap(f, c) == f.kind = "snapshot" /\ f.to = c

\* The frames from n on bring a view up to the recommendations rs: no snapshot is
\* among them, and of every recommendation the last one tells, or the view does and
\* none is about it.
Tells(c, view, n, rs, w, ob) ==
  /\ DOMAIN view \subseteq DOMAIN rs
  /\ \A k \in n..Len(ob) : ~Snap(At(w, ob, k), c)
  /\ \A i \in DOMAIN rs :
       \/ /\ i \in DOMAIN view /\ view[i] = rs[i]
          /\ \A k \in n..Len(ob) : ~About(At(w, ob, k), i)
       \/ \E k \in n..Len(ob) :
            /\ About(At(w, ob, k), i) /\ At(w, ob, k).body.status = rs[i]
            /\ \A m \in (k + 1)..Len(ob) : ~About(At(w, ob, m), i)

\* A subscriber's view, or the snapshot on its way to it, is brought up to date.
Served(c, view, rs, w, ob) ==
  \/ Tells(c, view, From(c, w), rs, w, ob)
  \/ \E k \in From(c, w)..Len(ob) :
       Snap(At(w, ob, k), c) /\ Tells(c, At(w, ob, k).body.view, k + 1, rs, w, ob)

\* No frame is for this subscriber alone.
Untouched(c) ==
  c \notin writing.to /\ \A k \in DOMAIN outbox : outbox[k].to # c

\* What is on its way brings every subscriber up to date.
ViewInv ==
  /\ writing # Idle /\ writing.frame.to # All => writing.to = {writing.frame.to}
  /\ \A c \in Clients : conn[c] \in {"out", "accepting"} => Untouched(c)
  /\ \A c \in Connected :
       Served(c, client[c].view, recs, writing, outbox) \/ client[c].lossy \/ client[c].raced

\* A frame that says nothing to a subscriber of the recommendations.
Other(f, c) == f.kind \notin {"triggered", "updated"} /\ ~Snap(f, c)

\* What frames say when the recommendations change: the last frame about one that
\* changed tells of it, and there is none about the others.
News(fr, rs1, rs2) ==
  /\ DOMAIN rs1 \subseteq DOMAIN rs2
  /\ \A i \in DOMAIN rs2 :
       \/ /\ i \in DOMAIN rs1 /\ rs2[i] = rs1[i]
          /\ \A j \in DOMAIN fr : ~About(fr[j], i)
       \/ \E j \in DOMAIN fr :
            /\ About(fr[j], i) /\ fr[j].body.status = rs2[i]
            /\ \A m \in DOMAIN fr : m > j => ~About(fr[m], i)

\* The frames from b on are those from a on, in their order, but for some that say
\* nothing: h gives each its former place.
Thinned(c, h, w1, ob1, a, w2, ob2, b) ==
  /\ Len(ob1) \in Nat /\ Len(ob2) \in Nat /\ a \in Nat /\ b \in Nat
  /\ \A k \in b..Len(ob2) : h[k] \in a..Len(ob1) /\ At(w2, ob2, k) = At(w1, ob1, h[k])
  /\ \A k, m \in b..Len(ob2) : k < m => h[k] < h[m]
  /\ \A k \in a..Len(ob1) : (\E m \in b..Len(ob2) : h[m] = k) \/ Other(At(w1, ob1, k), c)
-------------------------------------------------------------------------------
(* What the frames on their way lead to.                                   *)

\* Frames that say nothing to a subscriber may be missing: the others tell the same.
LEMMA TellsThinned ==
  ASSUME NEW c, NEW view, NEW rs, NEW w1, NEW ob1, NEW w2, NEW ob2,
         NEW a, NEW b, NEW h, Thinned(c, h, w1, ob1, a, w2, ob2, b),
         Tells(c, view, a, rs, w1, ob1)
  PROVE  Tells(c, view, b, rs, w2, ob2)
<1> USE DEF Thinned
<1>1. \A k \in b..Len(ob2) : ~Snap(At(w2, ob2, k), c) BY DEF Tells
<1>2. ASSUME NEW i \in DOMAIN rs
      PROVE  \/ /\ i \in DOMAIN view /\ view[i] = rs[i]
                /\ \A k \in b..Len(ob2) : ~About(At(w2, ob2, k), i)
             \/ \E k \in b..Len(ob2) :
                  /\ About(At(w2, ob2, k), i) /\ At(w2, ob2, k).body.status = rs[i]
                  /\ \A m \in (k + 1)..Len(ob2) : ~About(At(w2, ob2, m), i)
  <2>1. CASE /\ i \in DOMAIN view /\ view[i] = rs[i]
             /\ \A k \in a..Len(ob1) : ~About(At(w1, ob1, k), i)
    BY <2>1
  <2>2. CASE \E k \in a..Len(ob1) :
               /\ About(At(w1, ob1, k), i) /\ At(w1, ob1, k).body.status = rs[i]
               /\ \A m \in (k + 1)..Len(ob1) : ~About(At(w1, ob1, m), i)
    <3>1. PICK k \in a..Len(ob1) :
               /\ About(At(w1, ob1, k), i) /\ At(w1, ob1, k).body.status = rs[i]
               /\ \A m \in (k + 1)..Len(ob1) : ~About(At(w1, ob1, m), i)
      BY <2>2
    <3>2. PICK n \in b..Len(ob2) : h[n] = k BY <3>1 DEF Other, About
    <3>3. ASSUME NEW m \in (n + 1)..Len(ob2) PROVE ~About(At(w2, ob2, m), i)
      <4>1. m \in b..Len(ob2) /\ n < m OBVIOUS
      <4>2. h[m] > k /\ h[m] \in a..Len(ob1) BY <4>1, <3>2
      <4>3. h[m] \in (k + 1)..Len(ob1) BY <4>2
      <4> QED BY <4>1, <4>3, <3>1
    <3>4. At(w2, ob2, n) = At(w1, ob1, k) BY <3>2
    <3> QED BY <3>1, <3>3, <3>4
  <2> QED BY <2>1, <2>2 DEF Tells
<1>3. DOMAIN view \subseteq DOMAIN rs BY DEF Tells
<1> QED BY <1>1, <1>2, <1>3 DEF Tells

\* The same where a snapshot is on its way.
LEMMA ServedThinned ==
  ASSUME NEW c, NEW view, NEW rs, NEW w1, NEW ob1, NEW w2, NEW ob2, NEW h,
         Thinned(c, h, w1, ob1, From(c, w1), w2, ob2, From(c, w2)),
         Served(c, view, rs, w1, ob1)
  PROVE  Served(c, view, rs, w2, ob2)
<1>0. /\ Len(ob1) \in Nat /\ Len(ob2) \in Nat
      /\ From(c, w1) \in Nat /\ From(c, w2) \in Nat
      /\ \A k \in From(c, w2)..Len(ob2) :
           h[k] \in From(c, w1)..Len(ob1) /\ At(w2, ob2, k) = At(w1, ob1, h[k])
      /\ \A k, m \in From(c, w2)..Len(ob2) : k < m => h[k] < h[m]
      /\ \A k \in From(c, w1)..Len(ob1) :
           (\E m \in From(c, w2)..Len(ob2) : h[m] = k) \/ Other(At(w1, ob1, k), c)
  BY DEF Thinned
<1>1. CASE Tells(c, view, From(c, w1), rs, w1, ob1)
  <2>1. Tells(c, view, From(c, w2), rs, w2, ob2) BY <1>1, TellsThinned
  <2> QED BY <2>1 DEF Served
<1>2. CASE \E k \in From(c, w1)..Len(ob1) :
             Snap(At(w1, ob1, k), c) /\ Tells(c, At(w1, ob1, k).body.view, k + 1, rs, w1, ob1)
  <2>1. PICK k \in From(c, w1)..Len(ob1) :
             Snap(At(w1, ob1, k), c) /\ Tells(c, At(w1, ob1, k).body.view, k + 1, rs, w1, ob1)
    BY <1>2
  <2>2. PICK n \in From(c, w2)..Len(ob2) : h[n] = k BY <1>0, <2>1 DEF Other
  <2> DEFINE base == At(w1, ob1, k).body.view
  <2>3. k + 1 \in Nat /\ n + 1 \in Nat /\ k \in Nat /\ n \in Nat BY <1>0
  <2>4. \A m \in (n + 1)..Len(ob2) : m \in From(c, w2)..Len(ob2) BY <1>0, <2>3
  <2>5. \A m \in (n + 1)..Len(ob2) :
          h[m] \in (k + 1)..Len(ob1) /\ At(w2, ob2, m) = At(w1, ob1, h[m])
    <3> SUFFICES ASSUME NEW m \in (n + 1)..Len(ob2)
                 PROVE  h[m] \in (k + 1)..Len(ob1) /\ At(w2, ob2, m) = At(w1, ob1, h[m])
      OBVIOUS
    <3>1. m \in From(c, w2)..Len(ob2) /\ n < m BY <2>4, <2>3
    <3>2. h[m] > k /\ h[m] \in From(c, w1)..Len(ob1) /\ At(w2, ob2, m) = At(w1, ob1, h[m])
      BY <1>0, <3>1, <2>2
    <3> QED BY <3>2, <1>0, <2>3
  <2>6. \A p, m \in (n + 1)..Len(ob2) : p < m => h[p] < h[m] BY <1>0, <2>4
  <2>7. \A p \in (k + 1)..Len(ob1) :
          (\E m \in (n + 1)..Len(ob2) : h[m] = p) \/ Other(At(w1, ob1, p), c)
    <3> SUFFICES ASSUME NEW p \in (k + 1)..Len(ob1), ~Other(At(w1, ob1, p), c)
                 PROVE  \E m \in (n + 1)..Len(ob2) : h[m] = p
      OBVIOUS
    <3>1. p \in From(c, w1)..Len(ob1) /\ p > k BY <1>0, <2>3
    <3>2. PICK m \in From(c, w2)..Len(ob2) : h[m] = p BY <1>0, <3>1
    <3>3. m > n
      <4> SUFFICES ASSUME ~(m > n) PROVE FALSE OBVIOUS
      <4>1. m < n \/ m = n BY <1>0, <2>3
      <4>2. h[m] < h[n] \/ h[m] = h[n] BY <1>0, <4>1
      <4> QED BY <4>2, <3>1, <3>2, <2>2, <1>0
    <3> QED BY <3>2, <3>3, <1>0, <2>3
  <2>8. Tells(c, base, n + 1, rs, w2, ob2)
    <3> HIDE DEF base
    <3>1. Tells(c, base, k + 1, rs, w1, ob1) BY <2>1 DEF base
    <3>2. Thinned(c, h, w1, ob1, k + 1, w2, ob2, n + 1)
      BY <1>0, <2>3, <2>5, <2>6, <2>7 DEF Thinned
    <3> QED BY <3>1, <3>2, TellsThinned
  <2>9. At(w2, ob2, n) = At(w1, ob1, k) BY <1>0, <2>2
  <2> QED BY <2>1, <2>2, <2>8, <2>9 DEF Served
<1> QED BY <1>1, <1>2 DEF Served

\* Frames that say what changed, queued behind the others, tell of the new state.
LEMMA TellsExtended ==
  ASSUME NEW c, NEW view, NEW rs1, NEW rs2, NEW w, NEW S, NEW ob \in Seq(S), NEW fr \in Seq(S),
         NEW n \in 0..(Len(ob) + 1),
         News(fr, rs1, rs2), \A j \in DOMAIN fr : ~Snap(fr[j], c),
         Tells(c, view, n, rs1, w, ob)
  PROVE  Tells(c, view, n, rs2, w, ob \o fr)
<1> DEFINE all == ob \o fr
           L == Len(ob)
<1>1. L \in Nat /\ Len(fr) \in Nat /\ Len(all) = L + Len(fr) /\ DOMAIN fr = 1..Len(fr)
  OBVIOUS
<1>2. \A k \in n..L : k \in n..Len(all) /\ At(w, all, k) = At(w, ob, k)
  BY <1>1 DEF At
<1>3. \A j \in DOMAIN fr : L + j \in n..Len(all) /\ At(w, all, L + j) = fr[j]
  BY <1>1 DEF At
<1>4. \A k \in n..Len(all) : k \in n..L \/ (k - L \in DOMAIN fr /\ At(w, all, k) = fr[k - L])
  <2> SUFFICES ASSUME NEW k \in n..Len(all), k \notin n..L
               PROVE  k - L \in DOMAIN fr /\ At(w, all, k) = fr[k - L]
    OBVIOUS
  <2>1. k - L \in DOMAIN fr /\ L + (k - L) = k BY <1>1
  <2> QED BY <2>1, <1>3
<1> HIDE DEF all, L
<1>5. DOMAIN view \subseteq DOMAIN rs2 BY DEF Tells, News
<1>6. \A k \in n..Len(all) : ~Snap(At(w, all, k), c)
  BY <1>2, <1>4 DEF Tells, L
<1>7. ASSUME NEW i \in DOMAIN rs2
      PROVE  \/ /\ i \in DOMAIN view /\ view[i] = rs2[i]
                /\ \A k \in n..Len(all) : ~About(At(w, all, k), i)
             \/ \E k \in n..Len(all) :
                  /\ About(At(w, all, k), i) /\ At(w, all, k).body.status = rs2[i]
                  /\ \A m \in (k + 1)..Len(all) : ~About(At(w, all, m), i)
  <2>1. CASE /\ i \in DOMAIN rs1 /\ rs2[i] = rs1[i]
             /\ \A j \in DOMAIN fr : ~About(fr[j], i)
    <3>1. CASE /\ i \in DOMAIN view /\ view[i] = rs1[i]
               /\ \A k \in n..L : ~About(At(w, ob, k), i)
      BY <2>1, <3>1, <1>2, <1>4
    <3>2. CASE \E k \in n..L :
                 /\ About(At(w, ob, k), i) /\ At(w, ob, k).body.status = rs1[i]
                 /\ \A m \in (k + 1)..L : ~About(At(w, ob, m), i)
      <4>1. PICK k \in n..L :
                 /\ About(At(w, ob, k), i) /\ At(w, ob, k).body.status = rs1[i]
                 /\ \A m \in (k + 1)..L : ~About(At(w, ob, m), i)
        BY <3>2
      <4>2. ASSUME NEW m \in (k + 1)..Len(all) PROVE ~About(At(w, all, m), i)
        <5>1. m \in n..Len(all) BY <1>1
        <5>2. CASE m \in n..L
          <6>1. m \in (k + 1)..L BY <5>2
          <6> QED BY <6>1, <4>1, <5>2, <1>2
        <5>3. CASE m - L \in DOMAIN fr /\ At(w, all, m) = fr[m - L] BY <5>3, <2>1
        <5> QED BY <5>1, <5>2, <5>3, <1>4
      <4>3. k \in n..Len(all) /\ At(w, all, k) = At(w, ob, k) BY <1>2
      <4> QED BY <2>1, <4>1, <4>2, <4>3
    <3> QED BY <2>1, <3>1, <3>2 DEF Tells, L
  <2>2. CASE \E j \in DOMAIN fr :
               /\ About(fr[j], i) /\ fr[j].body.status = rs2[i]
               /\ \A m \in DOMAIN fr : m > j => ~About(fr[m], i)
    <3>1. PICK j \in DOMAIN fr :
               /\ About(fr[j], i) /\ fr[j].body.status = rs2[i]
               /\ \A m \in DOMAIN fr : m > j => ~About(fr[m], i)
      BY <2>2
    <3>2. L + j \in n..Len(all) /\ At(w, all, L + j) = fr[j] /\ j \in 1..Len(fr) BY <1>1, <1>3
    <3>3. ASSUME NEW m \in (L + j + 1)..Len(all) PROVE ~About(At(w, all, m), i)
      <4>1. m \in n..Len(all) /\ m \notin n..L /\ m - L > j BY <1>1, <3>2
      <4>2. m - L \in DOMAIN fr /\ At(w, all, m) = fr[m - L] BY <4>1, <1>4
      <4> QED BY <4>1, <4>2, <3>1
    <3> QED BY <3>1, <3>2, <3>3
  <2> QED BY <2>1, <2>2 DEF News
<1> QED BY <1>5, <1>6, <1>7 DEF Tells, all

\* The same where a snapshot is on its way.
LEMMA ServedExtended ==
  ASSUME NEW c, NEW view, NEW rs1, NEW rs2, NEW w, NEW S, NEW ob \in Seq(S), NEW fr \in Seq(S),
         News(fr, rs1, rs2), \A j \in DOMAIN fr : ~Snap(fr[j], c),
         Served(c, view, rs1, w, ob)
  PROVE  Served(c, view, rs2, w, ob \o fr)
<1>1. From(c, w) \in 0..1 /\ Len(ob) \in Nat /\ Len(ob \o fr) >= Len(ob) /\ Len(ob \o fr) \in Nat
  BY DEF From
<1>2. CASE Tells(c, view, From(c, w), rs1, w, ob)
  <2>1. From(c, w) \in 0..(Len(ob) + 1) BY <1>1
  <2>2. Tells(c, view, From(c, w), rs2, w, ob \o fr) BY <2>1, <1>2, TellsExtended
  <2> QED BY <2>2 DEF Served
<1>3. CASE \E k \in From(c, w)..Len(ob) :
             Snap(At(w, ob, k), c) /\ Tells(c, At(w, ob, k).body.view, k + 1, rs1, w, ob)
  <2>1. PICK k \in From(c, w)..Len(ob) :
             Snap(At(w, ob, k), c) /\ Tells(c, At(w, ob, k).body.view, k + 1, rs1, w, ob)
    BY <1>3
  <2>2. k + 1 \in 0..(Len(ob) + 1) /\ k \in From(c, w)..Len(ob \o fr) BY <1>1
  <2>3. Tells(c, At(w, ob, k).body.view, k + 1, rs2, w, ob \o fr)
    BY <2>1, <2>2, TellsExtended
  <2>4. At(w, ob \o fr, k) = At(w, ob, k) BY <1>1 DEF At
  <2> QED BY <2>1, <2>2, <2>3, <2>4 DEF Served
<1> QED BY <1>2, <1>3 DEF Served
-------------------------------------------------------------------------------
(* What a route queues, and what the outbox keeps of it.                   *)

\* The order of no number, and of one: no more are ever executed by a tick.
LEMMA InOrderEmpty == InOrder({}) = <<>>
<1>1. Cardinality({}) = 0 BY FS_EmptySet
<1>2. <<>> \in [1..0 -> {}] OBVIOUS
<1>3. \A s \in [1..0 -> {}] : s = <<>> OBVIOUS
<1> QED BY <1>1, <1>2, <1>3 DEF InOrder

\* The order of one number.
LEMMA InOrderOne == ASSUME NEW x PROVE InOrder({x}) = <<x>>
<1>1. Cardinality({x}) = 1 BY FS_Singleton
<1>2. <<x>> \in [1..1 -> {x}] /\ DOMAIN <<x>> = 1..1 OBVIOUS
<1>3. \A s \in [1..1 -> {x}] : s = <<x>> OBVIOUS
<1>4. \A j, k \in DOMAIN <<x>> : j < k => <<x>>[j] < <<x>>[k] BY <1>2
<1> QED BY <1>1, <1>2, <1>3, <1>4 DEF InOrder

\* What _enqueue keeps: the frames that waited and the new ones but for the oldest.
LEMMA QueueHolds ==
  ASSUME NEW S, outbox \in Seq(S), NEW frames \in Seq(S)
  PROVE  LET all == outbox \o frames IN
         \E n \in Nat :
           /\ Queue(frames) \in Seq(S)
           /\ n <= Len(all) /\ Len(Queue(frames)) = Len(all) - n
           /\ Len(Queue(frames)) <= OutboxLimit
           /\ \A k \in 1..Len(Queue(frames)) : Queue(frames)[k] = all[k + n]
           /\ n # 0 => n = Len(all) - OutboxLimit
<1> DEFINE all == outbox \o frames
<1>0. OutboxLimit \in Nat \ {0} BY StreamAssumption DEF StreamAssumption
<1>1. all \in Seq(S) /\ Len(all) \in Nat OBVIOUS
<1> HIDE DEF all
<1>2. CASE Len(all) <= OutboxLimit
  <2>1. Queue(frames) = all BY <1>2 DEF Queue, all
  <2>2. 0 \in Nat /\ \A k \in 1..Len(all) : k + 0 = k OBVIOUS
  <2>3. /\ Queue(frames) \in Seq(S)
        /\ 0 <= Len(all) /\ Len(Queue(frames)) = Len(all) - 0
        /\ Len(Queue(frames)) <= OutboxLimit
        /\ \A k \in 1..Len(Queue(frames)) : Queue(frames)[k] = all[k + 0]
    BY <1>1, <1>2, <2>1, <2>2
  <2> QED BY <2>3 DEF all
<1>3. CASE ~(Len(all) <= OutboxLimit)
  <2> DEFINE n == Len(all) - OutboxLimit
  <2>1. n \in Nat /\ n + 1 \in 1..Len(all) /\ n # 0 BY <1>0, <1>1, <1>3
  <2>2. Queue(frames) = SubSeq(all, n + 1, Len(all)) BY <1>3 DEF Queue, all
  <2>3. Len(all) - n = OutboxLimit /\ n <= Len(all) /\ OutboxLimit <= OutboxLimit BY <1>0, <1>1
  <2> HIDE DEF n
  <2>4. \A k \in (n + 1)..Len(all) : all[k] \in S
    <3> SUFFICES ASSUME NEW k \in (n + 1)..Len(all) PROVE all[k] \in S OBVIOUS
    <3>1. k \in 1..Len(all) BY <1>1, <2>1
    <3> QED BY <1>1, <3>1
  <2>5. /\ n + 1 \in Int /\ Len(all) \in Int
        /\ n + 1 <= Len(all) /\ Len(all) - (n + 1) + 1 = OutboxLimit
    BY <1>0, <1>1, <2>1, <2>3
  <2>6. /\ SubSeq(all, n + 1, Len(all)) \in Seq(S)
        /\ Len(SubSeq(all, n + 1, Len(all))) = OutboxLimit
        /\ \A k \in 1..OutboxLimit : SubSeq(all, n + 1, Len(all))[k] = all[n + 1 + k - 1]
    BY <2>4, <2>5, SubSeqProperties
  <2>7. \A k \in 1..OutboxLimit : n + 1 + k - 1 = k + n BY <1>0, <2>1
  <2>8. /\ Queue(frames) \in Seq(S)
        /\ Len(Queue(frames)) = OutboxLimit
        /\ \A k \in 1..OutboxLimit : Queue(frames)[k] = all[k + n]
    BY <2>2, <2>6, <2>7
  <2>9. n = Len(all) - OutboxLimit BY DEF n
  <2> QED BY <2>1, <2>3, <2>8, <2>9 DEF all
<1> QED BY <1>2, <1>3 DEF all
-------------------------------------------------------------------------------
(* What queueing does to a subscriber.                                     *)

\* What is kept about a subscriber.
ClientType == [view : Seq(Statuses \cup {Nothing}), lossy : BOOLEAN, raced : BOOLEAN]

\* What _enqueue does to the outbox and to what happened to a subscriber.
LEMMA Enqueued ==
  ASSUME NEW S, outbox \in Seq(S), NEW frames \in Seq(S), NEW outdated,
         client \in [Clients -> ClientType], Enqueue(frames, outdated)
  PROVE  /\ outbox' \in Seq(S) /\ Len(outbox') <= OutboxLimit
         /\ \A k \in DOMAIN outbox' :
              \/ \E j \in DOMAIN outbox : outbox'[k] = outbox[j]
              \/ \E j \in DOMAIN frames : outbox'[k] = frames[j]
         /\ client' \in [Clients -> ClientType]
         /\ \A c \in Clients :
              /\ client'[c].view = client[c].view
              /\ client[c].lossy => client'[c].lossy
              /\ client[c].raced => client'[c].raced
              /\ c \in outdated => client'[c].raced
              /\ conn'[c] # "in" /\ c \notin outdated => client'[c] = client[c]
<1> DEFINE all == outbox \o frames
           lost == {all[i] : i \in 1..(Len(all) - OutboxLimit)}
<1>1. /\ outbox' = Queue(frames)
      /\ client' = [c \in Clients |->
           [client[c] EXCEPT
              !.lossy = client[c].lossy \/ (conn'[c] = "in" /\ \E f \in lost : f.to \in {All, c}),
              !.raced = client[c].raced \/ c \in outdated]]
  BY DEF Enqueue
<1>2. /\ all \in Seq(S) /\ Len(all) = Len(outbox) + Len(frames)
      /\ \A k \in 1..Len(all) :
           \/ \E j \in DOMAIN outbox : all[k] = outbox[j]
           \/ \E j \in DOMAIN frames : all[k] = frames[j]
  <2>1. all \in Seq(S) /\ Len(all) = Len(outbox) + Len(frames) OBVIOUS
  <2>2. ASSUME NEW k \in 1..Len(all)
        PROVE  \/ \E j \in DOMAIN outbox : all[k] = outbox[j]
               \/ \E j \in DOMAIN frames : all[k] = frames[j]
    <3>1. CASE k <= Len(outbox)
      <4>1. k \in DOMAIN outbox /\ all[k] = outbox[k] BY <3>1
      <4> QED BY <4>1
    <3>2. CASE k > Len(outbox)
      <4>1. k - Len(outbox) \in DOMAIN frames /\ all[k] = frames[k - Len(outbox)]
        BY <2>1, <3>2
      <4> QED BY <4>1
    <3> QED BY <3>1, <3>2, <2>1
  <2> QED BY <2>1, <2>2
<1>3. PICK n \in Nat :
        /\ Queue(frames) \in Seq(S)
        /\ n <= Len(all) /\ Len(Queue(frames)) = Len(all) - n
        /\ Len(Queue(frames)) <= OutboxLimit
        /\ \A k \in 1..Len(Queue(frames)) : Queue(frames)[k] = all[k + n]
        /\ n # 0 => n = Len(all) - OutboxLimit
  BY QueueHolds
<1> HIDE DEF all, lost
<1>4. ASSUME NEW k \in DOMAIN outbox'
      PROVE  \/ \E j \in DOMAIN outbox : outbox'[k] = outbox[j]
             \/ \E j \in DOMAIN frames : outbox'[k] = frames[j]
  <2> DEFINE q == Queue(frames)
  <2>0. Len(all) \in Nat BY <1>2
  <2>1. /\ q \in Seq(S) /\ Len(q) = Len(all) - n /\ outbox' = q
        /\ \A j \in 1..Len(q) : q[j] = all[j + n]
    BY <1>1, <1>3
  <2> HIDE DEF q
  <2>2. k \in 1..Len(q) BY <2>1
  <2>3. k + n \in 1..Len(all) /\ outbox'[k] = all[k + n] BY <2>0, <2>1, <2>2
  <2> QED BY <2>3, <1>2
<1>5. ASSUME NEW c \in Clients
      PROVE  /\ client'[c] \in ClientType
             /\ client'[c].view = client[c].view
             /\ client[c].lossy => client'[c].lossy
             /\ client[c].raced => client'[c].raced
             /\ c \in outdated => client'[c].raced
             /\ conn'[c] # "in" /\ c \notin outdated => client'[c] = client[c]
  <2> DEFINE L == client[c].lossy \/ (conn'[c] = "in" /\ \E f \in lost : f.to \in {All, c})
             R == client[c].raced \/ c \in outdated
  <2>1. client'[c] = [client[c] EXCEPT !.lossy = L, !.raced = R] BY <1>1
  <2>2. client[c] \in ClientType /\ client[c].lossy \in BOOLEAN /\ client[c].raced \in BOOLEAN
    BY DEF ClientType
  <2>3. L \in BOOLEAN /\ R \in BOOLEAN BY <2>2
  <2>4. conn'[c] # "in" /\ c \notin outdated => L = client[c].lossy /\ R = client[c].raced
    BY <2>2
  <2>5. (client[c].lossy => L) /\ (client[c].raced => R) /\ (c \in outdated => R) OBVIOUS
  <2> HIDE DEF L, R
  <2>6. client'[c] \in ClientType /\ client'[c].view = client[c].view
        /\ client'[c].lossy = L /\ client'[c].raced = R
    BY <2>1, <2>2, <2>3 DEF ClientType
  <2>7. conn'[c] # "in" /\ c \notin outdated => client'[c] = client[c]
    BY <2>1, <2>2, <2>4 DEF ClientType
  <2> QED BY <2>5, <2>6, <2>7
<1>6. client' \in [Clients -> ClientType] BY <1>1, <1>5
<1> QED BY <1>1, <1>3, <1>4, <1>5, <1>6

\* A connected subscriber for which no frame was shed is still brought up to date.
LEMMA EnqueueServed ==
  ASSUME NEW S, outbox \in Seq(S), NEW frames \in Seq(S), NEW outdated,
         \A f \in S : f.kind \in {"triggered", "updated"} => f.to = All,
         client \in [Clients -> ClientType], Enqueue(frames, outdated),
         NEW w, NEW c \in Clients, conn'[c] = "in", ~client'[c].lossy,
         NEW view, NEW rs1, NEW rs2, News(frames, rs1, rs2),
         \A j \in DOMAIN frames : ~Snap(frames[j], c),
         Served(c, view, rs1, w, outbox)
  PROVE  Served(c, view, rs2, w, outbox')
<1> DEFINE all == outbox \o frames
           lost == {all[i] : i \in 1..(Len(all) - OutboxLimit)}
<1>1. Served(c, view, rs2, w, all) BY ServedExtended
<1>2. PICK n \in Nat :
        /\ n <= Len(all) /\ Len(Queue(frames)) = Len(all) - n
        /\ \A k \in 1..Len(Queue(frames)) : Queue(frames)[k] = all[k + n]
        /\ n # 0 => n = Len(all) - OutboxLimit
  BY QueueHolds
<1>3. outbox' = Queue(frames) BY DEF Enqueue
<1>4. all \in Seq(S) /\ Len(all) \in Nat OBVIOUS
<1>5. \A f \in lost : f.to \notin {All, c}
  <2> DEFINE L == client[c].lossy \/ (conn'[c] = "in" /\ \E f \in lost : f.to \in {All, c})
             R == client[c].raced \/ c \in outdated
  <2>1. client'[c] = [client[c] EXCEPT !.lossy = L, !.raced = R] BY DEF Enqueue
  <2>2. client[c] \in ClientType OBVIOUS
  <2> HIDE DEF L, R
  <2>3. client'[c].lossy = L BY <2>1, <2>2 DEF ClientType
  <2> QED BY <2>3 DEF L
<1>6. \A k \in 1..n : Other(all[k], c)
  <2> SUFFICES ASSUME NEW k \in 1..n PROVE Other(all[k], c) OBVIOUS
  <2>1. k \in 1..(Len(all) - OutboxLimit) /\ k \in 1..Len(all) BY <1>2, <1>4
  <2>2. all[k] \in S /\ all[k] \in lost BY <2>1, <1>4
  <2> HIDE DEF all, lost
  <2> QED BY <2>2, <1>5 DEF Other, Snap
<1> DEFINE h == [k \in 0..Len(outbox') |-> IF k = 0 THEN 0 ELSE k + n]
<1>7. Thinned(c, h, w, all, From(c, w), w, outbox', From(c, w))
  <2> HIDE DEF all, lost
  <2>1. Len(outbox') \in Nat /\ Len(outbox') = Len(all) - n BY <1>2, <1>3, <1>4
  <2>2. From(c, w) \in {0, 1} BY DEF From
  <2>3. ASSUME NEW k \in From(c, w)..Len(outbox')
        PROVE  h[k] \in From(c, w)..Len(all) /\ At(w, outbox', k) = At(w, all, h[k])
    <3>1. k \in 0..Len(outbox') BY <2>2
    <3>2. CASE k = 0 BY <3>1, <3>2, <1>4, <2>2 DEF At
    <3>3. CASE k # 0
      <4>1. h[k] = k + n /\ k \in 1..Len(outbox') /\ k + n # 0 BY <3>1, <3>3
      <4>2. outbox'[k] = all[k + n] BY <4>1, <1>2, <1>3
      <4>3. k + n \in From(c, w)..Len(all) BY <4>1, <2>1, <2>2, <1>4
      <4> HIDE DEF h
      <4> QED BY <3>3, <4>1, <4>2, <4>3 DEF At
    <3> QED BY <3>2, <3>3
  <2>4. ASSUME NEW k \in From(c, w)..Len(outbox'), NEW m \in From(c, w)..Len(outbox'), k < m
        PROVE  h[k] < h[m]
    <3>1. k \in 0..Len(outbox') /\ m \in 1..Len(outbox') /\ m \in 0..Len(outbox')
      BY <2>2, <2>4
    <3> QED BY <3>1, <2>4
  <2>5. ASSUME NEW k \in From(c, w)..Len(all), ~Other(At(w, all, k), c)
        PROVE  \E m \in From(c, w)..Len(outbox') : h[m] = k
    <3>1. CASE k = 0
      <4>1. 0 \in From(c, w)..Len(outbox') /\ 0 \in 0..Len(outbox') BY <2>1, <2>2, <3>1
      <4>2. h[0] = 0 BY <4>1
      <4> QED BY <3>1, <4>1, <4>2
    <3>2. CASE k # 0
      <4>1. k \in 1..Len(all) /\ ~Other(all[k], c) BY <2>2, <2>5, <3>2 DEF At
      <4>2. k > n BY <4>1, <1>6
      <4>3. k - n \in 1..Len(outbox') BY <4>1, <4>2, <2>1
      <4>4. k - n \in From(c, w)..Len(outbox') /\ k - n \in 0..Len(outbox') BY <4>3, <2>2
      <4>5. h[k - n] = k BY <4>3, <4>4, <4>1
      <4> QED BY <4>4, <4>5
    <3> QED BY <3>1, <3>2
  <2> HIDE DEF h
  <2>6. From(c, w) \in Nat BY <2>2
  <2> QED BY <1>4, <2>1, <2>3, <2>4, <2>5, <2>6 DEF Thinned
<1> HIDE DEF h, all
<1>8. Served(c, view, rs2, w, outbox') BY <1>1, <1>7, ServedThinned
<1> QED BY <1>8
-------------------------------------------------------------------------------
(* Frames and views.                                                       *)

\* A status put in its place of a view.
LEMMA PutType ==
  ASSUME NEW T, Nothing \in T, NEW view \in Seq(T), NEW i \in Nat \ {0}, NEW status \in T
  PROVE  Put(view, i, status) \in Seq(T)
<1> DEFINE n == IF Len(view) < i THEN i ELSE Len(view)
           put == [j \in 1..n |-> IF j = i THEN status
                                  ELSE IF j \in DOMAIN view THEN view[j] ELSE Nothing]
<1>1. n \in Nat /\ DOMAIN view = 1..Len(view) OBVIOUS
<1>2. Put(view, i, status) = put BY DEF Put
<1> HIDE DEF n
<1>3. put \in [1..n -> T] BY <1>1
<1>4. put \in Seq(T) BY <1>1, <1>3, SeqDef
<1> QED BY <1>2, <1>4

\* What a frame carries and whom it is for, by its kind.
LEMMA FramesKinds ==
  ASSUME NEW f \in Frames
  PROVE  /\ f.kind \in {"triggered", "updated"} =>
              f.to = All /\ f.body.rec \in DOMAIN recs /\ f.body.status \in Statuses
         /\ f.kind = "snapshot" => f.to \in Clients /\ f.body.view \in Seq(Statuses)
         /\ f.to \in Clients \cup {All}
<1>1. CASE f \in [to : Clients, kind : {"snapshot"}, body : [view : Seq(Statuses)]] BY <1>1
<1>2. CASE f \in [to : Clients, kind : {"pong"}, body : {Nothing}]
  <2>1. f.kind = "pong" /\ f.to \in Clients BY <1>2
  <2> QED BY <2>1
<1>3. CASE f \in [to : {All}, kind : {"tick"}, body : {Nothing}]
  <2>1. f.kind = "tick" /\ f.to = All BY <1>3
  <2> QED BY <2>1
<1>4. CASE f \in [to : {All}, kind : {"triggered", "updated"},
                  body : [rec : DOMAIN recs, status : Statuses]]
  <2>1. /\ f.kind \in {"triggered", "updated"} /\ f.to = All
        /\ f.body \in [rec : DOMAIN recs, status : Statuses]
    BY <1>4
  <2>2. f.kind # "snapshot" BY <2>1
  <2> QED BY <2>1, <2>2
<1> QED BY <1>1, <1>2, <1>3, <1>4 DEF Frames

\* With more recommendations there are more frames.
LEMMA FramesGrow ==
  ASSUME DOMAIN recs \subseteq DOMAIN recs'
  PROVE  Frames \subseteq Frames' /\ Seq(Frames) \subseteq Seq(Frames')
<1>1. Frames \subseteq Frames' BY DEF Frames
<1>2. Seq(Frames) \subseteq Seq(Frames')
  <2> SUFFICES ASSUME NEW s \in Seq(Frames) PROVE s \in Seq(Frames') OBVIOUS
  <2>1. \A k \in 1..Len(s) : s[k] \in Frames' BY <1>1
  <2>2. s \in [1..Len(s) -> Frames'] BY <2>1
  <2> QED BY <2>2, SeqDef
<1> QED BY <1>1, <1>2

\* A frame that arrives leaves a view.
LEMMA AppliedType ==
  ASSUME EngineTypeOK, NEW view \in Seq(Statuses \cup {Nothing}), NEW f \in Frames
  PROVE  Applied(view, f) \in Seq(Statuses \cup {Nothing})
<1> DEFINE T == Statuses \cup {Nothing}
<1>1. CASE f.kind = "snapshot"
  <2>1. Applied(view, f) = f.body.view BY <1>1 DEF Applied
  <2>2. f.body.view \in Seq(Statuses) BY <1>1, FramesKinds
  <2>3. \A k \in 1..Len(f.body.view) : f.body.view[k] \in T BY <2>2
  <2>4. f.body.view \in [1..Len(f.body.view) -> T] BY <2>2, <2>3
  <2> QED BY <2>1, <2>2, <2>4, SeqDef
<1>2. CASE f.kind \in {"triggered", "updated"}
  <2>1. Applied(view, f) = Put(view, f.body.rec, f.body.status) BY <1>2 DEF Applied
  <2>2. f.body.rec \in Nat \ {0} /\ f.body.status \in T
    BY <1>2, FramesKinds DEF EngineTypeOK
  <2>3. Nothing \in T /\ view \in Seq(T) OBVIOUS
  <2> HIDE DEF T
  <2>4. Put(view, f.body.rec, f.body.status) \in Seq(T) BY <2>2, <2>3, PutType
  <2> QED BY <2>1, <2>4 DEF T
<1>3. CASE f.kind \notin {"snapshot", "triggered", "updated"} BY <1>3 DEF Applied
<1> QED BY <1>1, <1>2, <1>3

\* What the types say of the stream.
LEMMA StreamFacts ==
  ASSUME LiveTypeOK
  PROVE  /\ outbox \in Seq(Frames) /\ client \in [Clients -> ClientType]
         /\ recs \in Seq(Statuses) /\ snapshot \in [Clients -> Seq(Statuses)]
         /\ conn \in [Clients -> {"out", "accepting", "in", "pruned", "gone"}]
         /\ writing.to \subseteq Clients
         /\ writing # Idle => writing.to # {} /\ writing.frame \in Frames
                              /\ writing \in [frame : Frames, to : SUBSET Clients]
         /\ writing.to # {} => writing # Idle
         /\ OutboxLimit \in Nat \ {0} /\ MaxPings \in Nat /\ All \notin Clients
<1>1. Idle.to = {} BY DEF Idle
<1>6. writing = Idle \/ writing.to \in (SUBSET Clients) \ {{}} BY DEF LiveTypeOK, StreamTypeOK
<1>2. /\ writing = Idle \/ writing \in [frame : Frames, to : SUBSET Clients]
      /\ outbox \in Seq(Frames) /\ client \in [Clients -> ClientType]
      /\ recs \in Seq(Statuses) /\ snapshot \in [Clients -> Seq(Statuses)]
      /\ conn \in [Clients -> {"out", "accepting", "in", "pruned", "gone"}]
  BY DEF LiveTypeOK, StreamTypeOK, EngineTypeOK, ClientType
<1>3. writing # Idle => writing.frame \in Frames BY <1>2
<1>4. /\ writing.to \subseteq Clients /\ (writing.to # {} => writing # Idle)
      /\ writing # Idle => writing.to # {}
  <2> HIDE DEF Idle
  <2>1. CASE writing = Idle BY <1>1, <2>1
  <2>2. CASE writing # Idle BY <1>6, <2>2
  <2> QED BY <2>1, <2>2
<1>5. OutboxLimit \in Nat \ {0} /\ MaxPings \in Nat /\ All \notin Clients
  BY StreamAssumption DEF StreamAssumption
<1> QED BY <1>2, <1>3, <1>4, <1>5

\* Those that are not subscribed were not before, and are not marked.
Uninvolved(outdated) ==
  \A c \in Clients : conn'[c] \in {"out", "accepting", "gone"} =>
                       c \notin outdated /\ conn[c] = conn'[c]

\* The types after frames are queued.
LEMMA EnqueueType ==
  ASSUME LiveTypeOK, EngineTypeOK', DOMAIN recs \subseteq DOMAIN recs',
         NEW frames \in Seq(Frames'), NEW outdated,
         Enqueue(frames, outdated), UNCHANGED writing, pings' \in 0..MaxPings,
         conn' \in [Clients -> {"out", "accepting", "in", "pruned", "gone"}],
         snapshot' \in [Clients -> Seq(Statuses)],
         Uninvolved(outdated)
  PROVE  LiveTypeOK'
<1>1. outbox \in Seq(Frames') /\ client \in [Clients -> ClientType]
  BY StreamFacts, FramesGrow
<1>2. /\ outbox' \in Seq(Frames') /\ Len(outbox') <= OutboxLimit
      /\ client' \in [Clients -> ClientType]
      /\ \A c \in Clients : conn'[c] # "in" /\ c \notin outdated => client'[c] = client[c]
  BY <1>1, Enqueued
<1>3. \A c \in Clients : conn'[c] \in {"out", "accepting", "gone"} => client'[c] = NewClient
  BY <1>2 DEF LiveTypeOK, StreamTypeOK, Uninvolved
<1>4. writing' = Idle \/ writing' \in [frame : Frames', to : SUBSET Clients]
  BY FramesGrow DEF LiveTypeOK
<1>5. writing' = Idle \/ writing'.to \in (SUBSET Clients) \ {{}} BY DEF LiveTypeOK, StreamTypeOK
<1>6. StreamTypeOK' BY <1>2, <1>3, <1>5 DEF StreamTypeOK, Idle
<1> QED BY <1>2, <1>4, <1>6 DEF LiveTypeOK, ClientType, Idle
-------------------------------------------------------------------------------
(* What the frames of a route tell.                                        *)

\* Sequences of at most one put together.
LEMMA Joined ==
  ASSUME NEW a, NEW b
  PROVE  <<>> \o <<>> = <<>> /\ <<a>> \o <<>> = <<a>> /\ <<>> \o <<b>> = <<b>>
         /\ <<a>> \o <<b>> \in Seq({a, b}) /\ DOMAIN (<<a>> \o <<b>>) = 1..2
         /\ (<<a>> \o <<b>>)[1] = a /\ (<<a>> \o <<b>>)[2] = b
<1> DEFINE S == {a, b}
<1>1. <<>> \in Seq(S) /\ <<a>> \in Seq(S) /\ <<b>> \in Seq(S) OBVIOUS
<1>2. /\ <<a>> \o <<b>> \in Seq(S) /\ DOMAIN (<<a>> \o <<b>>) = 1..2
      /\ (<<a>> \o <<b>>)[1] = a /\ (<<a>> \o <<b>>)[2] = b
  BY <1>1
<1> HIDE DEF S
<1>4. <<>> \o <<>> = <<>> BY <1>1, ConcatEmptySeq
<1>5. <<a>> \o <<>> = <<a>> BY <1>1, ConcatEmptySeq
<1>6. <<>> \o <<b>> = <<b>> BY <1>1, ConcatEmptySeq
<1> QED BY <1>2, <1>4, <1>5, <1>6 DEF S

\* The frames of a tick and of a decision are frames, for all subscribers, and the
\* last one about a recommendation tells what became of it.
LEMMA TickNews ==
  ASSUME EngineTypeOK, OneOpen, NEW t, NEW triggered \in BOOLEAN, Ingest(t, triggered)
  PROVE  /\ TickFrames \in Seq(Frames') /\ News(TickFrames, recs, recs')
         /\ \A j \in DOMAIN TickFrames : TickFrames[j].to = All /\ TickFrames[j].kind # "snapshot"
<1> DEFINE n == Len(recs')
           X == {i \in DOMAIN recs : recs[i] = "APPROVED"}
           raised == IF n > Len(recs) THEN << n >> ELSE <<>>
           changed == raised \o InOrder(X)
           tick == Frame(All, "tick", Nothing)
           fr == <<tick>> \o [j \in DOMAIN changed |-> Update(changed[j])]
<1>0. TickFrames = fr BY DEF TickFrames
<1>a. recs' \in Seq(Statuses) BY IngestRecs
<1>b. n \in Nat /\ \A i \in DOMAIN recs' : recs'[i] \in Statuses BY <1>a
<1>1. /\ recs \in Seq(Statuses) /\ Len(recs) \in Nat
      /\ DOMAIN recs = 1..Len(recs) /\ DOMAIN recs' = 1..n
      /\ \A i \in DOMAIN recs :
           i \in DOMAIN recs' /\ recs'[i] = IF recs[i] = "APPROVED" THEN "EXECUTED" ELSE recs[i]
  BY <1>a, IngestRecs DEF EngineTypeOK
<1>2. n = Len(recs) \/ n = Len(recs) + 1 BY IngestRecs
<1>3. \A i \in DOMAIN recs' : i \in DOMAIN recs \/ (n = Len(recs) + 1 /\ i = n)
  <2> HIDE DEF n
  <2> SUFFICES ASSUME NEW i \in DOMAIN recs', i \notin DOMAIN recs
               PROVE  n = Len(recs) + 1 /\ i = n
    OBVIOUS
  <2>1. i \in 1..n /\ i \notin 1..Len(recs) /\ Len(recs) \in Nat BY <1>1
  <2> QED BY <2>1, <1>2
<1>4. changed \in Seq(DOMAIN recs') /\ \A i \in DOMAIN recs' :
        \/ i \in DOMAIN recs /\ recs'[i] = recs[i] /\ \A j \in DOMAIN changed : changed[j] # i
        \/ \E j \in DOMAIN changed :
             changed[j] = i /\ \A m \in DOMAIN changed : m > j => changed[m] # i
  <2>1. CASE X = {}
    <3>1. InOrder(X) = <<>> BY <2>1, InOrderEmpty
    <3>2. \A i \in DOMAIN recs : recs'[i] = recs[i] BY <1>1, <2>1
    <3>3. CASE n = Len(recs)
      <4>1. changed = <<>> BY <3>1, <3>3, <1>1
      <4> HIDE DEF changed
      <4> QED BY <4>1, <3>2, <3>3, <1>1
    <3>4. CASE n = Len(recs) + 1
      <4>a. raised = << n >> BY <3>4, <1>1
      <4>1. changed = << n >> BY <4>a, <3>1, Joined
      <4> HIDE DEF changed
      <4>2. DOMAIN changed = {1} /\ changed[1] = n BY <4>1
      <4>3. n \in DOMAIN recs' /\ n \notin DOMAIN recs BY <1>1, <3>4
      <4>4. changed \in Seq(DOMAIN recs') BY <4>1, <4>3
      <4> HIDE DEF n
      <4> QED BY <4>2, <4>3, <4>4, <3>2, <1>3
    <3> QED BY <1>2, <3>3, <3>4
  <2>2. CASE X # {}
    <3>1. PICK x \in DOMAIN recs : recs[x] = "APPROVED" BY <2>2
    <3>2. X = {x} BY <3>1 DEF OneOpen
    <3>3. InOrder(X) = <<x>> BY <3>2, InOrderOne
    <3>4. \A i \in DOMAIN recs : i # x => recs'[i] = recs[i] BY <1>1, <3>2
    <3>5. CASE n = Len(recs)
      <4>a. raised = <<>> BY <3>5, <1>1
      <4>1. changed = <<x>> BY <4>a, <3>3, Joined
      <4> HIDE DEF changed
      <4>2. DOMAIN changed = {1} /\ changed[1] = x BY <4>1
      <4>3. x \in DOMAIN recs' BY <1>1
      <4>4. changed \in Seq(DOMAIN recs') BY <4>1, <4>3
      <4> QED BY <4>2, <4>3, <4>4, <3>4, <3>5, <1>1
    <3>6. CASE n = Len(recs) + 1
      <4>a. raised = << n >> BY <3>6, <1>1
      <4>1. changed = << n >> \o <<x>> BY <4>a, <3>3
      <4> HIDE DEF changed
      <4>2. DOMAIN changed = 1..2 /\ changed[1] = n /\ changed[2] = x BY <4>1, Joined
      <4>3. n \in DOMAIN recs' /\ n \notin DOMAIN recs /\ x \in DOMAIN recs' BY <1>1, <3>6
      <4>4. changed \in Seq(DOMAIN recs') BY <4>1, <4>3
      <4>5. x # n BY <4>3
      <4> HIDE DEF n
      <4>6. ASSUME NEW i \in DOMAIN recs', i # x, i # n
            PROVE  /\ i \in DOMAIN recs /\ recs'[i] = recs[i]
                    /\ \A j \in DOMAIN changed : changed[j] # i
        <5>1. i \in DOMAIN recs BY <4>6, <1>3
        <5>2. \A j \in 1..2 : j = 1 \/ j = 2 OBVIOUS
        <5> QED BY <5>1, <5>2, <4>2, <4>6, <3>4
      <4>7. \E j \in DOMAIN changed :
              changed[j] = n /\ \A m \in DOMAIN changed : m > j => changed[m] # n
        <5>1. 1 \in DOMAIN changed /\ \A m \in DOMAIN changed : m > 1 => m = 2 BY <4>2
        <5> QED BY <5>1, <4>2, <4>5
      <4>8. \E j \in DOMAIN changed :
              changed[j] = x /\ \A m \in DOMAIN changed : m > j => changed[m] # x
        <5>1. 2 \in DOMAIN changed /\ \A m \in DOMAIN changed : ~(m > 2) BY <4>2
        <5> QED BY <5>1, <4>2
      <4> QED BY <4>4, <4>6, <4>7, <4>8
    <3> QED BY <1>2, <3>5, <3>6
  <2> QED BY <2>1, <2>2
<1> HIDE DEF n, X, raised, changed
<1>5. \A i \in DOMAIN recs' : Update(i) \in Frames' /\ About(Update(i), i)
          /\ Update(i).body.status = recs'[i] /\ Update(i).to = All /\ Update(i).kind # "snapshot"
          /\ \A k : About(Update(i), k) => k = i
  <2> SUFFICES ASSUME NEW i \in DOMAIN recs'
               PROVE  Update(i) \in Frames' /\ About(Update(i), i)
                      /\ Update(i).body.status = recs'[i] /\ Update(i).to = All
                      /\ Update(i).kind # "snapshot" /\ \A k : About(Update(i), k) => k = i
    OBVIOUS
  <2>1. recs'[i] \in Statuses BY <1>b
  <2> QED BY <2>1 DEF Update, Frame, Frames, About
<1>6. tick \in Frames' /\ tick.to = All /\ tick.kind # "snapshot" /\ \A i : ~About(tick, i)
  BY DEF Frame, Frames, About
<1> HIDE DEF tick
<1> DEFINE ups == [j \in DOMAIN changed |-> Update(changed[j])]
           L == Len(changed)
<1>7. L \in Nat /\ DOMAIN changed = 1..L /\ \A j \in 1..L : changed[j] \in DOMAIN recs' BY <1>4
<1>8. ups \in Seq(Frames') /\ Len(ups) = L
  <2>1. ups \in [1..L -> Frames'] BY <1>5, <1>7
  <2> QED BY <2>1, <1>7, SeqDef
<1>9. /\ fr \in Seq(Frames') /\ DOMAIN fr = 1..(L + 1) /\ fr[1] = tick
      /\ \A j \in 1..L : fr[j + 1] = Update(changed[j])
  <2> HIDE DEF L
  <2>1. \A j \in 1..L : ups[j] = Update(changed[j]) BY <1>7
  <2> HIDE DEF ups
  <2>2. fr = <<tick>> \o ups BY DEF ups
  <2>3. <<tick>> \in Seq(Frames') /\ Len(<<tick>>) = 1 BY <1>6
  <2>4. fr \in Seq(Frames') /\ Len(fr) = L + 1 /\ fr[1] = tick BY <2>2, <2>3, <1>7, <1>8
  <2>5. \A j \in 1..L : fr[j + 1] = ups[j] BY <2>2, <2>3, <1>7, <1>8
  <2> HIDE DEF fr
  <2> QED BY <2>1, <2>4, <2>5, <1>7
<1> HIDE DEF fr, ups, L
<1>10. \A j \in DOMAIN fr : j = 1 \/ (j - 1 \in 1..L /\ fr[j] = Update(changed[j - 1]))
  <2> SUFFICES ASSUME NEW j \in DOMAIN fr, j # 1
               PROVE  j - 1 \in 1..L /\ fr[j] = Update(changed[j - 1])
    OBVIOUS
  <2>1. j \in 1..(L + 1) BY <1>9
  <2>2. j - 1 \in 1..L /\ (j - 1) + 1 = j BY <2>1, <1>7
  <2> QED BY <2>2, <1>9
<1>11. \A j \in DOMAIN fr : fr[j].to = All /\ fr[j].kind # "snapshot"
  BY <1>5, <1>6, <1>7, <1>9, <1>10
<1>12. ASSUME NEW i \in DOMAIN recs'
       PROVE  \/ /\ i \in DOMAIN recs /\ recs'[i] = recs[i]
                 /\ \A j \in DOMAIN fr : ~About(fr[j], i)
              \/ \E j \in DOMAIN fr :
                   /\ About(fr[j], i) /\ fr[j].body.status = recs'[i]
                   /\ \A m \in DOMAIN fr : m > j => ~About(fr[m], i)
  <2>1. CASE i \in DOMAIN recs /\ recs'[i] = recs[i] /\ \A j \in DOMAIN changed : changed[j] # i
    <3>1. \A j \in DOMAIN fr : ~About(fr[j], i)
      <4> SUFFICES ASSUME NEW j \in DOMAIN fr PROVE ~About(fr[j], i) OBVIOUS
      <4>1. CASE j = 1 BY <4>1, <1>6, <1>9
      <4>2. CASE j - 1 \in 1..L /\ fr[j] = Update(changed[j - 1])
        <5>1. changed[j - 1] # i /\ changed[j - 1] \in DOMAIN recs' BY <4>2, <2>1, <1>7
        <5> QED BY <5>1, <4>2, <1>5
      <4> QED BY <4>1, <4>2, <1>10
    <3> QED BY <2>1, <3>1
  <2>2. CASE \E j \in DOMAIN changed :
               changed[j] = i /\ \A m \in DOMAIN changed : m > j => changed[m] # i
    <3>1. PICK j \in DOMAIN changed :
               changed[j] = i /\ \A m \in DOMAIN changed : m > j => changed[m] # i
      BY <2>2
    <3>2. j \in 1..L /\ j + 1 \in DOMAIN fr /\ fr[j + 1] = Update(i) BY <3>1, <1>7, <1>9
    <3>3. ASSUME NEW m \in DOMAIN fr, m > j + 1 PROVE ~About(fr[m], i)
      <4>1. m # 1 BY <3>2, <3>3, <1>7, <1>9
      <4>2. m - 1 \in 1..L /\ fr[m] = Update(changed[m - 1]) BY <4>1, <1>10
      <4>3. m - 1 > j BY <3>2, <3>3, <1>7, <1>9
      <4>4. changed[m - 1] # i /\ changed[m - 1] \in DOMAIN recs' BY <4>2, <4>3, <3>1, <1>7
      <4> QED BY <4>2, <4>4, <1>5
    <3> QED BY <3>2, <3>3, <1>5
  <2> QED BY <2>1, <2>2, <1>4
<1>13. DOMAIN recs \subseteq DOMAIN recs' BY <1>1
<1>14. News(fr, recs, recs') BY <1>12, <1>13 DEF News
<1> QED BY <1>0, <1>9, <1>11, <1>14 DEF fr

\* The frame of a decision tells what became of the recommendation.
LEMMA DecisionNews ==
  ASSUME EngineTypeOK, NEW i \in DOMAIN recs, NEW status \in {"APPROVED", "REJECTED"},
         Decide(i, status)
  PROVE  /\ <<Update(i)>> \in Seq(Frames') /\ News(<<Update(i)>>, recs, recs')
         /\ \A j \in DOMAIN <<Update(i)>> :
              <<Update(i)>>[j].to = All /\ <<Update(i)>>[j].kind # "snapshot"
<1>1. /\ recs' = [recs EXCEPT ![i] = status] /\ DOMAIN recs' = DOMAIN recs
      /\ recs' \in Seq(Statuses)
  BY DecideType DEF Decide, EngineTypeOK
<1>2. /\ recs'[i] = status /\ recs'[i] \in Statuses
      /\ \A j \in DOMAIN recs : j # i => recs'[j] = recs[j]
  BY <1>1 DEF Statuses
<1>3. /\ Update(i).kind = "updated" /\ Update(i).to = All /\ Update(i) \in Frames'
      /\ Update(i).body.rec = i /\ Update(i).body.status = recs'[i]
  BY <1>1, <1>2 DEF Update, Frame, Frames
<1> DEFINE fr == <<Update(i)>>
<1>4. DOMAIN fr = {1} /\ fr[1] = Update(i) /\ fr \in Seq(Frames') BY <1>3
<1> HIDE DEF fr
<1>5. About(fr[1], i) /\ \A j : About(fr[1], j) => j = i BY <1>3, <1>4 DEF About
<1>6. News(fr, recs, recs') BY <1>1, <1>2, <1>3, <1>4, <1>5 DEF News
<1>7. \A j \in DOMAIN fr : fr[j].to = All /\ fr[j].kind # "snapshot" BY <1>3, <1>4
<1> QED BY <1>4, <1>6, <1>7 DEF fr
-------------------------------------------------------------------------------
(* The steps of the live cockpit.                                          *)

\* What every state of the live cockpit satisfies.
LiveInv == LiveTypeOK /\ OneOpen /\ ViewInv

\* Nobody is connected yet.
LEMMA LiveStart == LiveInit => LiveInv
<1> SUFFICES ASSUME LiveInit PROVE LiveInv OBVIOUS
<1> USE CockpitAssumption, StreamAssumption DEF CockpitAssumption, StreamAssumption
<1>1. /\ window = <<>> /\ recs = <<>> /\ pending = 0 /\ cooldown = 0 /\ decided = 0
      /\ conn = [c \in Clients |-> "out"] /\ snapshot = [c \in Clients |-> <<>>]
      /\ outbox = <<>> /\ writing = Idle /\ pings = 0
      /\ client = [c \in Clients |-> NewClient]
  BY DEF LiveInit, EngineInit, StreamInit
<1>2. \A S : <<>> \in Seq(S) /\ Len(<<>>) = 0 /\ DOMAIN <<>> = {} OBVIOUS
<1>3. EngineTypeOK BY <1>1, <1>2 DEF EngineTypeOK
<1>4. StreamTypeOK BY <1>1, <1>2 DEF StreamTypeOK
<1>5. NewClient \in ClientType BY <1>2 DEF NewClient, ClientType
<1>6. LiveTypeOK BY <1>1, <1>2, <1>3, <1>4, <1>5 DEF LiveTypeOK, ClientType
<1>7. OneOpen BY <1>1, <1>2 DEF OneOpen
<1>8. ViewInv BY <1>1, <1>2 DEF ViewInv, Untouched, Idle, Connected
<1> QED BY <1>6, <1>7, <1>8 DEF LiveInv

\* A route changes the recommendations and queues the frames that tell of it.
LEMMA PublishStep ==
  ASSUME LiveTypeOK, ViewInv, EngineTypeOK', NEW frames \in Seq(Frames'),
         News(frames, recs, recs'),
         \A j \in DOMAIN frames : frames[j].to = All /\ frames[j].kind # "snapshot",
         Publish(frames)
  PROVE  LiveTypeOK' /\ ViewInv'
<1>1. DOMAIN recs \subseteq DOMAIN recs' BY DEF News
<1>2. Enqueue(frames, {}) /\ UNCHANGED <<conn, snapshot, writing, pings>> BY DEF Publish
<1>3. LiveTypeOK'
  <2>1. pings' \in 0..MaxPings /\ snapshot' \in [Clients -> Seq(Statuses)]
        /\ conn' \in [Clients -> {"out", "accepting", "in", "pruned", "gone"}]
    BY <1>2 DEF LiveTypeOK, StreamTypeOK
  <2>2. UNCHANGED writing /\ Enqueue(frames, {}) BY <1>2
  <2>3. Uninvolved({}) BY <1>2 DEF Uninvolved
  <2> QED BY <1>1, <2>1, <2>2, <2>3, EnqueueType
<1>4. outbox \in Seq(Frames') /\ client \in [Clients -> ClientType] /\ All \notin Clients
  BY <1>1, StreamFacts, FramesGrow
<1>5. \A f \in Frames' : f.kind \in {"triggered", "updated"} => f.to = All
  <2> SUFFICES ASSUME NEW f \in Frames', f.kind \in {"triggered", "updated"} PROVE f.to = All
    OBVIOUS
  <2> QED BY DEF Frames
<1>6. /\ \A k \in DOMAIN outbox' :
           \/ \E j \in DOMAIN outbox : outbox'[k] = outbox[j]
           \/ \E j \in DOMAIN frames : outbox'[k] = frames[j]
      /\ \A c \in Clients :
           /\ client'[c].view = client[c].view
           /\ client[c].lossy => client'[c].lossy
           /\ client[c].raced => client'[c].raced
  BY <1>2, <1>4, Enqueued
<1>7. \A c \in Clients : conn'[c] \in {"out", "accepting"} => Untouched(c)'
  BY <1>2, <1>4, <1>6 DEF ViewInv, Untouched
<1>8. ASSUME NEW c \in Connected', ~client'[c].lossy, ~client'[c].raced
      PROVE  Served(c, client'[c].view, recs', writing', outbox')
  <2>1. c \in Clients /\ c \in Connected /\ conn'[c] = "in" BY <1>2 DEF Connected
  <2>2. Served(c, client[c].view, recs, writing, outbox) BY <1>6, <1>8, <2>1 DEF ViewInv
  <2>3. \A j \in DOMAIN frames : ~Snap(frames[j], c) BY DEF Snap
  <2>4. Served(c, client[c].view, recs', writing, outbox')
    BY <1>2, <1>4, <1>5, <1>8, <2>1, <2>2, <2>3, EnqueueServed
  <2> QED BY <1>2, <1>6, <2>1, <2>4
<1> QED BY <1>2, <1>3, <1>7, <1>8 DEF ViewInv

\* A subscriber's own frame, its snapshot or the answer to a ping, is queued.
LEMMA OwnFrame ==
  ASSUME LiveTypeOK, ViewInv, UNCHANGED engineVars, UNCHANGED writing, NEW d \in Clients,
         NEW f \in Frames, f.to = d, NEW outdated \in SUBSET {d},
         Enqueue(<<f>>, outdated), \A c \in Clients \ {d} : conn'[c] = conn[c]
  PROVE  \A c \in Clients \ {d} :
           /\ conn'[c] \in {"out", "accepting"} => Untouched(c)'
           /\ c \in Connected' =>
                \/ Served(c, client'[c].view, recs', writing', outbox')
                \/ client'[c].lossy \/ client'[c].raced
<1> SUFFICES ASSUME NEW c \in Clients \ {d}
             PROVE  /\ conn'[c] \in {"out", "accepting"} => Untouched(c)'
                    /\ c \in Connected' =>
                         \/ Served(c, client'[c].view, recs', writing', outbox')
                         \/ client'[c].lossy \/ client'[c].raced
  OBVIOUS
<1> DEFINE fr == <<f>>
<1>1. fr \in Seq(Frames) /\ DOMAIN fr = {1} /\ fr[1] = f OBVIOUS
<1>2. Enqueue(fr, outdated) OBVIOUS
<1> HIDE DEF fr
<1>3. outbox \in Seq(Frames) /\ client \in [Clients -> ClientType] /\ All \notin Clients
  BY StreamFacts
<1>4. /\ \A k \in DOMAIN outbox' :
           (\E j \in DOMAIN outbox : outbox'[k] = outbox[j]) \/ outbox'[k] = f
      /\ client'[c].view = client[c].view
      /\ client[c].lossy => client'[c].lossy
      /\ client[c].raced => client'[c].raced
  BY <1>1, <1>2, <1>3, Enqueued
<1>5. recs' = recs BY DEF engineVars
<1>6. conn'[c] \in {"out", "accepting"} => Untouched(c)' BY <1>4 DEF ViewInv, Untouched
<1>7. ASSUME c \in Connected', ~client'[c].lossy, ~client'[c].raced
      PROVE  Served(c, client'[c].view, recs', writing', outbox')
  <2>1. c \in Clients /\ c \in Connected /\ conn'[c] = "in" BY <1>7 DEF Connected
  <2>2. Served(c, client[c].view, recs, writing, outbox) BY <1>4, <1>7, <2>1 DEF ViewInv
  <2>3. \A j \in DOMAIN fr : ~Snap(fr[j], c) BY <1>1 DEF Snap
  <2>4. f.kind \notin {"triggered", "updated"}
    <3>1. f.kind \in {"triggered", "updated"} => f.to = All BY FramesKinds
    <3> QED BY <3>1, <1>3
  <2>5. News(fr, recs, recs) BY <1>1, <2>4 DEF News, About
  <2>6. \A g \in Frames : g.kind \in {"triggered", "updated"} => g.to = All BY FramesKinds
  <2>7. Served(c, client[c].view, recs, writing, outbox')
    BY <1>1, <1>2, <1>3, <1>7, <2>1, <2>2, <2>3, <2>5, <2>6, EnqueueServed
  <2> QED BY <1>4, <1>5, <2>7
<1> QED BY <1>6, <1>7

\* A pong tells nobody of the recommendations.
LEMMA PingStep ==
  ASSUME LiveTypeOK, ViewInv, UNCHANGED engineVars, NEW d \in Clients, Ping(d)
  PROVE  LiveTypeOK' /\ ViewInv'
<1> DEFINE f == Frame(d, "pong", Nothing)
<1>1. /\ conn[d] \in {"in", "pruned"} /\ pings < MaxPings /\ pings' = pings + 1
      /\ UNCHANGED <<conn, snapshot, writing>> /\ Enqueue(<<f>>, {})
  BY DEF Ping
<1>2. f \in Frames /\ f.to = d /\ f.kind = "pong" BY DEF Frame, Frames
<1> HIDE DEF f
<1>3. recs' = recs /\ EngineTypeOK' /\ Frames' = Frames
  BY DEF engineVars, LiveTypeOK, EngineTypeOK, Frames
<1>4. LiveTypeOK'
  <2>1. pings' \in 0..MaxPings /\ snapshot' \in [Clients -> Seq(Statuses)]
        /\ conn' \in [Clients -> {"out", "accepting", "in", "pruned", "gone"}]
    <3>1. pings \in 0..MaxPings /\ MaxPings \in Nat BY StreamFacts DEF LiveTypeOK, StreamTypeOK
    <3>2. pings' \in 0..MaxPings BY <1>1, <3>1
    <3> QED BY <1>1, <3>2, StreamFacts
  <2>2. <<f>> \in Seq(Frames') BY <1>2, <1>3
  <2>3. UNCHANGED writing /\ Enqueue(<<f>>, {}) /\ DOMAIN recs \subseteq DOMAIN recs' BY <1>1, <1>3
  <2>4. Uninvolved({}) BY <1>1 DEF Uninvolved
  <2> QED BY <1>3, <2>1, <2>2, <2>3, <2>4, EnqueueType
<1>5. \A c \in Clients \ {d} :
           /\ conn'[c] \in {"out", "accepting"} => Untouched(c)'
           /\ c \in Connected' =>
                \/ Served(c, client'[c].view, recs', writing', outbox')
                \/ client'[c].lossy \/ client'[c].raced
  BY <1>1, <1>2, OwnFrame
<1>6. ASSUME d \in Connected', ~client'[d].lossy, ~client'[d].raced
      PROVE  Served(d, client'[d].view, recs', writing', outbox')
  <2> DEFINE fr == <<f>>
  <2>1. fr \in Seq(Frames) /\ DOMAIN fr = {1} /\ fr[1] = f /\ Enqueue(fr, {}) BY <1>1, <1>2
  <2> HIDE DEF fr
  <2>2. outbox \in Seq(Frames) /\ client \in [Clients -> ClientType] BY StreamFacts
  <2>3. /\ client'[d].view = client[d].view
        /\ client[d].lossy => client'[d].lossy
        /\ client[d].raced => client'[d].raced
    BY <2>1, <2>2, Enqueued
  <2>4. d \in Connected /\ conn'[d] = "in" BY <1>1, <1>6 DEF Connected
  <2>5. Served(d, client[d].view, recs, writing, outbox) BY <1>6, <2>3, <2>4 DEF ViewInv
  <2>6. \A j \in DOMAIN fr : ~Snap(fr[j], d) BY <1>2, <2>1 DEF Snap
  <2>7. News(fr, recs, recs) BY <1>2, <2>1 DEF News, About
  <2>8. \A g \in Frames : g.kind \in {"triggered", "updated"} => g.to = All BY FramesKinds
  <2>9. Served(d, client[d].view, recs, writing, outbox')
    BY <1>6, <2>1, <2>2, <2>4, <2>5, <2>6, <2>7, <2>8, EnqueueServed
  <2> QED BY <1>1, <1>3, <2>3, <2>9
<1>7. ViewInv' BY <1>1, <1>5, <1>6 DEF ViewInv, Connected
<1> QED BY <1>4, <1>7
\* One more frame at the end of those that wait.
LEMMA OneMore ==
  ASSUME NEW S, NEW s \in Seq(S), NEW t \in Seq(S), Len(t) = 1
  PROVE  /\ Len(s) \in Nat /\ s \o t \in Seq(S) /\ Len(s \o t) = Len(s) + 1
         /\ (s \o t)[Len(s) + 1] = t[1]
<1>1. /\ s \o t \in Seq(S) /\ Len(s \o t) = Len(s) + Len(t)
      /\ \A i \in 1 .. Len(s) + Len(t) :
           (s \o t)[i] = IF i <= Len(s) THEN s[i] ELSE t[i - Len(s)]
  BY ConcatProperties
<1> DEFINE n == Len(s)
           u == s \o t
<1>2. n \in Nat OBVIOUS
<1>3. \A i \in 1 .. n + 1 : u[i] = IF i <= n THEN s[i] ELSE t[i - n] BY <1>1
<1> HIDE DEF n, u
<1>4. n + 1 \in 1 .. n + 1 /\ ~(n + 1 <= n) /\ (n + 1) - n = 1 BY <1>2
<1>5. u[n + 1] = t[1] BY <1>3, <1>4
<1> QED BY <1>1, <1>2, <1>5 DEF n, u

\* The state is read for a snapshot: nothing is sent yet.
LEMMA ReadStep ==
  ASSUME LiveTypeOK, ViewInv, UNCHANGED engineVars, NEW d \in Clients, ReadSnapshot(d, recs)
  PROVE  LiveTypeOK' /\ ViewInv'
<1>1. /\ conn[d] = "out" /\ conn' = [conn EXCEPT ![d] = "accepting"]
      /\ snapshot' = [snapshot EXCEPT ![d] = recs]
      /\ UNCHANGED <<outbox, writing, pings, client>>
  BY DEF ReadSnapshot
<1>2. recs' = recs /\ EngineTypeOK' /\ Frames' = Frames
  BY DEF engineVars, LiveTypeOK, EngineTypeOK, Frames
<1>3. \A c \in Clients : conn'[c] = IF c = d THEN "accepting" ELSE conn[c]
  BY <1>1, StreamFacts
<1>4. LiveTypeOK'
  <2>1. /\ conn' \in [Clients -> {"out", "accepting", "in", "pruned", "gone"}]
        /\ snapshot' \in [Clients -> Seq(Statuses)]
    BY <1>1, StreamFacts
  <2>2. StreamTypeOK' BY <1>1, <1>3, <2>1 DEF LiveTypeOK, StreamTypeOK, Idle
  <2> QED BY <1>1, <1>2, <2>1, <2>2 DEF LiveTypeOK, Idle
<1>5. \A c \in Clients : Untouched(c)' <=> Untouched(c) BY <1>1 DEF Untouched
<1>6. Connected' = Connected BY <1>1, <1>3 DEF Connected
<1>7. ViewInv' BY <1>1, <1>2, <1>3, <1>5, <1>6 DEF ViewInv, Idle
<1> QED BY <1>4, <1>7

\* A subscriber leaves: nothing is owed to it.
LEMMA LeaveStep ==
  ASSUME LiveTypeOK, ViewInv, UNCHANGED engineVars, NEW d \in Clients, Leave(d)
  PROVE  LiveTypeOK' /\ ViewInv'
<1>1. /\ conn' = [conn EXCEPT ![d] = "gone"] /\ snapshot' = [snapshot EXCEPT ![d] = <<>>]
      /\ client' = [client EXCEPT ![d] = NewClient] /\ UNCHANGED <<outbox, writing, pings>>
  BY DEF Leave
<1>2. recs' = recs /\ EngineTypeOK' /\ Frames' = Frames
  BY DEF engineVars, LiveTypeOK, EngineTypeOK, Frames
<1>3. \A c \in Clients : /\ conn'[c] = IF c = d THEN "gone" ELSE conn[c]
                         /\ client'[c] = IF c = d THEN NewClient ELSE client[c]
  BY <1>1, StreamFacts
<1>4. LiveTypeOK'
  <2>1. <<>> \in Seq(Statuses) /\ NewClient \in ClientType BY DEF NewClient, ClientType
  <2>2. /\ conn' \in [Clients -> {"out", "accepting", "in", "pruned", "gone"}]
        /\ snapshot' \in [Clients -> Seq(Statuses)] /\ client' \in [Clients -> ClientType]
    BY <1>1, <2>1, StreamFacts
  <2>3. StreamTypeOK' BY <1>1, <1>3, <2>2 DEF LiveTypeOK, StreamTypeOK, Idle
  <2> QED BY <1>1, <1>2, <2>2, <2>3 DEF LiveTypeOK, ClientType, Idle
<1>5. \A c \in Clients : Untouched(c)' <=> Untouched(c) BY <1>1 DEF Untouched
<1>6. \A c \in Connected' : c \in Connected /\ client'[c] = client[c]
  BY <1>3 DEF Connected
<1>7. ViewInv' BY <1>1, <1>2, <1>3, <1>5, <1>6 DEF ViewInv, Idle
<1> QED BY <1>4, <1>7

\* A subscriber is in: its snapshot is on its way, true unless it was outdated.
LEMMA ConnectStep ==
  ASSUME LiveTypeOK, ViewInv, UNCHANGED engineVars, NEW d \in Clients, Connect(d, recs)
  PROVE  LiveTypeOK' /\ ViewInv'
<1> DEFINE f == Frame(d, "snapshot", [view |-> snapshot[d]])
           outdated == IF snapshot[d] = recs THEN {} ELSE {d}
<1>1. /\ conn[d] = "accepting" /\ conn' = [conn EXCEPT ![d] = "in"]
      /\ snapshot' = [snapshot EXCEPT ![d] = <<>>]
      /\ Enqueue(<<f>>, outdated) /\ UNCHANGED <<writing, pings>>
  BY DEF Connect
<1>2. f \in Frames /\ f.to = d /\ f.kind = "snapshot" /\ f.body.view = snapshot[d]
  BY StreamFacts DEF Frame, Frames
<1>3. outdated \in SUBSET {d} /\ (d \notin outdated => snapshot[d] = recs) OBVIOUS
<1> HIDE DEF f, outdated
<1>4. recs' = recs /\ EngineTypeOK' /\ Frames' = Frames
  BY DEF engineVars, LiveTypeOK, EngineTypeOK, Frames
<1>5. \A c \in Clients : conn'[c] = IF c = d THEN "in" ELSE conn[c] BY <1>1, StreamFacts
<1>6. LiveTypeOK'
  <2>1. <<>> \in Seq(Statuses) OBVIOUS
  <2>2. /\ conn' \in [Clients -> {"out", "accepting", "in", "pruned", "gone"}]
        /\ snapshot' \in [Clients -> Seq(Statuses)]
    BY <1>1, <2>1, StreamFacts
  <2>3. pings' \in 0..MaxPings BY <1>1 DEF LiveTypeOK, StreamTypeOK
  <2>4. UNCHANGED writing /\ <<f>> \in Seq(Frames') /\ DOMAIN recs \subseteq DOMAIN recs'
    BY <1>1, <1>2, <1>4
  <2>5. Uninvolved(outdated) BY <1>3, <1>5 DEF Uninvolved
  <2> QED BY <1>1, <1>4, <2>2, <2>3, <2>4, <2>5, EnqueueType
<1>7. \A c \in Clients \ {d} :
           /\ conn'[c] \in {"out", "accepting"} => Untouched(c)'
           /\ c \in Connected' =>
                \/ Served(c, client'[c].view, recs', writing', outbox')
                \/ client'[c].lossy \/ client'[c].raced
  <2>1. \A c \in Clients \ {d} : conn'[c] = conn[c] BY <1>5
  <2> QED BY <1>1, <1>2, <1>3, <2>1, OwnFrame
<1>8. ASSUME ~client'[d].raced PROVE Served(d, client'[d].view, recs', writing', outbox')
  <2> DEFINE fr == <<f>>
             L == Len(outbox')
             all == outbox \o fr
  <2>1. fr \in Seq(Frames) /\ Len(fr) = 1 /\ fr[1] = f /\ Enqueue(fr, outdated) BY <1>1, <1>2
  <2> HIDE DEF fr
  <2>2. outbox \in Seq(Frames) /\ client \in [Clients -> ClientType]
        /\ recs \in Seq(Statuses) /\ OutboxLimit \in Nat \ {0}
    BY StreamFacts
  <2>3. snapshot[d] = recs
    <3>1. d \notin outdated BY <1>8, <2>1, <2>2, Enqueued
    <3> QED BY <3>1, <1>3
  <2>4. all \in Seq(Frames) /\ Len(all) = Len(outbox) + 1 /\ all[Len(all)] = f
        /\ Len(outbox) \in Nat
    <3>1. /\ Len(outbox) \in Nat /\ all \in Seq(Frames) /\ Len(all) = Len(outbox) + 1
          /\ all[Len(outbox) + 1] = fr[1]
      BY <2>1, <2>2, OneMore
    <3> HIDE DEF all
    <3> QED BY <3>1, <2>1
  <2>5. PICK n \in Nat :
          /\ n <= Len(all) /\ Len(Queue(fr)) = Len(all) - n
          /\ \A k \in 1..Len(Queue(fr)) : Queue(fr)[k] = all[k + n]
          /\ n # 0 => n = Len(all) - OutboxLimit
    BY <2>1, <2>2, QueueHolds
  <2> HIDE DEF all
  <2>6. outbox' = Queue(fr) BY <2>1 DEF Enqueue
  <2>7. L = Len(all) - n /\ L \in Nat \ {0}
    <3>1. L = Len(all) - n BY <2>5, <2>6
    <3> QED BY <3>1, <2>2, <2>4, <2>5
  <2>8. outbox'[L] = f
    <3>1. L \in 1..L /\ L + n = Len(all) BY <2>4, <2>7
    <3> QED BY <3>1, <2>4, <2>5, <2>6
  <2> HIDE DEF L
  <2>9. From(d, writing') = 1 /\ L # 0 BY <1>1, <2>7 DEF ViewInv, Untouched, From
  <2>10. At(writing', outbox', L) = f BY <2>8, <2>9 DEF At
  <2>11. Tells(d, recs, L + 1, recs, writing', outbox')
    <3>1. \A k \in (L + 1)..Len(outbox') : FALSE BY <2>7 DEF L
    <3> QED BY <3>1 DEF Tells
  <2>12. L \in From(d, writing')..Len(outbox') BY <2>7, <2>9 DEF L
  <2>13. Snap(f, d) BY <1>2 DEF Snap
  <2> QED BY <1>2, <1>4, <2>3, <2>10, <2>11, <2>12, <2>13 DEF Served
<1>9. \A c \in Clients : conn'[c] \in {"out", "accepting"} => c # d BY <1>5
<1>10. ViewInv'
  <2>1. writing' = writing BY <1>1
  <2>2. \A c \in Clients : conn'[c] \in {"out", "accepting"} => Untouched(c)' BY <1>7, <1>9
  <2>3. \A c \in Connected' : \/ Served(c, client'[c].view, recs', writing', outbox')
                              \/ client'[c].lossy \/ client'[c].raced
    BY <1>7, <1>8 DEF Connected
  <2> QED BY <2>1, <2>2, <2>3 DEF ViewInv, Idle
<1> QED BY <1>6, <1>10

\* The writer takes a frame: a subscriber that is not sent it misses nothing by that.
LEMMA TakeStep ==
  ASSUME LiveTypeOK, ViewInv, UNCHANGED engineVars, Take
  PROVE  LiveTypeOK' /\ ViewInv'
<1> DEFINE f == Head(outbox)
           to == IF f.to = All THEN Connected ELSE {f.to}
<1>1. /\ writing = Idle /\ outbox # <<>> /\ outbox' = Tail(outbox)
      /\ writing' = IF to = {} THEN Idle ELSE [frame |-> f, to |-> to]
      /\ UNCHANGED <<conn, snapshot, pings, client>>
  BY DEF Take
<1>2. recs' = recs /\ EngineTypeOK' /\ Frames' = Frames
  BY DEF engineVars, LiveTypeOK, EngineTypeOK, Frames
<1>3. /\ outbox \in Seq(Frames) /\ Len(outbox) \in Nat \ {0} /\ f = outbox[1] /\ f \in Frames
      /\ outbox' \in Seq(Frames) /\ Len(outbox') = Len(outbox) - 1
      /\ \A k \in 1..Len(outbox') : outbox'[k] = outbox[k + 1]
  BY <1>1, StreamFacts, HeadTailProperties
<1>4. f.to \in Clients \cup {All} /\ to \subseteq Clients /\ All \notin Clients
  BY <1>3, FramesKinds, StreamFacts DEF Connected
<1>5. Idle.to = {} /\ \A c : From(c, Idle) = 1 BY DEF Idle, From
<1>6. writing'.to = to
  <2> HIDE DEF to, f
  <2> QED BY <1>1, <1>5
<1> HIDE DEF f
<1>7. LiveTypeOK'
  <2>1. to # {} => writing' \in [frame : Frames, to : SUBSET Clients]
    <3> HIDE DEF to
    <3> QED BY <1>1, <1>3, <1>4
  <2>2. to # {} => writing'.to \in (SUBSET Clients) \ {{}} BY <1>4, <1>6
  <2>3. to = {} => writing' = Idle BY <1>1
  <2>4. Len(outbox') <= OutboxLimit
    <3>1. Len(outbox) <= OutboxLimit /\ OutboxLimit \in Nat
      BY StreamFacts DEF LiveTypeOK, StreamTypeOK
    <3> QED BY <3>1, <1>3
  <2> HIDE DEF to
  <2>5. StreamTypeOK' BY <1>1, <2>2, <2>3, <2>4 DEF LiveTypeOK, StreamTypeOK, Idle
  <2> QED BY <1>1, <1>2, <1>3, <2>1, <2>3, <2>5 DEF LiveTypeOK, Idle
<1>8. \A c \in Clients : conn[c] \in {"out", "accepting"} => Untouched(c)'
  <2> SUFFICES ASSUME NEW c \in Clients, conn[c] \in {"out", "accepting"} PROVE Untouched(c)'
    OBVIOUS
  <2>1. \A k \in DOMAIN outbox : outbox[k].to # c BY DEF ViewInv, Untouched
  <2>2. 1 \in DOMAIN outbox /\ DOMAIN outbox' = 1..Len(outbox') BY <1>3
  <2>3. f.to # c BY <1>3, <2>1, <2>2
  <2>4. c \notin to BY <2>3 DEF Connected
  <2>5. \A k \in DOMAIN outbox' : outbox'[k].to # c
    <3> SUFFICES ASSUME NEW k \in 1..Len(outbox') PROVE outbox'[k].to # c BY <2>2
    <3>1. k + 1 \in DOMAIN outbox BY <1>3
    <3> QED BY <3>1, <1>3, <2>1
  <2> QED BY <1>6, <2>4, <2>5 DEF Untouched
<1>9. ASSUME NEW c \in Connected, Served(c, client[c].view, recs, writing, outbox)
      PROVE  Served(c, client[c].view, recs, writing', outbox')
  <2> DEFINE h == [k \in 0..Len(outbox') |-> k + 1]
             b == From(c, writing')
  <2>1. b = (IF c \in to THEN 0 ELSE 1) /\ From(c, writing) = 1 BY <1>1, <1>5, <1>6 DEF From
  <2>2. c \in to => writing'.frame = f
    <3>1. c \in to => writing' = [frame |-> f, to |-> to] BY <1>1
    <3> HIDE DEF to
    <3> QED BY <3>1
  <2>3. c \notin to => Other(f, c)
    <3> SUFFICES ASSUME c \notin to PROVE Other(f, c) OBVIOUS
    <3>1. f.to # All /\ f.to # c OBVIOUS
    <3> QED BY <3>1, <1>3, FramesKinds DEF Other, Snap
  <2> HIDE DEF to
  <2>4. b \in {0, 1} BY <2>1
  <2>5. ASSUME NEW k \in b..Len(outbox')
        PROVE  h[k] \in 1..Len(outbox) /\ At(writing', outbox', k) = At(writing, outbox, h[k])
    <3>1. k \in 0..Len(outbox') /\ h[k] = k + 1 /\ k + 1 \in 1..Len(outbox) /\ k + 1 # 0
      BY <2>4, <1>3
    <3> HIDE DEF h
    <3>2. CASE k = 0
      <4>1. c \in to BY <2>1, <3>2
      <4> QED BY <4>1, <2>2, <3>1, <3>2, <1>3 DEF At
    <3>3. CASE k # 0
      <4>1. k \in 1..Len(outbox') BY <3>1, <3>3
      <4> QED BY <4>1, <3>1, <3>3, <1>3 DEF At
    <3> QED BY <3>2, <3>3
  <2>6. ASSUME NEW k \in b..Len(outbox'), NEW m \in b..Len(outbox'), k < m PROVE h[k] < h[m]
    <3>1. k \in 0..Len(outbox') /\ m \in 0..Len(outbox') BY <2>4, <1>3
    <3> QED BY <3>1, <2>6
  <2>7. ASSUME NEW k \in 1..Len(outbox), ~Other(At(writing, outbox, k), c)
        PROVE  \E m \in b..Len(outbox') : h[m] = k
    <3>1. k - 1 \in 0..Len(outbox') /\ h[k - 1] = k BY <1>3
    <3> HIDE DEF h
    <3>2. k = 1 => c \in to BY <2>3, <2>7, <1>3 DEF At
    <3>3. k - 1 \in b..Len(outbox') BY <3>1, <3>2, <2>1
    <3> QED BY <3>1, <3>3
  <2> HIDE DEF h
  <2>8. Thinned(c, h, writing, outbox, 1, writing', outbox', b)
    <3>1. Len(outbox) \in Nat /\ Len(outbox') \in Nat /\ 1 \in Nat /\ b \in Nat BY <1>3, <2>4
    <3> HIDE DEF b
    <3> QED BY <3>1, <2>5, <2>6, <2>7 DEF Thinned
  <2>9. Thinned(c, h, writing, outbox, From(c, writing), writing', outbox', From(c, writing'))
    BY <2>1, <2>8
  <2> QED BY <1>9, <2>9, ServedThinned
<1>10. writing' # Idle /\ writing'.frame.to # All => writing'.to = {writing'.frame.to}
  <2>1. to = {} => writing' = Idle BY <1>1
  <2>2. to # {} => writing'.frame = f
    <3>1. to # {} => writing' = [frame |-> f, to |-> to] BY <1>1
    <3> HIDE DEF to
    <3> QED BY <3>1
  <2>3. f.to # All => to = {f.to} OBVIOUS
  <2> HIDE DEF to
  <2> QED BY <1>6, <2>1, <2>2, <2>3
<1>11. Connected' = Connected BY <1>1 DEF Connected
<1>12. \A c \in Connected' : \/ Served(c, client'[c].view, recs', writing', outbox')
                             \/ client'[c].lossy \/ client'[c].raced
  BY <1>1, <1>2, <1>9, <1>11 DEF ViewInv
<1>13. ViewInv' BY <1>1, <1>8, <1>10, <1>12 DEF ViewInv, Idle
<1> QED BY <1>7, <1>13
\* What is on its way depends on the writer's hands only for the frame it sends.
LEMMA TellsLater ==
  ASSUME NEW c, NEW view, NEW rs, NEW w1, NEW w2, NEW ob, NEW n \in Nat, Len(ob) \in Nat,
         n = 0 => w1.frame = w2.frame, Tells(c, view, n, rs, w1, ob)
  PROVE  Tells(c, view, n, rs, w2, ob)
<1>1. \A k \in n..Len(ob) : At(w2, ob, k) = At(w1, ob, k) BY DEF At
<1>2. \A k \in n..Len(ob) : \A m \in (k + 1)..Len(ob) : m \in n..Len(ob) OBVIOUS
<1> QED BY <1>1, <1>2 DEF Tells

\* A frame that is no snapshot brings the view closer: what comes after it does the rest.
LEMMA AppliedTells ==
  ASSUME EngineTypeOK, NEW d, NEW view \in Seq(Statuses \cup {Nothing}),
         NEW ob \in Seq(Frames), NEW w, w.frame \in Frames, w.frame.kind # "snapshot",
         Tells(d, view, 0, recs, w, ob)
  PROVE  Tells(d, Applied(view, w.frame), 1, recs, w, ob)
<1> DEFINE f == w.frame
           v == Applied(view, f)
           T == Statuses \cup {Nothing}
           L == Len(ob)
<1>0. L \in Nat /\ DOMAIN recs = 1..Len(recs) /\ Len(recs) \in Nat BY DEF EngineTypeOK
<1>1. At(w, ob, 0) = f BY DEF At
<1>2. \A k \in 1..L : k \in 0..L /\ \A m \in (k + 1)..L : m \in 1..L BY <1>0
<1>3. \A k \in 0..L : k = 0 \/ k \in 1..L BY <1>0
<1>4. /\ DOMAIN view \subseteq DOMAIN recs
      /\ \A k \in 0..L : ~Snap(At(w, ob, k), d)
      /\ \A i \in DOMAIN recs :
           \/ /\ i \in DOMAIN view /\ view[i] = recs[i]
              /\ \A k \in 0..L : ~About(At(w, ob, k), i)
           \/ \E k \in 0..L :
                /\ About(At(w, ob, k), i) /\ At(w, ob, k).body.status = recs[i]
                /\ \A m \in (k + 1)..L : ~About(At(w, ob, m), i)
  BY DEF Tells
<1>5. 0 \in 0..L /\ \A m \in 1..L : m \in (0 + 1)..L BY <1>0
<1>6. f.kind # "snapshot" /\ f \in Frames OBVIOUS
<1> HIDE DEF f, L
<1>7. CASE f.kind \notin {"triggered", "updated"}
  <2>1. v = view BY <1>6, <1>7 DEF Applied
  <2>2. \A i : ~About(f, i) BY <1>7 DEF About
  <2>3. ASSUME NEW i \in DOMAIN recs
        PROVE  \/ /\ i \in DOMAIN view /\ view[i] = recs[i]
                  /\ \A k \in 1..L : ~About(At(w, ob, k), i)
               \/ \E k \in 1..L :
                    /\ About(At(w, ob, k), i) /\ At(w, ob, k).body.status = recs[i]
                    /\ \A m \in (k + 1)..L : ~About(At(w, ob, m), i)
    BY <1>1, <1>2, <1>3, <1>4, <2>2
  <2>4. Tells(d, view, 1, recs, w, ob) BY <1>2, <1>4, <2>3 DEF Tells, L
  <2> QED BY <2>1, <2>4 DEF f
<1>8. CASE f.kind \in {"triggered", "updated"}
  <2> DEFINE i0 == f.body.rec
             st == f.body.status
  <2>1. v = Put(view, i0, st) BY <1>6, <1>8 DEF Applied
  <2>2. i0 \in DOMAIN recs /\ st \in T /\ i0 \in Nat \ {0}
    BY <1>0, <1>6, <1>8, FramesKinds DEF EngineTypeOK
  <2>3. \A i : About(f, i) <=> i = i0 BY <1>8 DEF About
  <2> HIDE DEF i0, st
  <2>4. /\ DOMAIN v = DOMAIN view \cup 1..i0 /\ v[i0] = st
        /\ \A j \in DOMAIN view : j # i0 => v[j] = view[j]
    <3> DEFINE n == IF Len(view) < i0 THEN i0 ELSE Len(view)
    <3>1. Len(view) \in Nat /\ DOMAIN view = 1..Len(view) OBVIOUS
    <3>2. i0 \in 1..n /\ 1..n = 1..Len(view) \cup 1..i0 BY <2>2, <3>1
    <3>3. v = [j \in 1..n |-> IF j = i0 THEN st
                              ELSE IF j \in DOMAIN view THEN view[j] ELSE Nothing]
      BY <2>1 DEF Put
    <3> HIDE DEF v, n
    <3> QED BY <3>1, <3>2, <3>3
  <2> HIDE DEF v
  <2>5. DOMAIN v \subseteq DOMAIN recs /\ i0 \in DOMAIN v
    <3>1. 1..i0 \subseteq DOMAIN recs /\ i0 \in 1..i0 BY <1>0, <2>2
    <3> QED BY <1>4, <2>4, <3>1
  <2>6. ASSUME NEW i \in DOMAIN recs
        PROVE  \/ /\ i \in DOMAIN v /\ v[i] = recs[i]
                  /\ \A k \in 1..L : ~About(At(w, ob, k), i)
               \/ \E k \in 1..L :
                    /\ About(At(w, ob, k), i) /\ At(w, ob, k).body.status = recs[i]
                    /\ \A m \in (k + 1)..L : ~About(At(w, ob, m), i)
    <3>1. CASE /\ i \in DOMAIN view /\ view[i] = recs[i]
               /\ \A k \in 0..L : ~About(At(w, ob, k), i)
      <4>1. i # i0 BY <3>1, <1>1, <1>5, <2>3
      <4>2. i \in DOMAIN v /\ v[i] = recs[i] BY <3>1, <4>1, <2>4
      <4> QED BY <3>1, <4>2, <1>2
    <3>2. CASE \E k \in 0..L :
                 /\ About(At(w, ob, k), i) /\ At(w, ob, k).body.status = recs[i]
                 /\ \A m \in (k + 1)..L : ~About(At(w, ob, m), i)
      <4>1. PICK k \in 0..L :
                 /\ About(At(w, ob, k), i) /\ At(w, ob, k).body.status = recs[i]
                 /\ \A m \in (k + 1)..L : ~About(At(w, ob, m), i)
        BY <3>2
      <4>2. CASE k = 0
        <5>1. i = i0 /\ st = recs[i] BY <4>1, <4>2, <1>1, <2>3 DEF st
        <5>2. \A m \in 1..L : ~About(At(w, ob, m), i) BY <4>1, <4>2, <1>5
        <5> QED BY <5>1, <5>2, <2>4, <2>5
      <4>3. CASE k # 0
        <5>1. k \in 1..L BY <4>3, <1>3
        <5> QED BY <5>1, <4>1
      <4> QED BY <4>2, <4>3
    <3> QED BY <3>1, <3>2, <1>4
  <2>7. \A k \in 1..L : ~Snap(At(w, ob, k), d) BY <1>2, <1>4
  <2> QED BY <2>5, <2>6, <2>7 DEF Tells, L, v, f
<1> QED BY <1>7, <1>8

\* A frame is sent to one subscriber: it is in its view, or the subscriber is pruned.
LEMMA TransmitStep ==
  ASSUME LiveTypeOK, ViewInv, UNCHANGED engineVars, NEW d \in Clients, Transmit(d)
  PROVE  LiveTypeOK' /\ ViewInv'
<1> DEFINE f == writing.frame
           last == writing.to = {d}
<1>1. /\ d \in writing.to /\ UNCHANGED <<snapshot, outbox, pings>>
      /\ writing' = IF last THEN Idle ELSE [writing EXCEPT !.to = writing.to \ {d}]
  BY DEF Transmit
<1>2. \/ /\ conn[d] \in {"in", "pruned"} /\ conn' = conn
         /\ client' = [client EXCEPT ![d].view = Applied(client[d].view, f)]
      \/ /\ conn' = [conn EXCEPT ![d] = IF conn[d] = "in" THEN "pruned" ELSE conn[d]]
         /\ client' = client
  BY DEF Transmit
<1>3. recs' = recs /\ EngineTypeOK' /\ Frames' = Frames
  BY DEF engineVars, LiveTypeOK, EngineTypeOK, Frames
<1>4. /\ writing # Idle /\ f \in Frames /\ writing \in [frame : Frames, to : SUBSET Clients]
      /\ outbox \in Seq(Frames) /\ Len(outbox) \in Nat /\ client \in [Clients -> ClientType]
      /\ conn \in [Clients -> {"out", "accepting", "in", "pruned", "gone"}]
  BY <1>1, StreamFacts
<1>5. f.to # All => writing.to = {f.to} BY <1>4 DEF ViewInv
<1>6. Idle.to = {} BY DEF Idle
<1>7. /\ writing'.to = writing.to \ {d}
      /\ last => writing' = Idle
      /\ ~last => writing'.frame = f /\ writing' \in [frame : Frames, to : SUBSET Clients]
  <2>1. CASE last
    <3> HIDE DEF Idle
    <3> QED BY <1>1, <1>6, <2>1
  <2>2. CASE ~last
    <3>1. writing' = [writing EXCEPT !.to = writing.to \ {d}] BY <1>1, <2>2
    <3> QED BY <1>4, <2>2, <3>1
  <2> QED BY <2>1, <2>2
<1>8. ~last => writing.to \ {d} # {} BY <1>1
<1>9. \A c \in Clients : conn'[c] = conn[c] \/ (conn[c] = "in" /\ conn'[c] = "pruned")
  BY <1>2, <1>4
<1>10. \A c \in Clients : /\ c # d => client'[c] = client[c]
                          /\ conn[c] \in {"out", "accepting", "gone"} => client'[c] = client[c]
  BY <1>2, <1>4
<1> HIDE DEF f, last
<1>11. LiveTypeOK'
  <2>1. /\ conn' \in [Clients -> {"out", "accepting", "in", "pruned", "gone"}]
        /\ client' \in [Clients -> ClientType]
    <3>1. client[d] \in ClientType BY <1>4
    <3>2. client[d].view \in Seq(Statuses \cup {Nothing}) BY <3>1 DEF ClientType
    <3>3. Applied(client[d].view, f) \in Seq(Statuses \cup {Nothing})
      BY <3>2, <1>4, AppliedType DEF LiveTypeOK
    <3>4. [client[d] EXCEPT !.view = Applied(client[d].view, f)] \in ClientType
      BY <3>1, <3>3 DEF ClientType
    <3> QED BY <1>2, <1>4, <3>4
  <2>2. writing' = Idle \/ writing'.to \in (SUBSET Clients) \ {{}} BY <1>7, <1>8
  <2>3. \A c \in Clients : conn'[c] \in {"out", "accepting", "gone"} => client'[c] = NewClient
    BY <1>9, <1>10 DEF LiveTypeOK, StreamTypeOK
  <2>4. StreamTypeOK' BY <1>1, <2>1, <2>2, <2>3 DEF LiveTypeOK, StreamTypeOK, Idle
  <2> QED BY <1>1, <1>3, <1>7, <2>1, <2>4 DEF LiveTypeOK, ClientType, Idle
<1>12. \A c \in Clients : conn'[c] \in {"out", "accepting"} => Untouched(c)'
  BY <1>1, <1>7, <1>9 DEF ViewInv, Untouched
<1>13. writing' # Idle /\ writing'.frame.to # All => writing'.to = {writing'.frame.to}
  BY <1>1, <1>5, <1>7, <1>8
<1>14. ASSUME NEW c \in Clients \ {d}, Served(c, client[c].view, recs, writing, outbox)
       PROVE  Served(c, client[c].view, recs, writing', outbox)
  <2>1. From(c, writing') = From(c, writing) BY <1>7 DEF From
  <2>2. From(c, writing) = 0 => writing'.frame = writing.frame
    <3>1. From(c, writing) = 0 => c \in writing.to BY DEF From
    <3>2. c \in writing.to => ~last BY DEF last
    <3> QED BY <3>1, <3>2, <1>7 DEF f
  <2>3. From(c, writing) \in Nat BY DEF From
  <2>4. CASE Tells(c, client[c].view, From(c, writing), recs, writing, outbox)
    <3>1. Tells(c, client[c].view, From(c, writing), recs, writing', outbox)
      BY <2>2, <2>3, <2>4, <1>4, TellsLater
    <3> QED BY <3>1, <2>1 DEF Served
  <2>5. CASE \E k \in From(c, writing)..Len(outbox) :
               /\ Snap(At(writing, outbox, k), c)
               /\ Tells(c, At(writing, outbox, k).body.view, k + 1, recs, writing, outbox)
    <3>1. PICK k \in From(c, writing)..Len(outbox) :
               /\ Snap(At(writing, outbox, k), c)
               /\ Tells(c, At(writing, outbox, k).body.view, k + 1, recs, writing, outbox)
      BY <2>5
    <3>2. k + 1 \in Nat /\ k + 1 # 0 /\ (k = 0 => From(c, writing) = 0) BY <2>3
    <3>3. At(writing', outbox, k) = At(writing, outbox, k) BY <2>2, <3>2 DEF At
    <3>4. Tells(c, At(writing, outbox, k).body.view, k + 1, recs, writing', outbox)
      BY <3>1, <3>2, <1>4, TellsLater
    <3> QED BY <3>1, <3>3, <3>4, <2>1 DEF Served
  <2> QED BY <2>4, <2>5, <1>14 DEF Served
<1>15. ASSUME d \in Connected', Served(d, client[d].view, recs, writing, outbox)
       PROVE  Served(d, client'[d].view, recs, writing', outbox)
  <2>1. conn'[d] = "in" BY <1>15 DEF Connected
  <2>2. client' = [client EXCEPT ![d].view = Applied(client[d].view, f)]
    <3>1. ~(conn' = [conn EXCEPT ![d] = IF conn[d] = "in" THEN "pruned" ELSE conn[d]])
      BY <2>1, <1>4
    <3> QED BY <3>1, <1>2
  <2>3. client'[d].view = Applied(client[d].view, f)
        /\ client[d].view \in Seq(Statuses \cup {Nothing})
    <3>1. client[d] \in ClientType BY <1>4
    <3>2. client'[d] = [client[d] EXCEPT !.view = Applied(client[d].view, f)] BY <2>2, <1>4
    <3> QED BY <3>1, <3>2 DEF ClientType
  <2>4. From(d, writing) = 0 /\ From(d, writing') = 1 BY <1>1, <1>7 DEF From
  <2>5. At(writing, outbox, 0) = f BY DEF At, f
  <2>6. f.kind = "snapshot" => Snap(f, d)
    <3>1. f.kind = "snapshot" => f.to \in Clients BY <1>4, FramesKinds
    <3>2. All \notin Clients BY StreamFacts
    <3> QED BY <3>1, <3>2, <1>1, <1>5 DEF Snap
  <2>7. CASE Tells(d, client[d].view, 0, recs, writing, outbox)
    <3>1. ~Snap(f, d)
      <4>1. 0 \in 0..Len(outbox) BY <1>4
      <4> QED BY <4>1, <2>5, <2>7 DEF Tells
    <3>2. Tells(d, Applied(client[d].view, f), 1, recs, writing, outbox)
      BY <3>1, <2>3, <2>6, <2>7, <1>4, AppliedTells DEF f, LiveTypeOK
    <3>3. Tells(d, Applied(client[d].view, f), 1, recs, writing', outbox)
      BY <3>2, <1>4, TellsLater
    <3> QED BY <3>3, <2>3, <2>4 DEF Served
  <2>8. CASE \E k \in 0..Len(outbox) :
               /\ Snap(At(writing, outbox, k), d)
               /\ Tells(d, At(writing, outbox, k).body.view, k + 1, recs, writing, outbox)
    <3>1. PICK k \in 0..Len(outbox) :
               /\ Snap(At(writing, outbox, k), d)
               /\ Tells(d, At(writing, outbox, k).body.view, k + 1, recs, writing, outbox)
      BY <2>8
    <3>2. k + 1 \in Nat /\ k + 1 # 0 OBVIOUS
    <3>3. Tells(d, At(writing, outbox, k).body.view, k + 1, recs, writing', outbox)
      BY <3>1, <3>2, <1>4, TellsLater
    <3>4. CASE k = 0
      <4>1. Applied(client[d].view, f) = f.body.view
        BY <3>1, <3>4, <2>5 DEF Snap, Applied
      <4>2. Tells(d, f.body.view, 1, recs, writing', outbox) BY <3>3, <3>4, <2>5
      <4> QED BY <4>1, <4>2, <2>3, <2>4 DEF Served
    <3>5. CASE k # 0
      <4>1. k \in 1..Len(outbox) /\ At(writing', outbox, k) = At(writing, outbox, k)
        BY <3>5 DEF At
      <4> QED BY <4>1, <3>1, <3>3, <2>4 DEF Served
    <3> QED BY <3>4, <3>5
  <2> QED BY <1>15, <2>4, <2>7, <2>8 DEF Served
<1>16. \A c \in Connected' :
         c \in Connected /\ client'[c].lossy = client[c].lossy /\ client'[c].raced = client[c].raced
  <2> SUFFICES ASSUME NEW c \in Connected'
               PROVE  /\ c \in Connected /\ client'[c].lossy = client[c].lossy
                      /\ client'[c].raced = client[c].raced
    OBVIOUS
  <2>1. c \in Clients /\ conn'[c] = "in" BY DEF Connected
  <2>2. client[c] \in ClientType BY <2>1, <1>4
  <2>3. c \in Connected BY <1>9, <2>1 DEF Connected
  <2>4. \/ client'[c] = client[c]
        \/ client'[c] = [client[c] EXCEPT !.view = Applied(client[c].view, f)]
    <3>1. CASE client' = client BY <3>1
    <3>2. CASE client' = [client EXCEPT ![d].view = Applied(client[d].view, f)]
      BY <3>2, <1>4, <2>1
    <3> QED BY <3>1, <3>2, <1>2
  <2>5. /\ client'[c].lossy = client[c].lossy /\ client'[c].raced = client[c].raced
    BY <2>2, <2>4 DEF ClientType
  <2> QED BY <2>3, <2>5
<1>17. \A c \in Connected' : \/ Served(c, client'[c].view, recs', writing', outbox')
                             \/ client'[c].lossy \/ client'[c].raced
  <2> SUFFICES ASSUME NEW c \in Connected', ~client'[c].lossy, ~client'[c].raced
               PROVE  Served(c, client'[c].view, recs', writing', outbox')
    OBVIOUS
  <2>1. c \in Clients /\ Served(c, client[c].view, recs, writing, outbox)
    BY <1>16 DEF ViewInv, Connected
  <2>2. CASE c = d BY <2>1, <2>2, <1>1, <1>3, <1>15
  <2>3. CASE c # d BY <2>1, <2>3, <1>1, <1>3, <1>10, <1>14
  <2> QED BY <2>2, <2>3
<1>18. ViewInv' BY <1>12, <1>13, <1>17 DEF ViewInv, Idle
<1> QED BY <1>11, <1>18
\* Every step keeps the invariant.
LEMMA LiveStep == LiveInv /\ [LiveNext]_liveVars => LiveInv'
<1> SUFFICES ASSUME LiveInv, [LiveNext]_liveVars PROVE LiveInv' OBVIOUS
<1>1. LiveTypeOK /\ OneOpen /\ ViewInv /\ EngineTypeOK BY DEF LiveInv, LiveTypeOK
<1>2. CASE \E triggered \in BOOLEAN : StreamTelemetry(triggered)
  <2>1. PICK triggered \in BOOLEAN : StreamTelemetry(triggered) BY <1>2
  <2>2. Ingest(1, triggered) /\ Publish(TickFrames) BY <2>1 DEF StreamTelemetry
  <2>3. EngineTypeOK' /\ OneOpen' BY <1>1, <2>2, IngestType, OpenIngest
  <2>4. /\ TickFrames \in Seq(Frames') /\ News(TickFrames, recs, recs')
        /\ \A j \in DOMAIN TickFrames : TickFrames[j].to = All /\ TickFrames[j].kind # "snapshot"
    BY <1>1, <2>2, TickNews
  <2>5. LiveTypeOK' /\ ViewInv' BY <1>1, <2>2, <2>3, <2>4, PublishStep
  <2> QED BY <2>3, <2>5 DEF LiveInv
<1>3. CASE \E i \in DOMAIN recs, status \in {"APPROVED", "REJECTED"} : StreamDecision(i, status)
  <2>1. PICK i \in DOMAIN recs, status \in {"APPROVED", "REJECTED"} : StreamDecision(i, status)
    BY <1>3
  <2> DEFINE fr == <<Update(i)>>
  <2>2. Decide(i, status) /\ Publish(fr) BY <2>1 DEF StreamDecision
  <2>3. EngineTypeOK' /\ OneOpen' BY <1>1, <2>2, DecideType, OpenDecide
  <2>4. /\ fr \in Seq(Frames') /\ News(fr, recs, recs')
        /\ \A j \in DOMAIN fr : fr[j].to = All /\ fr[j].kind # "snapshot"
    BY <1>1, <2>2, DecisionNews
  <2> HIDE DEF fr
  <2>5. LiveTypeOK' /\ ViewInv' BY <1>1, <2>2, <2>3, <2>4, PublishStep
  <2> QED BY <2>3, <2>5 DEF LiveInv
<1>4. CASE StreamNext /\ UNCHANGED engineVars
  <2>1. UNCHANGED engineVars BY <1>4
  <2>2. OneOpen' BY <1>1, <2>1 DEF OneOpen, engineVars
  <2>3. LiveTypeOK' /\ ViewInv'
    <3>1. ASSUME NEW c \in Clients, ReadSnapshot(c, recs) PROVE LiveTypeOK' /\ ViewInv'
      BY <1>1, <2>1, <3>1, ReadStep
    <3>2. ASSUME NEW c \in Clients, Connect(c, recs) PROVE LiveTypeOK' /\ ViewInv'
      BY <1>1, <2>1, <3>2, ConnectStep
    <3>3. ASSUME NEW c \in Clients, Ping(c) PROVE LiveTypeOK' /\ ViewInv'
      BY <1>1, <2>1, <3>3, PingStep
    <3>4. ASSUME NEW c \in Clients, Leave(c) PROVE LiveTypeOK' /\ ViewInv'
      BY <1>1, <2>1, <3>4, LeaveStep
    <3>5. ASSUME NEW c \in Clients, Transmit(c) PROVE LiveTypeOK' /\ ViewInv'
      BY <1>1, <2>1, <3>5, TransmitStep
    <3>6. ASSUME Take PROVE LiveTypeOK' /\ ViewInv' BY <1>1, <2>1, <3>6, TakeStep
    <3> QED BY <1>4, <3>1, <3>2, <3>3, <3>4, <3>5, <3>6 DEF StreamNext
  <2> QED BY <2>2, <2>3 DEF LiveInv
<1>5. CASE UNCHANGED liveVars
  <2>1. UNCHANGED engineVars /\ UNCHANGED streamVars BY <1>5 DEF liveVars
  <2>2. OneOpen' BY <1>1, <2>1 DEF OneOpen, engineVars
  <2>3. /\ UNCHANGED <<conn, snapshot, outbox, writing, pings, client>> /\ recs' = recs
        /\ EngineTypeOK' /\ Frames' = Frames
    BY <1>1, <2>1 DEF streamVars, engineVars, EngineTypeOK, Frames
  <2>4. LiveTypeOK' BY <1>1, <2>3 DEF LiveTypeOK, StreamTypeOK, Idle
  <2>5. ViewInv' BY <1>1, <2>3 DEF ViewInv, Untouched, Connected, Idle
  <2> QED BY <2>2, <2>4, <2>5 DEF LiveInv
<1> QED BY <1>2, <1>3, <1>4, <1>5 DEF LiveNext

\* With nothing on its way, a view that would be brought up to date is up to date.
LEMMA InvCurrent == LiveInv => ViewCurrent
<1> SUFFICES ASSUME LiveInv, outbox = <<>>, writing = Idle, NEW c \in Connected,
                    ~client[c].lossy, ~client[c].raced
             PROVE  client[c].view = recs
  BY DEF ViewCurrent
<1> DEFINE view == client[c].view
<1>1. c \in Clients /\ Served(c, view, recs, writing, outbox)
  BY DEF LiveInv, ViewInv, Connected
<1>2. From(c, writing) = 1 /\ Len(outbox) = 0 BY DEF From, Idle
<1>3. \A k \in 1..0 : FALSE OBVIOUS
<1>4. \A k \in From(c, writing)..Len(outbox) : FALSE BY <1>2, <1>3
<1>5. Tells(c, view, From(c, writing), recs, writing, outbox) BY <1>1, <1>4 DEF Served
<1>6. DOMAIN view = DOMAIN recs /\ \A i \in DOMAIN recs : view[i] = recs[i]
  BY <1>4, <1>5 DEF Tells
<1>7. client[c] \in ClientType /\ recs \in Seq(Statuses)
  BY <1>1, StreamFacts DEF LiveInv
<1>8. view \in Seq(Statuses \cup {Nothing}) BY <1>7 DEF ClientType
<1> HIDE DEF view
<1>9. Len(view) = Len(recs) BY <1>6, <1>7, <1>8
<1>10. view = recs BY <1>6, <1>7, <1>8, <1>9
<1> QED BY <1>10 DEF view

\* The live cockpit keeps its invariant.
THEOREM LiveHolds == LiveSpec => []LiveInv
<1>1. LiveInit => LiveInv BY LiveStart
<1>2. LiveInv /\ [LiveNext]_liveVars => LiveInv' BY LiveStep
<1> QED BY <1>1, <1>2, PTL DEF LiveSpec

\* The outbox stays within its limit, a frame in the writer's hands has somebody to
\* be sent to, a subscriber that is not in knows nothing: ConnectionManager.
THEOREM LiveTyped == LiveSpec => []LiveTypeOK
<1>1. LiveInv => LiveTypeOK BY DEF LiveInv
<1> QED BY <1>1, LiveHolds, PTL

\* On the live cockpit too at most one recommendation waits or is approved.
THEOREM OneOpenHolds == LiveSpec => []OneOpen
<1>1. LiveInv => OneOpen BY DEF LiveInv
<1> QED BY <1>1, LiveHolds, PTL

\* Once its frames are written a connected subscriber knows every recommendation and
\* its status, unless a frame was shed or its snapshot was outdated at the handshake.
THEOREM ViewsCurrent == LiveSpec => []ViewCurrent
<1>1. LiveInv => ViewCurrent BY InvCurrent
<1> QED BY <1>1, LiveHolds, PTL
===============================================================================
