---------------------------- MODULE LiveCockpit ----------------------------
(***************************************************************************)
(* The ingest engine and the subscribers of its cockpit: every change is   *)
(* streamed to them (create_app of ingest_engine.py).                      *)
(*                                                                         *)
(* A route runs from its request to its answer without an await that       *)
(* yields, so the change of the engine and the frames it queues are one    *)
(* step.  The engine does not restart.  Any number of supervisors may post *)
(* a tick again or out of order, so ticks are not told apart here.         *)
(***************************************************************************)
EXTENDS FiniteSets, CockpitEngine, CockpitStream

CONSTANT MaxTicks   \* bound: the ticks posted

liveVars == <<engineVars, streamVars>>

\* The frames there are: two kinds for one subscriber, three for all of them.
Frames ==
    [to : Clients, kind : {"snapshot"}, body : [view : Seq(Statuses)]]
    \cup [to : Clients, kind : {"pong"}, body : {Nothing}]
    \cup [to : {All}, kind : {"tick"}, body : {Nothing}]
    \cup [to : {All}, kind : {"triggered", "updated"},
          body : [rec : DOMAIN recs, status : Statuses]]

LiveTypeOK ==
    /\ EngineTypeOK /\ StreamTypeOK
    /\ snapshot \in [Clients -> Seq(Statuses)]
    /\ client \in [Clients -> [view : Seq(Statuses \cup {Nothing}),
                               lossy : BOOLEAN, raced : BOOLEAN]]
    /\ outbox \in Seq(Frames)
    /\ writing = Idle \/ writing \in [frame : Frames, to : SUBSET Clients]

LiveInit == EngineInit /\ StreamInit

-----------------------------------------------------------------------------
\* The numbers of a set in their order.
InOrder(S) ==
    CHOOSE s \in [1..Cardinality(S) -> S] : \A j, k \in DOMAIN s : j < k => s[j] < s[k]

Update(i) == Frame(All, IF i \in DOMAIN recs THEN "updated" ELSE "triggered",
                   [rec |-> i, status |-> recs'[i]])

\* The frames of a tick: the tick, what it raised, what it executed.
TickFrames ==
    LET raised == IF Len(recs') > Len(recs) THEN << Len(recs') >> ELSE <<>>
        executed == InOrder({i \in DOMAIN recs : recs[i] = "APPROVED"})
        changed == raised \o executed IN
    <<Frame(All, "tick", Nothing)>> \o [j \in DOMAIN changed |-> Update(changed[j])]

\* The frames are queued.
Publish(frames) ==
    /\ UNCHANGED <<conn, snapshot, writing, pings>>
    /\ Enqueue(frames, {})

\* POST /api/v1/telemetry
StreamTelemetry(triggered) ==
    /\ Len(window) < MaxTicks
    /\ Ingest(1, triggered)
    /\ Publish(TickFrames)

\* POST /api/v1/cockpit/approve
StreamDecision(i, status) ==
    /\ Decide(i, status)
    /\ Publish(<<Update(i)>>)

\* What subscribers do, and the writer.
StreamNext ==
    \/ \E c \in Clients : \/ ReadSnapshot(c, recs) \/ Connect(c, recs) \/ Ping(c)
                          \/ Leave(c) \/ Transmit(c)
    \/ Take

LiveNext ==
    \/ \E triggered \in BOOLEAN : StreamTelemetry(triggered)
    \/ \E i \in DOMAIN recs, status \in {"APPROVED", "REJECTED"} : StreamDecision(i, status)
    \/ StreamNext /\ UNCHANGED engineVars

LiveSpec == LiveInit /\ [][LiveNext]_liveVars

-----------------------------------------------------------------------------
\* A subscriber that is not pruned knows every recommendation and its status once
\* the frames are written: unless one was shed, or a recommendation changed
\* between the reading of its snapshot and the end of its handshake.
ViewCurrent ==
    outbox = <<>> /\ writing = Idle =>
        \A c \in Connected : client[c].view = recs \/ client[c].lossy \/ client[c].raced
=============================================================================
