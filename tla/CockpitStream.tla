--------------------------- MODULE CockpitStream ---------------------------
(***************************************************************************)
(* ConnectionManager and the stream route of ingest_engine.py: frames wait *)
(* in a bounded outbox, one writer sends them, and a subscriber that       *)
(* cannot be written to is pruned.                                         *)
(*                                                                         *)
(* The event loop runs one coroutine at a time: a step is what runs        *)
(* between two awaits.  The hub lives in one loop, and its shutdown ends   *)
(* the model.  A client connects once.  The numbers of the frames, which   *)
(* are given after the shedding, are left out.                             *)
(***************************************************************************)
EXTENDS Integers, Sequences

CONSTANTS
    Clients,      \* the subscribers
    OutboxLimit,  \* OUTBOX_LIMIT
    MaxPings,     \* bound: the pings of all clients
    All,          \* a frame for every subscriber
    Nothing       \* no frame in the writer's hands, no recommendation to report

ASSUME StreamAssumption ==
    OutboxLimit \in Nat \ {0} /\ MaxPings \in Nat /\ All \notin Clients

VARIABLES
    conn,      \* [Clients -> "out", "accepting", "in", "pruned" (socket open), "gone"]
    snapshot,  \* [Clients -> the recommendations read before the handshake]
    outbox,    \* the frames that wait
    writing,   \* the frame the writer sends, and to whom it has yet to
    pings,
    client     \* [Clients -> what it knows, and what happened to it]

streamVars == <<conn, snapshot, outbox, writing, pings, client>>

\* view: the recommendations as its frames tell.  lossy: a frame for it was shed.
\* raced: its snapshot was out of date when its handshake ended.
NewClient == [view |-> <<>>, lossy |-> FALSE, raced |-> FALSE]

Frame(to, kind, body) == [to |-> to, kind |-> kind, body |-> body]
Idle == [frame |-> Nothing, to |-> {}]

StreamTypeOK ==
    /\ conn \in [Clients -> {"out", "accepting", "in", "pruned", "gone"}]
    /\ Len(outbox) <= OutboxLimit
    /\ writing = Idle \/ writing.to \in (SUBSET Clients) \ {{}}
    /\ \A c \in Clients : conn[c] \in {"out", "accepting", "gone"} => client[c] = NewClient
    /\ pings \in 0..MaxPings

StreamInit ==
    /\ conn = [c \in Clients |-> "out"]
    /\ snapshot = [c \in Clients |-> <<>>]
    /\ outbox = <<>>
    /\ writing = Idle
    /\ pings = 0
    /\ client = [c \in Clients |-> NewClient]

Connected == {c \in Clients : conn[c] = "in"}

-----------------------------------------------------------------------------
\* Mutant of Queue: a full outbox sheds the newest frame instead of the oldest.
QueueShedNewest(frames) ==
    LET all == outbox \o frames IN
    IF Len(all) <= OutboxLimit THEN all ELSE SubSeq(all, 1, OutboxLimit)

\* Mutant of Queue: room is made once for all the frames of a route.
QueueAll(frames) ==
    IF Len(outbox) < OutboxLimit THEN outbox \o frames ELSE Tail(outbox) \o frames

\* What the outbox holds after the frames are put in, one after the other.
Queue(frames) ==
    LET all == outbox \o frames IN
    IF Len(all) <= OutboxLimit THEN all
    ELSE SubSeq(all, Len(all) - OutboxLimit + 1, Len(all))

\* _enqueue: the oldest frames make room.  Outdated are the clients that connect
\* with a snapshot that is no longer true.
Enqueue(frames, outdated) ==
    LET all == outbox \o frames
        lost == {all[i] : i \in 1..(Len(all) - OutboxLimit)} IN
    /\ outbox' = Queue(frames)
    /\ client' = [c \in Clients |->
         [client[c] EXCEPT
            !.lossy = @ \/ (conn'[c] = "in" /\ \E f \in lost : f.to \in {All, c}),
            !.raced = @ \/ c \in outdated]]

\* cockpit_stream: the state is read, then the handshake is awaited.
ReadSnapshot(c, now) ==
    /\ conn[c] = "out"
    /\ conn' = [conn EXCEPT ![c] = "accepting"]
    /\ snapshot' = [snapshot EXCEPT ![c] = now]
    /\ UNCHANGED <<outbox, writing, pings, client>>

Connect(c, now) ==
    /\ conn[c] = "accepting"
    /\ conn' = [conn EXCEPT ![c] = "in"]
    /\ Enqueue(<<Frame(c, "snapshot", [view |-> snapshot[c]])>>,
               IF snapshot[c] = now THEN {} ELSE {c})
    /\ snapshot' = [snapshot EXCEPT ![c] = <<>>]
    /\ UNCHANGED <<writing, pings>>

\* A ping is answered as long as the socket is open.
Ping(c) ==
    /\ conn[c] \in {"in", "pruned"}
    /\ pings < MaxPings
    /\ pings' = pings + 1
    /\ UNCHANGED conn
    /\ Enqueue(<<Frame(c, "pong", Nothing)>>, {})
    /\ UNCHANGED <<snapshot, writing>>

Leave(c) ==
    /\ conn[c] \in {"accepting", "in", "pruned"}
    /\ conn' = [conn EXCEPT ![c] = "gone"]
    /\ snapshot' = [snapshot EXCEPT ![c] = <<>>]
    /\ client' = [client EXCEPT ![c] = NewClient]
    /\ UNCHANGED <<outbox, writing, pings>>

-----------------------------------------------------------------------------
\* _run_writer takes a frame; broadcast takes the subscribers of now.
Take ==
    /\ writing = Idle /\ outbox # <<>>
    /\ LET f == Head(outbox)
           to == IF f.to = All THEN Connected ELSE {f.to} IN
       writing' = IF to = {} THEN Idle ELSE [frame |-> f, to |-> to]
    /\ outbox' = Tail(outbox)
    /\ UNCHANGED <<conn, snapshot, pings, client>>

Put(view, i, status) ==
    [j \in 1..(IF Len(view) < i THEN i ELSE Len(view)) |->
        IF j = i THEN status ELSE IF j \in DOMAIN view THEN view[j] ELSE Nothing]

\* What a client makes of a frame.
Applied(view, f) ==
    CASE f.kind = "snapshot"               -> f.body.view
      [] f.kind \in {"triggered", "updated"} -> Put(view, f.body.rec, f.body.status)
      [] OTHER                              -> view

\* _transmit to one subscriber: it arrives, or the subscriber is pruned.
Transmit(c) ==
    /\ c \in writing.to
    /\ writing' = IF writing.to = {c} THEN Idle ELSE [writing EXCEPT !.to = @ \ {c}]
    /\ \/ /\ conn[c] \in {"in", "pruned"}
          /\ client' = [client EXCEPT ![c].view = Applied(@, writing.frame)]
          /\ UNCHANGED conn
       \/ /\ conn' = [conn EXCEPT ![c] = IF @ = "in" THEN "pruned" ELSE @]
          /\ UNCHANGED client
    /\ UNCHANGED <<snapshot, outbox, pings>>
=============================================================================
