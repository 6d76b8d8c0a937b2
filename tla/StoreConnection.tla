----------------------------- MODULE StoreConnection -----------------------------
(***************************************************************************)
(* The statements behind the store operations of control_plane/store.py:   *)
(* create_workflow, update_workflow and append_event, on a SQLite          *)
(* connection in autocommit mode.  A transaction belongs to a connection,  *)
(* not to the thread that began it: BEGIN fails inside an open one, and    *)
(* commit() and ROLLBACK end whichever one is open.  Threads of a service  *)
(* process share the connection of its one Engine; processes have their    *)
(* own, and wait for each other at BEGIN IMMEDIATE.                        *)
(***************************************************************************)
EXTENDS Naturals, FiniteSets, FiniteSetsExt

CONSTANTS
  Threads,
  Conns,         \* connections to the database file
  ConnOf,        \* thread -> the connection it uses
  Keys,          \* idempotency keys of workflows
  MaxOps,        \* bound: store operations begun in a behaviour
  MaxKills       \* bound: processes killed

ASSUME ConnectionAssumption ==
  /\ ConnOf \in [Threads -> Conns] /\ Keys # {}
  /\ MaxOps \in Nat /\ MaxKills \in Nat

VARIABLES
  db,            \* the committed database: one event stream and the workflow rows
  conn,          \* connection -> its open transaction, if any
  thread,        \* thread -> the operation it is in
  landed,        \* operations whose write has been committed
  acked,         \* operations that returned without raising, having written
  ops, kills

vars == <<db, conn, thread, landed, acked, ops, kills>>

\* Operations are numbered, and a write is known by the number of its operation.
Empty == [log |-> {}, rows |-> [k \in Keys |-> 0]]
Closed == [open |-> FALSE, work |-> Empty]
Idle == [op |-> "none", at |-> "idle", id |-> 0, key |-> CHOOSE k \in Keys : TRUE, n |-> 0]

Init ==
  /\ db = Empty
  /\ conn = [c \in Conns |-> Closed]
  /\ thread = [t \in Threads |-> Idle]
  /\ landed = {} /\ acked = {} /\ ops = 0 /\ kills = 0

\* What a statement of t sees, and whether it may write.
View(t) == IF conn[ConnOf[t]].open THEN conn[ConnOf[t]].work ELSE db

Locked(t) == \E c \in Conns \ {ConnOf[t]} : conn[c].open

\* Mutant of NextNumber: the number before the last.
NumberBefore(v) == Max({0} \cup {e.n : e \in v.log}) - 1

NextNumber(v) == Max({0} \cup {e.n : e \in v.log}) + 1

WritesOf(v) == {e.id : e \in v.log} \cup {v.rows[k] : k \in Keys}

\* A write goes to the open transaction, or to the database at once.
Write(t, v) ==
  IF conn[ConnOf[t]].open
  THEN conn' = [conn EXCEPT ![ConnOf[t]].work = v] /\ UNCHANGED <<db, landed>>
  ELSE ~Locked(t) /\ db' = v /\ landed' = landed \cup WritesOf(v) /\ UNCHANGED conn

\* commit() ends the connection's transaction, whoever began it, if there is one.
Commit(t) ==
  IF conn[ConnOf[t]].open
  THEN /\ db' = conn[ConnOf[t]].work
       /\ landed' = landed \cup WritesOf(db')
       /\ conn' = [conn EXCEPT ![ConnOf[t]] = Closed]
  ELSE UNCHANGED <<conn, db, landed>>

\* So does ROLLBACK; with nothing to roll back its error is swallowed.
Rollback(t) ==
  /\ conn' = [conn EXCEPT ![ConnOf[t]] = Closed]
  /\ UNCHANGED <<db, landed>>

Goto(t, p) == thread' = [thread EXCEPT ![t].at = p]
Return(t) == thread' = [thread EXCEPT ![t] = Idle]
Counters == <<ops, kills>>
-------------------------------------------------------------------------------
Invoke(t, op, k, first) ==
  /\ thread[t].op = "none" /\ ops < MaxOps
  /\ ops' = ops + 1
  /\ thread' = [thread EXCEPT ![t] = [op |-> op, at |-> first, id |-> ops + 1, key |-> k, n |-> 0]]
  /\ UNCHANGED <<db, conn, landed, acked, kills>>

\* Engine._emit_event asks for the next number before it appends.
Number(t) ==
  /\ thread[t].at = "number"
  /\ thread' = [thread EXCEPT ![t].n = NextNumber(View(t)), ![t].at = "begin"]
  /\ UNCHANGED <<db, conn, landed, acked, Counters>>

\* Mutant of BeginImmediate: the statements of an operation run without BEGIN.
NoBegin(t) ==
  /\ thread[t].at = "begin"
  /\ Goto(t, "select")
  /\ UNCHANGED <<conn, db, landed, acked, Counters>>

\* BEGIN IMMEDIATE raises inside an open transaction of the same connection and
\* waits for one of another.
BeginImmediate(t) ==
  /\ thread[t].at = "begin"
  /\ IF conn[ConnOf[t]].open
     THEN Goto(t, "undo") /\ UNCHANGED conn
     ELSE /\ ~Locked(t)
          /\ conn' = [conn EXCEPT ![ConnOf[t]] = [open |-> TRUE, work |-> db]]
          /\ Goto(t, "select")
  /\ UNCHANGED <<db, landed, acked, Counters>>

\* create_workflow: an existing row is returned after a ROLLBACK.
\* append_event: a number that is not next is refused after a ROLLBACK, and the
\* ValueError is caught by the except clause that rolls back again.
Select(t) ==
  LET c == thread[t] IN
  /\ c.at = "select"
  /\ \/ /\ c.op = "create" /\ View(t).rows[c.key] # 0
        /\ Goto(t, "exists") /\ UNCHANGED conn
     \/ /\ c.op = "append" /\ c.n # NextNumber(View(t))
        /\ Goto(t, "refuse") /\ UNCHANGED conn
     \/ /\ c.op = "create" => View(t).rows[c.key] = 0
        /\ c.op = "append" => c.n = NextNumber(View(t))
        /\ Goto(t, "insert") /\ UNCHANGED conn
  /\ UNCHANGED <<db, landed, acked, Counters>>

Exists(t) ==
  /\ thread[t].at = "exists"
  /\ Rollback(t) /\ Return(t)
  /\ UNCHANGED <<acked, Counters>>

\* Mutant of Refuse: the append is begun again under the same number.
RefusedAgain(t) ==
  /\ thread[t].at = "refuse"
  /\ Rollback(t) /\ Goto(t, "begin")
  /\ UNCHANGED <<acked, Counters>>

Refuse(t) ==
  /\ thread[t].at = "refuse"
  /\ Rollback(t) /\ Goto(t, "undo")
  /\ UNCHANGED <<acked, Counters>>

\* The constraints of the tables, which hold whatever the check saw.
Free(t, v) ==
  IF thread[t].op = "create" THEN v.rows[thread[t].key] = 0
  ELSE \A e \in v.log : e.n # thread[t].n

Inserted(t, v) ==
  IF thread[t].op = "create" THEN [v EXCEPT !.rows[thread[t].key] = thread[t].id]
  ELSE [v EXCEPT !.log = @ \cup {[n |-> thread[t].n, id |-> thread[t].id]}]

Insert(t) ==
  /\ thread[t].at = "insert"
  /\ \/ Free(t, View(t)) /\ Write(t, Inserted(t, View(t))) /\ Goto(t, "commit")
     \/ ~Free(t, View(t)) /\ Goto(t, "undo") /\ UNCHANGED <<db, conn, landed>>
  /\ UNCHANGED <<acked, Counters>>

\* The except clauses roll back whatever transaction the connection has open.
Undo(t) ==
  /\ thread[t].at = "undo"
  /\ Rollback(t) /\ Return(t)
  /\ UNCHANGED <<acked, Counters>>

\* update_workflow is one UPDATE and a commit(): no BEGIN of its own.
Update(t) ==
  LET k == thread[t].key IN
  /\ thread[t].at = "update"
  /\ \/ /\ View(t).rows[k] # 0
        /\ Write(t, [View(t) EXCEPT !.rows[k] = thread[t].id]) /\ Goto(t, "commit")
     \/ /\ View(t).rows[k] = 0 /\ (conn[ConnOf[t]].open \/ ~Locked(t))
        /\ Return(t) /\ UNCHANGED <<db, conn, landed>>
  /\ UNCHANGED <<acked, Counters>>

\* Mutant of Committed: the operation returns without its commit().
LeavesOpen(t) ==
  /\ thread[t].at = "commit"
  /\ UNCHANGED <<conn, db, landed>> /\ Return(t)
  /\ acked' = acked \cup {thread[t].id}
  /\ UNCHANGED Counters

\* commit() and return: an operation whose process is killed between the two is one
\* that returned, to nobody.
Committed(t) ==
  /\ thread[t].at = "commit"
  /\ Commit(t) /\ Return(t)
  /\ acked' = acked \cup {thread[t].id}
  /\ UNCHANGED Counters

\* The busy timeout of a statement that waits for another connection.
GiveUp(t) ==
  /\ thread[t].at \in {"begin", "insert", "update"} /\ ~conn[ConnOf[t]].open /\ Locked(t)
  /\ IF thread[t].at = "update" THEN Return(t) ELSE Goto(t, "undo")
  /\ UNCHANGED <<db, conn, landed, acked, Counters>>

\* A process is killed: its connection is gone and SQLite rolls back.
Kill(c) ==
  /\ kills < MaxKills /\ kills' = kills + 1
  /\ conn' = [conn EXCEPT ![c] = Closed]
  /\ thread' = [t \in Threads |-> IF ConnOf[t] = c THEN Idle ELSE thread[t]]
  /\ UNCHANGED <<db, landed, acked, ops>>

Step(t) ==
  \/ Number(t) \/ BeginImmediate(t) \/ Select(t) \/ Exists(t) \/ Refuse(t)
  \/ Insert(t) \/ Undo(t) \/ Update(t) \/ Committed(t)

Next ==
  \/ \E t \in Threads, k \in Keys :
       Invoke(t, "create", k, "begin") \/ Invoke(t, "update", k, "update")
  \/ \E t \in Threads, k \in Keys : Invoke(t, "append", k, "number")
  \/ \E t \in Threads : Step(t) \/ GiveUp(t)
  \/ \E c \in Conns : Kill(c)

\* A statement that is not answered within the busy timeout raises.
Fairness == \A t \in Threads : WF_vars(Step(t) \/ GiveUp(t))

Spec == Init /\ [][Next]_vars /\ Fairness
-------------------------------------------------------------------------------
(* Properties.                                                              *)

Database == [log : SUBSET [n : Nat, id : Nat], rows : [Keys -> Nat]]

Operation ==
  [op : {"none", "create", "append", "update"},
   at : {"idle", "number", "begin", "select", "exists", "refuse", "insert", "undo",
         "update", "commit"},
   id : Nat, key : Keys, n : Nat]

TypeOK ==
  /\ db \in Database
  /\ conn \in [Conns -> [open : BOOLEAN, work : Database]]
  /\ thread \in [Threads -> Operation]
  /\ landed \subseteq Nat /\ acked \subseteq Nat
  /\ ops \in Nat /\ kills \in Nat

\* An operation that returned has its write in the database, whatever the other
\* callers do and whenever processes are killed.
AcknowledgedIsDurable == acked \subseteq landed

\* The committed event stream is numbered without gaps or repetitions, and holds
\* the events of operations that came to their commit only: one that was refused,
\* gave up or was killed left nothing in it, and one under way has nothing there yet.
StreamWellNumbered ==
  /\ \A e \in db.log : e.id \in acked
  /\ \A e \in db.log, f \in db.log : e.n = f.n => e = f
  /\ \A e \in db.log : e.n \in 1 .. Cardinality(db.log)

\* Every store operation returns: nobody waits for a lock for ever.
OperationsReturn == \A t \in Threads : thread[t].op # "none" ~> thread[t].op = "none"
===============================================================================
