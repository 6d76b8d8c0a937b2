------------------------- MODULE StoreConnectionProofs -------------------------
(***************************************************************************)
(* Theorems about StoreConnection.  Its state is well typed whoever shares *)
(* a connection; that the next number of a stream exists rests on streams  *)
(* being bounded.  When every caller has a connection of its own, as       *)
(* processes do, what was acknowledged is in the database, streams are     *)
(* well numbered and a commit takes nothing away.  Threads that share one  *)
(* connection have none of this: they commit and roll back each other's    *)
(* transactions.                                                           *)
(*                                                                         *)
(* OwnInv says that at most one transaction is open, that it extends the   *)
(* database by one operation, and that an operation about to insert still  *)
(* has the number that comes next in it.  OriginInv says whose events a    *)
(* transaction and the database hold.                                      *)
(***************************************************************************)
EXTENDS StoreConnection, FiniteSetTheorems, WellFoundedInduction, TLAPS

\* Every caller has a connection of its own.
OwnConnections == \A t, u \in Threads : ConnOf[t] = ConnOf[u] => t = u

\* Numbers do not grow without end within one stream.
Bounded(v) == \E b \in Nat : \A e \in v.log : e.n <= b

\* The types, with streams that have a largest number.
TypeInv == TypeOK /\ Bounded(db) /\ \A c \in Conns : Bounded(conn[c].work)

\* A stream numbered 1, 2, ... without gaps or repetitions.
Numbered(v) ==
  /\ IsFiniteSet(v.log)
  /\ \A e, f \in v.log : e.n = f.n => e = f
  /\ \A e \in v.log : e.n \in 1 .. Cardinality(v.log)
  /\ \A m \in 1 .. Cardinality(v.log) : \E e \in v.log : e.n = m

\* What v holds is still in w.
Extends(w, v) ==
  /\ v.log \subseteq w.log
  /\ \A k \in Keys : v.rows[k] # 0 => w.rows[k] # 0

\* An operation, the transaction of its connection, and what has been committed.
InStep(c, x, done) ==
  /\ c.at # "idle" => c.id # 0
  /\ c.at \in {"number", "begin", "select", "exists", "refuse", "insert"}
       => c.op \in {"create", "append"}
  /\ c.at \in {"select", "exists", "refuse", "insert"} => x.open
  /\ c.at = "insert" /\ c.op # "create" => c.n = NextNumber(x.work)
  /\ c.at = "commit" => IF x.open THEN c.id \in WritesOf(x.work) ELSE c.id \in done

\* The inductive invariant.
OwnInv ==
  /\ Numbered(db)
  /\ \A c \in Conns : conn[c].open => Numbered(conn[c].work) /\ Extends(conn[c].work, db)
  /\ \A c, d \in Conns : conn[c].open /\ conn[d].open => c = d
  /\ \A t \in Threads : InStep(thread[t], conn[ConnOf[t]], landed)
  /\ AcknowledgedIsDurable

\* No step takes a committed event or row away (Store.append_event, create_workflow).
NothingLost == [][Extends(db', db)]_vars
-------------------------------------------------------------------------------
(* The largest number of a stream.                                          *)

\* A set of naturals has a least member.
LEMMA LeastNumber ==
  ASSUME NEW S \in SUBSET Nat, S # {}
  PROVE  \E x \in S : \A y \in S : x <= y
<1> DEFINE R == OpToRel(<, Nat)
<1>1. \A x, y \in Nat : x < y => <<x, y>> \in R
  BY DEF OpToRel
<1>2. IsWellFoundedOn(R, Nat)
  BY NatLessThanWellFounded
<1> HIDE DEF R
<1>3. PICK x \in S : \A y \in S : ~(<<y, x>> \in R)
  BY <1>2, WFMin
<1>4. ASSUME NEW y \in S PROVE x <= y
  <2>1. ~(y < x)
    BY <1>1, <1>3
  <2>2. QED  BY <2>1
<1>5. QED  BY <1>4

\* A bounded one has a largest, and Max names it.
LEMMA MaxOfBounded ==
  ASSUME NEW S \in SUBSET Nat, S # {}, NEW b \in Nat, \A x \in S : x <= b
  PROVE  Max(S) \in S /\ \A x \in S : x <= Max(S)
<1> DEFINE D == {b - x : x \in S}
<1>1. D \in SUBSET Nat /\ D # {}
  <2>1. \A x \in S : b - x \in Nat
    OBVIOUS
  <2>2. PICK x \in S : TRUE
    OBVIOUS
  <2>3. b - x \in D
    OBVIOUS
  <2>4. QED  BY <2>1, <2>3
<1>2. PICK d \in D : \A e \in D : d <= e
  <2> HIDE DEF D
  <2> QED  BY <1>1, LeastNumber
<1>3. PICK m \in S : d = b - m
  OBVIOUS
<1>4. ASSUME NEW x \in S PROVE m >= x
  <2>1. b - m <= b - x
    BY <1>2, <1>3
  <2>2. QED  BY <2>1
<1>5. \E x \in S : \A y \in S : x >= y
  BY <1>4
<1>6. Max(S) \in S /\ \A y \in S : Max(S) >= y
  BY <1>5 DEF Max
<1>7. QED  BY <1>6

\* The next number is beyond every number of the stream.
LEMMA NextTyped ==
  ASSUME NEW v \in Database, Bounded(v)
  PROVE  NextNumber(v) \in Nat /\ \A e \in v.log : e.n < NextNumber(v)
<1> DEFINE S == {0} \cup {e.n : e \in v.log}
<1>1. PICK b \in Nat : \A e \in v.log : e.n <= b
  BY DEF Bounded
<1>2. \A e \in v.log : e.n \in Nat
  BY DEF Database
<1>3. S \in SUBSET Nat /\ S # {} /\ \A x \in S : x <= b
  BY <1>1, <1>2
<1>4. Max(S) \in S /\ \A x \in S : x <= Max(S)
  <2> HIDE DEF S
  <2> QED  BY <1>3, MaxOfBounded
<1>5. NextNumber(v) = Max(S) + 1
  BY DEF NextNumber
<1>6. Max(S) \in Nat
  BY <1>3, <1>4
<1>7. ASSUME NEW e \in v.log PROVE e.n < NextNumber(v)
  <2>1. e.n \in S
    OBVIOUS
  <2>2. e.n <= Max(S) /\ e.n \in Nat
    BY <1>2, <1>4, <2>1
  <2> HIDE DEF S
  <2>3. QED  BY <1>5, <1>6, <2>2
<1>8. QED
  <2> HIDE DEF S
  <2> QED  BY <1>5, <1>6, <1>7

\* The number after a well numbered stream is the one of its next event.
LEMMA NextIsNext ==
  ASSUME NEW v \in Database, Numbered(v)
  PROVE  Bounded(v) /\ NextNumber(v) = Cardinality(v.log) + 1 /\ Cardinality(v.log) \in Nat
<1> DEFINE n == Cardinality(v.log)
           S == {0} \cup {e.n : e \in v.log}
<1>1. n \in Nat
  BY FS_CardinalityType DEF Numbered
<1>2. \A e \in v.log : e.n \in 1 .. n
  BY DEF Numbered
<1>3. S = 0 .. n
  <2>1. \A m \in 1 .. n : \E e \in v.log : e.n = m
    BY DEF Numbered
  <2> HIDE DEF n
  <2>2. QED  BY <1>1, <1>2, <2>1
<1>4. S \in SUBSET Nat /\ S # {} /\ \A x \in S : x <= n
  <2> HIDE DEF n, S
  <2> QED  BY <1>1, <1>3
<1>5. Max(S) \in S /\ \A x \in S : x <= Max(S)
  <2> HIDE DEF S, n
  <2> QED  BY <1>1, <1>4, MaxOfBounded
<1>6. Max(S) = n
  <2> HIDE DEF S, n
  <2> QED  BY <1>1, <1>3, <1>5
<1>7. NextNumber(v) = n + 1
  BY <1>6 DEF NextNumber
<1>8. Bounded(v)
  <2> HIDE DEF n
  <2> QED  BY <1>1, <1>2 DEF Bounded
<1>9. QED  BY <1>1, <1>7, <1>8
-------------------------------------------------------------------------------
(* Types, whoever shares a connection.                                      *)

\* What an insert and an update write is a database, with a bounded stream.
LEMMA WriteTyped ==
  ASSUME NEW t \in Threads, NEW v \in Database, Bounded(v), thread[t] \in Operation
  PROVE  /\ Inserted(t, v) \in Database /\ Bounded(Inserted(t, v))
         /\ \A k \in Keys : LET w == [v EXCEPT !.rows[k] = thread[t].id] IN
                              w \in Database /\ Bounded(w)
         /\ WritesOf(v) \subseteq Nat
<1> DEFINE c == thread[t]
           e == [n |-> c.n, id |-> c.id]
<1>1. /\ c.id \in Nat /\ c.n \in Nat /\ c.key \in Keys
      /\ v.log \in SUBSET [n : Nat, id : Nat] /\ v.rows \in [Keys -> Nat]
      /\ v = [log |-> v.log, rows |-> v.rows]
  BY DEF Operation, Database
<1>2. ASSUME NEW k \in Keys
      PROVE  LET w == [v EXCEPT !.rows[k] = c.id] IN w \in Database /\ Bounded(w)
  <2> DEFINE w == [v EXCEPT !.rows[k] = c.id]
  <2>1. w = [log |-> v.log, rows |-> [v.rows EXCEPT ![k] = c.id]]
    BY <1>1 DEF Database
  <2>2. [v.rows EXCEPT ![k] = c.id] \in [Keys -> Nat]
    BY <1>1
  <2>3. w \in Database /\ w.log = v.log
    <3> HIDE DEF c
    <3> QED  BY <1>1, <2>1, <2>2 DEF Database
  <2>4. Bounded(w)
    <3> HIDE DEF w
    <3> QED  BY <2>3 DEF Bounded
  <2>5. QED  BY <2>3, <2>4
<1>3. ASSUME c.op = "create" PROVE Inserted(t, v) \in Database /\ Bounded(Inserted(t, v))
  <2>1. Inserted(t, v) = [v EXCEPT !.rows[c.key] = c.id]
    BY <1>3 DEF Inserted
  <2>2. QED  BY <1>1, <1>2, <2>1
<1>4. ASSUME c.op # "create" PROVE Inserted(t, v) \in Database /\ Bounded(Inserted(t, v))
  <2> DEFINE w == [v EXCEPT !.log = @ \cup {e}]
  <2>1. Inserted(t, v) = w
    BY <1>4 DEF Inserted
  <2>2. e \in [n : Nat, id : Nat] /\ e.n = c.n
    BY <1>1
  <2>3. w = [log |-> v.log \cup {e}, rows |-> v.rows]
    <3> HIDE DEF e
    <3> QED  BY <1>1 DEF Database
  <2>4. w \in Database /\ w.log = v.log \cup {e}
    <3> HIDE DEF e
    <3> QED  BY <1>1, <2>2, <2>3 DEF Database
  <2>5. PICK b \in Nat : \A f \in v.log : f.n <= b
    BY DEF Bounded
  <2>6. PICK m \in Nat : b <= m /\ c.n <= m
    <3>1. b + c.n \in Nat /\ b <= b + c.n /\ c.n <= b + c.n
      BY <1>1
    <3>2. QED  BY <3>1
  <2>7. \A f \in v.log : f.n \in Nat
    BY <1>1
  <2>8. \A f \in w.log : f.n <= m
    <3> HIDE DEF w, e
    <3> QED  BY <2>2, <2>4, <2>5, <2>6, <2>7
  <2>9. QED
    <3> HIDE DEF w, e
    <3> QED  BY <2>1, <2>4, <2>8 DEF Bounded
<1>5. WritesOf(v) \subseteq Nat
  BY <1>1 DEF WritesOf
<1>6. QED  BY <1>2, <1>3, <1>4, <1>5

LEMMA IdleTyped == Idle \in Operation
<1>1. (CHOOSE k \in Keys : TRUE) \in Keys
  BY ConnectionAssumption
<1>2. QED  BY <1>1 DEF Idle, Operation

\* A view is the open transaction, or the database.
LEMMA ViewTyped ==
  ASSUME TypeInv, NEW t \in Threads
  PROVE  View(t) \in Database /\ Bounded(View(t)) /\ ConnOf[t] \in Conns
<1>1. ConnOf[t] \in Conns
  BY ConnectionAssumption
<1>2. QED  BY <1>1 DEF View, TypeInv, TypeOK

\* Writing a database somewhere keeps the types of what holds one.
LEMMA WriteKept ==
  ASSUME TypeInv, NEW t \in Threads, NEW w \in Database, Bounded(w), WritesOf(w) \subseteq Nat,
         Write(t, w)
  PROVE  /\ db' \in Database /\ Bounded(db)' /\ landed' \subseteq Nat
         /\ conn' \in [Conns -> [open : BOOLEAN, work : Database]]
         /\ \A c \in Conns : Bounded(conn'[c].work)
<1> DEFINE x == ConnOf[t]
<1>1. x \in Conns /\ conn \in [Conns -> [open : BOOLEAN, work : Database]]
      /\ db \in Database /\ Bounded(db) /\ landed \subseteq Nat
      /\ \A c \in Conns : Bounded(conn[c].work)
  BY ConnectionAssumption DEF TypeInv, TypeOK
<1>2. CASE conn[x].open
  <2>1. conn' = [conn EXCEPT ![x].work = w] /\ UNCHANGED <<db, landed>>
    BY <1>2 DEF Write
  <2>2. conn' \in [Conns -> [open : BOOLEAN, work : Database]]
    BY <1>1, <2>1
  <2>3. \A c \in Conns : conn'[c].work = IF c = x THEN w ELSE conn[c].work
    BY <1>1, <2>1
  <2> HIDE DEF x
  <2>4. QED  BY <1>1, <2>1, <2>2, <2>3 DEF Bounded
<1>3. CASE ~conn[x].open
  <2>1. db' = w /\ landed' = landed \cup WritesOf(w) /\ conn' = conn
    BY <1>3 DEF Write
  <2>2. QED  BY <1>1, <2>1 DEF Bounded
<1>4. QED  BY <1>2, <1>3

LEMMA TypeInit == Init => TypeInv
<1> SUFFICES ASSUME Init PROVE TypeInv
  OBVIOUS
<1>1. Empty \in Database /\ Bounded(Empty)
  BY DEF Empty, Database, Bounded
<1>2. Closed \in [open : BOOLEAN, work : Database] /\ Closed.work = Empty
  BY <1>1 DEF Closed
<1>3. conn \in [Conns -> [open : BOOLEAN, work : Database]]
      /\ \A c \in Conns : Bounded(conn[c].work)
  BY <1>1, <1>2 DEF Init
<1>4. thread \in [Threads -> Operation]
  BY IdleTyped DEF Init
<1>5. QED  BY <1>1, <1>3, <1>4 DEF Init, TypeInv, TypeOK

LEMMA TypeStep ==
  ASSUME TypeInv, NEW t \in Threads, Step(t) \/ GiveUp(t)
  PROVE  TypeInv'
<1> DEFINE c == thread[t]
           x == ConnOf[t]
           Transaction == [open : BOOLEAN, work : Database]
           ConnOK(f) == f \in [Conns -> Transaction] /\ \A d \in Conns : Bounded(f[d].work)
           At == {"idle", "number", "begin", "select", "exists", "refuse", "insert",
                  "undo", "update", "commit"}
<1>1. /\ c \in Operation /\ thread \in [Threads -> Operation] /\ x \in Conns
      /\ conn \in [Conns -> Transaction] /\ \A d \in Conns : Bounded(conn[d].work)
      /\ db \in Database /\ Bounded(db) /\ View(t) \in Database /\ Bounded(View(t))
      /\ landed \subseteq Nat /\ acked \subseteq Nat /\ ops \in Nat /\ kills \in Nat
  BY ViewTyped DEF TypeInv, TypeOK
<1>2. c.id \in Nat
  BY <1>1 DEF Operation
<1>3. ASSUME NEW p \in At, Goto(t, p) PROVE thread' \in [Threads -> Operation]
  <2>1. [c EXCEPT !.at = p] \in Operation
    BY <1>1 DEF Operation
  <2>2. thread' = [thread EXCEPT ![t] = [c EXCEPT !.at = p]]
    BY <1>3 DEF Goto
  <2> HIDE DEF c
  <2>3. QED  BY <1>1, <2>1, <2>2
<1>4. Return(t) => thread' \in [Threads -> Operation]
  BY <1>1, IdleTyped DEF Return
<1>5. Empty \in Database /\ Bounded(Empty)
  BY DEF Empty, Database, Bounded
<1>6. ASSUME NEW y \in Transaction, Bounded(y.work), conn' = [conn EXCEPT ![x] = y]
      PROVE  ConnOK(conn')
  <2>1. \A d \in Conns : conn'[d] = IF d = x THEN y ELSE conn[d]
    BY <1>1, <1>6
  <2> HIDE DEF x
  <2>2. QED  BY <1>1, <1>6, <2>1
<1>7. Rollback(t) => ConnOK(conn') /\ UNCHANGED <<db, landed>>
  <2>1. Closed \in Transaction /\ Closed.work = Empty
    BY <1>5 DEF Closed
  <2>2. QED  BY <1>5, <1>6, <2>1 DEF Rollback
<1>8. ASSUME thread' \in [Threads -> Operation], UNCHANGED <<kills, ops>>,
             acked' \in SUBSET Nat, landed' \in SUBSET Nat,
             db' \in Database, Bounded(db)', ConnOK(conn')
      PROVE  TypeInv'
  BY <1>1, <1>8 DEF TypeInv, TypeOK, Bounded
<1>9. UNCHANGED <<db, landed>> => Bounded(db)' /\ db' \in Database /\ landed' \in SUBSET Nat
  BY <1>1 DEF Bounded
<1>10. conn' = conn => ConnOK(conn')
  BY <1>1
<1>11. CASE Number(t)
  <2> DEFINE m == NextNumber(View(t))
  <2>1. m \in Nat
    BY <1>1, NextTyped
  <2>2. thread' = [thread EXCEPT ![t] = [c EXCEPT !.n = m, !.at = "begin"]]
    BY <1>11 DEF Number
  <2> HIDE DEF m
  <2>3. [c EXCEPT !.n = m, !.at = "begin"] \in Operation
    BY <1>1, <2>1 DEF Operation
  <2>4. thread' \in [Threads -> Operation]
    <3> HIDE DEF c
    <3> QED  BY <1>1, <2>2, <2>3
  <2>5. QED  BY <1>1, <1>8, <1>9, <1>10, <1>11, <2>4 DEF Number, Counters
<1>12. CASE BeginImmediate(t)
  <2>1. CASE conn[x].open
    BY <1>1, <1>3, <1>8, <1>9, <1>10, <1>12, <2>1 DEF BeginImmediate, Counters
  <2>2. CASE ~conn[x].open
    <3>1. [open |-> TRUE, work |-> db] \in Transaction
      BY <1>1
    <3>2. ConnOK(conn')
      BY <1>1, <1>6, <1>12, <2>2, <3>1 DEF BeginImmediate
    <3>3. Goto(t, "select") /\ UNCHANGED <<db, landed, acked, ops, kills>>
      BY <1>12, <2>2 DEF BeginImmediate, Counters
    <3>4. QED  BY <1>1, <1>3, <1>8, <1>9, <3>2, <3>3
  <2>3. QED  BY <2>1, <2>2
<1>13. CASE Select(t)
  <2>1. /\ UNCHANGED <<conn, db, landed, acked, ops, kills>>
        /\ Goto(t, "exists") \/ Goto(t, "refuse") \/ Goto(t, "insert")
    BY <1>13 DEF Select, Counters
  <2>2. QED  BY <1>1, <1>3, <1>8, <1>9, <1>10, <2>1
<1>14. CASE Exists(t) \/ Undo(t)
  <2>1. Rollback(t) /\ Return(t) /\ UNCHANGED <<acked, ops, kills>>
    BY <1>14 DEF Exists, Undo, Counters
  <2>2. QED  BY <1>1, <1>4, <1>7, <1>8, <1>9, <2>1
<1>15. CASE Refuse(t)
  <2>1. Rollback(t) /\ Goto(t, "undo") /\ UNCHANGED <<acked, ops, kills>>
    BY <1>15 DEF Refuse, Counters
  <2>2. QED  BY <1>1, <1>3, <1>7, <1>8, <1>9, <2>1
<1>16. CASE Insert(t)
  <2>1. CASE Write(t, Inserted(t, View(t))) /\ Goto(t, "commit")
    <3> DEFINE w == Inserted(t, View(t))
    <3>1. w \in Database /\ Bounded(w) /\ WritesOf(w) \subseteq Nat
      BY <1>1, WriteTyped
    <3>2. /\ db' \in Database /\ Bounded(db)' /\ landed' \in SUBSET Nat /\ ConnOK(conn')
      <4> HIDE DEF w
      <4>1. Write(t, w)
        BY <2>1 DEF w
      <4>2. QED  BY <3>1, <4>1, WriteKept
    <3>3. thread' \in [Threads -> Operation] /\ UNCHANGED <<acked, ops, kills>>
      BY <1>3, <1>16, <2>1 DEF Insert, Counters
    <3>4. QED  BY <1>1, <1>8, <3>2, <3>3
  <2>2. CASE Goto(t, "undo") /\ UNCHANGED <<db, conn, landed>>
    BY <1>1, <1>3, <1>8, <1>9, <1>10, <1>16, <2>2 DEF Insert, Counters
  <2>3. QED  BY <1>16, <2>1, <2>2 DEF Insert
<1>17. CASE Update(t)
  <2>1. CASE /\ Write(t, [View(t) EXCEPT !.rows[c.key] = c.id]) /\ Goto(t, "commit")
    <3> DEFINE w == [View(t) EXCEPT !.rows[c.key] = c.id]
    <3>1. c.key \in Keys
      BY <1>1 DEF Operation
    <3>2. w \in Database /\ Bounded(w)
      BY <1>1, <3>1, WriteTyped
    <3>3. WritesOf(w) \subseteq Nat
      <4> HIDE DEF w
      <4> QED  BY <1>1, <3>2, WriteTyped
    <3>4. /\ db' \in Database /\ Bounded(db)' /\ landed' \in SUBSET Nat /\ ConnOK(conn')
      <4>1. Write(t, w)
        BY <2>1
      <4> HIDE DEF w
      <4>2. QED  BY <3>2, <3>3, <4>1, WriteKept
    <3>5. thread' \in [Threads -> Operation] /\ UNCHANGED <<acked, ops, kills>>
      BY <1>3, <1>17, <2>1 DEF Update, Counters
    <3>6. QED  BY <1>1, <1>8, <3>4, <3>5
  <2>2. CASE Return(t) /\ UNCHANGED <<db, conn, landed>>
    BY <1>1, <1>4, <1>8, <1>9, <1>10, <1>17, <2>2 DEF Update, Counters
  <2>3. QED  BY <1>17, <2>1, <2>2 DEF Update
<1>18. CASE Committed(t)
  <2>1. /\ Return(t) /\ acked' = acked \cup {c.id} /\ UNCHANGED <<ops, kills>> /\ Commit(t)
    BY <1>18 DEF Committed, Counters
  <2>2. acked' \in SUBSET Nat
    BY <1>1, <1>2, <2>1
  <2>3. CASE conn[x].open
    <3>1. db' = conn[x].work /\ landed' = landed \cup WritesOf(conn[x].work)
          /\ conn' = [conn EXCEPT ![x] = Closed]
      BY <2>1, <2>3 DEF Commit
    <3>2. conn[x].work \in Database /\ Bounded(conn[x].work)
      BY <1>1
    <3>3. db' \in Database /\ Bounded(db)' /\ landed' \in SUBSET Nat
      BY <1>1, <3>1, <3>2, WriteTyped DEF Bounded
    <3>4. ConnOK(conn')
      <4>1. Closed \in Transaction /\ Closed.work = Empty
        BY <1>5 DEF Closed
      <4>2. QED  BY <1>5, <1>6, <3>1, <4>1
    <3>5. QED  BY <1>4, <1>8, <2>1, <2>2, <3>3, <3>4
  <2>4. CASE ~conn[x].open
    BY <1>4, <1>8, <1>9, <1>10, <2>1, <2>2, <2>4 DEF Commit
  <2>5. QED  BY <2>3, <2>4
<1>19. CASE GiveUp(t)
  <2>1. /\ UNCHANGED <<conn, db, landed, acked, ops, kills>>
        /\ Return(t) \/ Goto(t, "undo")
    BY <1>19 DEF GiveUp, Counters
  <2>2. QED  BY <1>1, <1>3, <1>4, <1>8, <1>9, <1>10, <2>1
<1>20. QED
  BY <1>11, <1>12, <1>13, <1>14, <1>15, <1>16, <1>17, <1>18, <1>19 DEF Step

LEMMA TypeNext == TypeInv /\ [Next]_vars => TypeInv'
<1> SUFFICES ASSUME TypeInv, [Next]_vars PROVE TypeInv'
  OBVIOUS
<1>1. ASSUME NEW t \in Threads, NEW k \in Keys, NEW op \in {"create", "append", "update"},
             NEW first \in {"begin", "number", "update"}, Invoke(t, op, k, first)
      PROVE  TypeInv'
  <2> DEFINE d == [op |-> op, at |-> first, id |-> ops + 1, key |-> k, n |-> 0]
  <2>1. d \in Operation
    BY DEF Operation, TypeInv, TypeOK
  <2>2. thread' = [thread EXCEPT ![t] = d] /\ ops' = ops + 1
        /\ UNCHANGED <<db, conn, landed, acked, kills>>
    BY <1>1 DEF Invoke
  <2>3. thread' \in [Threads -> Operation] /\ ops' \in Nat
    <3> HIDE DEF d
    <3> QED  BY <2>1, <2>2 DEF TypeInv, TypeOK
  <2>4. QED  BY <2>2, <2>3 DEF TypeInv, TypeOK, Bounded
<1>2. ASSUME NEW c \in Conns, Kill(c) PROVE TypeInv'
  <2>1. Closed \in [open : BOOLEAN, work : Database] /\ Bounded(Closed.work)
    BY DEF Closed, Empty, Database, Bounded
  <2>2. \A d \in Conns : conn'[d] = IF d = c THEN Closed ELSE conn[d]
    BY <1>2 DEF Kill, TypeInv, TypeOK
  <2>3. conn' \in [Conns -> [open : BOOLEAN, work : Database]]
        /\ \A d \in Conns : Bounded(conn'[d].work)
    BY <1>2, <2>1, <2>2 DEF Kill, TypeInv, TypeOK
  <2>4. thread' \in [Threads -> Operation]
    BY <1>2, IdleTyped DEF Kill, TypeInv, TypeOK
  <2>5. kills' \in Nat /\ UNCHANGED <<db, landed, acked, ops>>
    BY <1>2 DEF Kill, TypeInv, TypeOK
  <2>6. QED  BY <2>3, <2>4, <2>5 DEF TypeInv, TypeOK, Bounded
<1>3. CASE UNCHANGED vars
  BY <1>3 DEF vars, TypeInv, TypeOK, Bounded
<1>4. QED  BY <1>1, <1>2, <1>3, TypeStep DEF Next

\* Whoever shares a connection, streams stay finite sets of numbered events and the
\* tables hold what the statements of Store can write there.
THEOREM StoreTyped == Spec => []TypeOK
<1>1. TypeInv => TypeOK
  BY DEF TypeInv
<1>2. QED  BY <1>1, TypeInit, TypeNext, PTL DEF Spec
-------------------------------------------------------------------------------
(* Connections of one caller each.                                          *)

LEMMA ExtendsSelf == \A v : Extends(v, v)
BY DEF Extends

LEMMA ExtendsOn == \A u, v, w : Extends(v, u) /\ Extends(w, v) => Extends(w, u)
BY DEF Extends

LEMMA EmptyNumbered == Numbered(Empty)
<1>1. Empty.log = {}
  BY DEF Empty
<1>2. IsFiniteSet(Empty.log) /\ Cardinality(Empty.log) = 0
  BY <1>1, FS_EmptySet
<1>3. QED  BY <1>1, <1>2 DEF Numbered

\* A row written leaves the stream as it is, and an event under the next number
\* continues it; each is then among the writes, and nothing is lost.
LEMMA RowWritten ==
  ASSUME NEW v \in Database, Numbered(v), NEW k \in Keys, NEW i \in Nat \ {0}
  PROVE  LET w == [v EXCEPT !.rows[k] = i] IN
         Numbered(w) /\ Extends(w, v) /\ i \in WritesOf(w)
<1> DEFINE w == [v EXCEPT !.rows[k] = i]
<1>1. w.log = v.log /\ w.rows = [v.rows EXCEPT ![k] = i] /\ v.rows \in [Keys -> Nat]
  BY DEF Database
<1>2. \A j \in Keys : w.rows[j] = IF j = k THEN i ELSE v.rows[j]
  <2> HIDE DEF w
  <2> QED  BY <1>1
<1>3. Numbered(w)
  <2> HIDE DEF w
  <2> QED  BY <1>1 DEF Numbered
<1>4. Extends(w, v)
  <2> HIDE DEF w
  <2> QED  BY <1>1, <1>2 DEF Extends
<1>5. i \in WritesOf(w)
  <2> HIDE DEF w
  <2> QED  BY <1>2 DEF WritesOf
<1>6. QED  BY <1>3, <1>4, <1>5

LEMMA EventWritten ==
  ASSUME NEW v \in Database, Numbered(v), NEW n, n = NextNumber(v), NEW i \in Nat
  PROVE  LET w == [v EXCEPT !.log = @ \cup {[n |-> n, id |-> i]}] IN
         Numbered(w) /\ Extends(w, v) /\ i \in WritesOf(w)
<1> DEFINE e == [n |-> n, id |-> i]
           w == [v EXCEPT !.log = @ \cup {e}]
           m == Cardinality(v.log)
<1>1. m \in Nat /\ n = m + 1
  BY NextIsNext
<1>2. e.n = n /\ e.id = i
  OBVIOUS
<1> HIDE DEF e
<1>3. w.log = v.log \cup {e} /\ w.rows = v.rows
  BY DEF Database
<1>4. /\ IsFiniteSet(v.log) /\ \A f, g \in v.log : f.n = g.n => f = g
      /\ \A f \in v.log : f.n \in 1 .. m
      /\ \A j \in 1 .. m : \E f \in v.log : f.n = j
  BY DEF Numbered
<1> HIDE DEF w, m
<1>5. e \notin v.log
  BY <1>1, <1>2, <1>4
<1>6. IsFiniteSet(w.log) /\ Cardinality(w.log) = m + 1
  <2> DEFINE L == v.log
  <2>1. IsFiniteSet(L) /\ e \notin L
    BY <1>4, <1>5
  <2> HIDE DEF L
  <2>2. IsFiniteSet(L \cup {e}) /\ Cardinality(L \cup {e}) = Cardinality(L) + 1
    BY <2>1, FS_AddElement
  <2>3. QED  BY <1>3, <2>2 DEF m, L
<1>7. \A f, g \in w.log : f.n = g.n => f = g
  BY <1>1, <1>2, <1>3, <1>4
<1>8. \A f \in w.log : f.n \in 1 .. (m + 1)
  BY <1>1, <1>2, <1>3, <1>4
<1>9. \A j \in 1 .. (m + 1) : \E f \in w.log : f.n = j
  BY <1>1, <1>2, <1>3, <1>4
<1>10. Numbered(w)
  BY <1>6, <1>7, <1>8, <1>9 DEF Numbered
<1>11. Extends(w, v)
  BY <1>3 DEF Extends
<1>12. i \in WritesOf(w)
  BY <1>2, <1>3 DEF WritesOf
<1>13. QED  BY <1>10, <1>11, <1>12 DEF w, e

LEMMA OwnInit == Init => OwnInv /\ TypeInv
<1> SUFFICES ASSUME Init PROVE OwnInv
  BY TypeInit
<1>1. \A t \in Threads : thread[t].at = "idle"
  BY DEF Init, Idle
<1>2. \A c \in Conns : ~conn[c].open
  BY DEF Init, Closed
<1>3. QED  BY <1>1, <1>2, EmptyNumbered DEF Init, OwnInv, InStep, AcknowledgedIsDurable

\* A caller's step: only its own operation and connection have to be looked at.
LEMMA OwnFrame ==
  ASSUME OwnConnections, TypeInv, OwnInv, NEW t \in Threads, NEW d, NEW x,
         thread' = [thread EXCEPT ![t] = d], conn' = [conn EXCEPT ![ConnOf[t]] = x],
         db' # db \/ x.open => \A c \in Conns \ {ConnOf[t]} : ~conn[c].open,
         Numbered(db)', Extends(db', db), landed \subseteq landed', acked' \subseteq landed',
         x.open => Numbered(x.work) /\ Extends(x.work, db'),
         InStep(d, x, landed')
  PROVE  OwnInv' /\ Extends(db', db)
<1> DEFINE y == ConnOf[t]
<1>1. /\ y \in Conns /\ conn \in [Conns -> [open : BOOLEAN, work : Database]]
      /\ thread \in [Threads -> Operation]
  BY ConnectionAssumption DEF TypeInv, TypeOK
<1>2. \A c \in Conns : conn'[c] = IF c = y THEN x ELSE conn[c]
  BY <1>1
<1>3. \A u \in Threads : thread'[u] = IF u = t THEN d ELSE thread[u]
  BY <1>1
<1>4. \A u \in Threads : u # t => ConnOf[u] # y /\ ConnOf[u] \in Conns
  BY ConnectionAssumption DEF OwnConnections
<1>5. ASSUME NEW u \in Threads PROVE InStep(thread'[u], conn'[ConnOf[u]], landed')
  <2>1. CASE u = t
    BY <1>1, <1>2, <1>3, <2>1
  <2>2. CASE u # t
    <3>1. thread'[u] = thread[u] /\ conn'[ConnOf[u]] = conn[ConnOf[u]]
      BY <1>2, <1>3, <1>4, <2>2
    <3>2. InStep(thread[u], conn[ConnOf[u]], landed)
      BY DEF OwnInv
    <3>3. QED  BY <3>1, <3>2 DEF InStep
  <2>3. QED  BY <2>1, <2>2
<1> HIDE DEF y
<1>6. ASSUME NEW c \in Conns, conn'[c].open
      PROVE  Numbered(conn'[c].work) /\ Extends(conn'[c].work, db')
  <2>1. CASE c = y
    BY <1>2, <1>6, <2>1
  <2>2. CASE c # y
    <3>1. conn'[c] = conn[c] /\ db' = db
      BY <1>2, <1>6, <2>2 DEF y
    <3>2. QED  BY <1>6, <3>1 DEF OwnInv
  <2>3. QED  BY <2>1, <2>2
<1>7. \A c, e \in Conns : conn'[c].open /\ conn'[e].open => c = e
  <2>1. \A c, e \in Conns : conn[c].open /\ conn[e].open => c = e
    BY DEF OwnInv
  <2>2. x.open => \A c \in Conns \ {y} : ~conn[c].open
    BY DEF y
  <2>3. QED  BY <1>2, <2>1, <2>2
<1>8. QED  BY <1>5, <1>6, <1>7 DEF OwnInv, AcknowledgedIsDurable, Numbered

LEMMA OwnStep ==
  ASSUME OwnConnections, TypeInv, OwnInv, NEW t \in Threads, Step(t) \/ GiveUp(t)
  PROVE  OwnInv' /\ Extends(db', db)
<1> DEFINE c == thread[t]
           y == ConnOf[t]
           x == conn[y]
<1>1. /\ c \in Operation /\ y \in Conns /\ x \in [open : BOOLEAN, work : Database]
      /\ conn \in [Conns -> [open : BOOLEAN, work : Database]]
      /\ db \in Database /\ c.id \in Nat /\ c.key \in Keys
  BY ConnectionAssumption DEF TypeInv, TypeOK, Operation
<1>2. /\ InStep(c, x, landed) /\ Numbered(db) /\ acked \subseteq landed
      /\ x.open => Numbered(x.work) /\ Extends(x.work, db)
      /\ x.open => \A e \in Conns \ {y} : ~conn[e].open
  BY <1>1 DEF OwnInv, AcknowledgedIsDurable
<1>3. Extends(db, db) /\ conn = [conn EXCEPT ![y] = x]
  BY <1>1, ExtendsSelf
<1>4. InStep(Idle, Closed, landed) /\ InStep(Idle, x, landed) /\ ~Closed.open
  BY DEF InStep, Idle, Closed
<1>5. ASSUME NEW d, thread' = [thread EXCEPT ![t] = d], InStep(d, x, landed),
             UNCHANGED <<conn, db, landed, acked>>
      PROVE  OwnInv' /\ Extends(db', db)
  <2>1. conn' = [conn EXCEPT ![y] = x] /\ InStep(d, x, landed') /\ acked' \subseteq landed'
    BY <1>2, <1>3, <1>5
  <2>2. Numbered(db)' /\ Extends(db', db)
    BY <1>2, <1>3, <1>5 DEF Numbered
  <2> HIDE DEF c, x
  <2>3. QED  BY <1>2, <1>5, <2>1, <2>2, OwnFrame
<1>6. ASSUME NEW d, thread' = [thread EXCEPT ![t] = d], InStep(d, Closed, landed),
             Rollback(t), UNCHANGED acked
      PROVE  OwnInv' /\ Extends(db', db)
  <2>1. conn' = [conn EXCEPT ![y] = Closed] /\ UNCHANGED <<db, landed>>
    BY <1>6 DEF Rollback
  <2>2. QED  BY <1>2, <1>3, <1>4, <1>6, <2>1, OwnFrame DEF Numbered
<1>7. ASSUME NEW p \in {"begin", "select", "exists", "refuse", "insert", "undo", "commit"}
      PROVE  LET d == [c EXCEPT !.at = p] IN
             d.at = p /\ d.id = c.id /\ d.op = c.op /\ d.n = c.n
  BY <1>1 DEF Operation
<1>8. CASE Number(t)
  <2> DEFINE d == [c EXCEPT !.n = NextNumber(View(t)), !.at = "begin"]
  <2>1. d.at = "begin" /\ d.id = c.id /\ d.op = c.op /\ c.at = "number"
    BY <1>1, <1>8 DEF Operation, Number
  <2>2. InStep(d, x, landed)
    <3> HIDE DEF d, x
    <3> QED  BY <1>2, <2>1 DEF InStep
  <2>3. thread' = [thread EXCEPT ![t] = d] /\ UNCHANGED <<conn, db, landed, acked>>
    BY <1>8 DEF Number, Counters
  <2>4. QED
    <3> HIDE DEF d
    <3> QED  BY <1>5, <2>2, <2>3
<1>9. CASE BeginImmediate(t)
  <2>1. c.at = "begin" /\ UNCHANGED <<db, landed, acked>>
    BY <1>9 DEF BeginImmediate, Counters
  <2>2. CASE x.open
    <3> DEFINE d == [c EXCEPT !.at = "undo"]
    <3>1. InStep(d, x, landed)
      <4>1. d.at = "undo" /\ d.id = c.id
        BY <1>7
      <4> HIDE DEF d, x
      <4> QED  BY <1>2, <2>1, <4>1 DEF InStep
    <3>2. thread' = [thread EXCEPT ![t] = d] /\ UNCHANGED conn
      BY <1>9, <2>2 DEF BeginImmediate, Goto
    <3>3. QED
      <4> HIDE DEF d
      <4> QED  BY <1>5, <2>1, <3>1, <3>2
  <2>3. CASE ~x.open
    <3> DEFINE d == [c EXCEPT !.at = "select"]
               z == [open |-> TRUE, work |-> db]
    <3>1. InStep(d, z, landed)
      <4>1. d.at = "select" /\ d.id = c.id /\ d.op = c.op /\ z.open
        BY <1>7
      <4> HIDE DEF d, z, x
      <4> QED  BY <1>2, <2>1, <4>1 DEF InStep
    <3>2. thread' = [thread EXCEPT ![t] = d] /\ conn' = [conn EXCEPT ![y] = z]
          /\ \A e \in Conns \ {y} : ~conn[e].open
      BY <1>9, <2>3 DEF BeginImmediate, Goto, Locked
    <3>3. z.open /\ z.work = db
      OBVIOUS
    <3>4. QED
      <4> HIDE DEF d, z
      <4> QED  BY <1>2, <1>3, <2>1, <3>1, <3>2, <3>3, OwnFrame DEF Numbered
  <2>4. QED  BY <2>2, <2>3
<1>10. CASE Select(t)
  <2>1. c.at = "select" /\ x.open /\ c.op \in {"create", "append"} /\ c.id # 0
        /\ UNCHANGED <<conn, db, landed, acked>>
    BY <1>2, <1>10 DEF Select, Counters, InStep
  <2>2. View(t) = x.work
    BY <2>1 DEF View
  <2>3. PICK p \in {"exists", "refuse", "insert"} :
          Goto(t, p) /\ (p = "insert" /\ c.op # "create" => c.n = NextNumber(x.work))
    BY <1>10, <2>1, <2>2 DEF Select
  <2> DEFINE d == [c EXCEPT !.at = p]
  <2>4. d.at = p /\ d.id = c.id /\ d.op = c.op /\ d.n = c.n
    BY <1>7
  <2>5. InStep(d, x, landed)
    <3> HIDE DEF d, x
    <3> QED  BY <2>1, <2>3, <2>4 DEF InStep
  <2>6. thread' = [thread EXCEPT ![t] = d]
    BY <2>3 DEF Goto
  <2>7. QED
    <3> HIDE DEF d
    <3> QED  BY <1>5, <2>1, <2>5, <2>6
<1>11. CASE Exists(t) \/ Undo(t)
  BY <1>4, <1>6, <1>11 DEF Exists, Undo, Return
<1>12. CASE Refuse(t)
  <2> DEFINE d == [c EXCEPT !.at = "undo"]
  <2>1. d.at = "undo" /\ d.id = c.id /\ c.at = "refuse"
    BY <1>7, <1>12 DEF Refuse
  <2>2. InStep(d, Closed, landed)
    <3> HIDE DEF d, x
    <3> QED  BY <1>2, <2>1 DEF InStep
  <2>3. thread' = [thread EXCEPT ![t] = d] /\ Rollback(t) /\ UNCHANGED acked
    BY <1>12 DEF Refuse, Goto
  <2>4. QED
    <3> HIDE DEF d
    <3> QED  BY <1>6, <2>2, <2>3
<1>13. ASSUME NEW w, Numbered(w), Extends(w, x.work), c.id \in WritesOf(w), x.open, c.id # 0,
              Write(t, w), Goto(t, "commit"), UNCHANGED acked
       PROVE  OwnInv' /\ Extends(db', db)
  <2> DEFINE d == [c EXCEPT !.at = "commit"]
             z == [x EXCEPT !.work = w]
  <2>1. d.at = "commit" /\ d.id = c.id /\ z.open /\ z.work = w
    BY <1>1, <1>7, <1>13
  <2>2. InStep(d, z, landed)
    <3> HIDE DEF d, z, x, c
    <3> QED  BY <1>13, <2>1 DEF InStep
  <2>3. thread' = [thread EXCEPT ![t] = d] /\ conn' = [conn EXCEPT ![y] = z]
        /\ UNCHANGED <<db, landed>>
    BY <1>1, <1>13 DEF Write, Goto
  <2>4. Extends(w, db)
    BY <1>2, <1>13, ExtendsOn
  <2>5. QED
    <3> HIDE DEF d, z
    <3> QED  BY <1>2, <1>3, <1>13, <2>1, <2>2, <2>3, <2>4, OwnFrame DEF Numbered
<1>14. ASSUME NEW w, Numbered(w), Extends(w, db), c.id \in WritesOf(w), ~x.open, c.id # 0,
              Write(t, w), Goto(t, "commit"), UNCHANGED acked
       PROVE  OwnInv' /\ Extends(db', db)
  <2> DEFINE d == [c EXCEPT !.at = "commit"]
  <2>1. d.at = "commit" /\ d.id = c.id
    BY <1>7
  <2>2. /\ db' = w /\ landed' = landed \cup WritesOf(w) /\ conn' = [conn EXCEPT ![y] = x]
        /\ thread' = [thread EXCEPT ![t] = d] /\ \A e \in Conns \ {y} : ~conn[e].open
    BY <1>3, <1>14 DEF Write, Goto, Locked
  <2>3. InStep(d, x, landed')
    <3> HIDE DEF d, x, c
    <3> QED  BY <1>14, <2>1, <2>2 DEF InStep
  <2>4. Numbered(db)'
    BY <1>14, <2>2 DEF Numbered
  <2>5. QED
    <3> HIDE DEF d, x
    <3> QED  BY <1>2, <1>14, <2>2, <2>3, <2>4, OwnFrame
<1>15. CASE Insert(t)
  <2>1. /\ c.at = "insert" /\ x.open /\ c.op \in {"create", "append"} /\ c.id # 0
        /\ c.op # "create" => c.n = NextNumber(x.work)
        /\ UNCHANGED acked
    BY <1>2, <1>15 DEF Insert, InStep
  <2>2. View(t) = x.work /\ Numbered(x.work) /\ x.work \in Database
    BY <1>1, <1>2, <2>1 DEF View
  <2>3. CASE Write(t, Inserted(t, x.work)) /\ Goto(t, "commit")
    <3> DEFINE w == Inserted(t, x.work)
    <3>1. Numbered(w) /\ Extends(w, x.work) /\ c.id \in WritesOf(w)
      <4>1. CASE c.op = "create"
        BY <1>1, <2>1, <2>2, <4>1, RowWritten DEF Inserted
      <4>2. CASE c.op # "create"
        BY <1>1, <2>1, <2>2, <4>2, EventWritten DEF Inserted
      <4>3. QED  BY <4>1, <4>2
    <3>2. QED
      <4>1. Write(t, w)
        BY <2>3
      <4> HIDE DEF w
      <4>2. QED  BY <1>13, <2>1, <2>3, <3>1, <4>1
  <2>4. CASE Goto(t, "undo") /\ UNCHANGED <<db, conn, landed>>
    <3> DEFINE d == [c EXCEPT !.at = "undo"]
    <3>1. d.at = "undo" /\ d.id = c.id
      BY <1>7
    <3>2. InStep(d, x, landed)
      <4> HIDE DEF d, x
      <4> QED  BY <2>1, <3>1 DEF InStep
    <3>3. thread' = [thread EXCEPT ![t] = d]
      BY <2>4 DEF Goto
    <3>4. QED
      <4> HIDE DEF d
      <4> QED  BY <1>5, <2>1, <2>4, <3>2, <3>3
  <2>5. QED  BY <1>15, <2>2, <2>3, <2>4 DEF Insert
<1>16. CASE Update(t)
  <2>1. c.at = "update" /\ c.id # 0 /\ UNCHANGED acked
    BY <1>2, <1>16 DEF Update, InStep
  <2>2. View(t) \in Database /\ Numbered(View(t)) /\ View(t) = IF x.open THEN x.work ELSE db
    BY <1>1, <1>2 DEF View
  <2>3. CASE Return(t) /\ UNCHANGED <<db, conn, landed>>
    BY <1>4, <1>5, <2>1, <2>3 DEF Return
  <2>4. CASE Write(t, [View(t) EXCEPT !.rows[c.key] = c.id]) /\ Goto(t, "commit")
    <3> DEFINE w == [View(t) EXCEPT !.rows[c.key] = c.id]
    <3>1. Numbered(w) /\ Extends(w, View(t)) /\ c.id \in WritesOf(w)
      BY <1>1, <2>1, <2>2, RowWritten
    <3>2. Write(t, w)
      BY <2>4
    <3>3. QED
      <4> HIDE DEF w
      <4> QED  BY <1>13, <1>14, <2>1, <2>2, <2>4, <3>1, <3>2
  <2>5. QED  BY <1>16, <2>3, <2>4 DEF Update
<1>17. CASE Committed(t)
  <2>1. /\ c.at = "commit" /\ Commit(t) /\ thread' = [thread EXCEPT ![t] = Idle]
        /\ acked' = acked \cup {c.id}
    BY <1>17 DEF Committed, Return
  <2>2. CASE x.open
    <3>1. /\ db' = x.work /\ landed' = landed \cup WritesOf(x.work)
          /\ conn' = [conn EXCEPT ![y] = Closed] /\ c.id \in WritesOf(x.work)
      BY <1>2, <2>1, <2>2 DEF Commit, InStep
    <3>2. Numbered(db)' /\ Extends(db', db) /\ acked' \subseteq landed'
      BY <1>2, <2>1, <2>2, <3>1 DEF Numbered
    <3>3. InStep(Idle, Closed, landed')
      BY DEF InStep, Idle
    <3>4. QED
      <4> HIDE DEF x
      <4> QED  BY <1>2, <1>4, <2>1, <2>2, <3>1, <3>2, <3>3, OwnFrame
  <2>3. CASE ~x.open
    <3>1. UNCHANGED <<conn, db, landed>> /\ c.id \in landed
      BY <1>2, <2>1, <2>3 DEF Commit, InStep
    <3>2. acked' \subseteq landed' /\ conn' = [conn EXCEPT ![y] = x]
      BY <1>2, <1>3, <2>1, <3>1
    <3>3. QED
      <4> HIDE DEF x
      <4> QED  BY <1>2, <1>3, <1>4, <2>1, <2>3, <3>1, <3>2, OwnFrame DEF Numbered
  <2>4. QED  BY <2>2, <2>3
<1>18. CASE GiveUp(t)
  <2>1. c.at \in {"begin", "insert", "update"} /\ UNCHANGED <<conn, db, landed, acked>>
    BY <1>18 DEF GiveUp, Counters
  <2>2. CASE Return(t)
    BY <1>4, <1>5, <2>1, <2>2 DEF Return
  <2>3. CASE Goto(t, "undo")
    <3> DEFINE d == [c EXCEPT !.at = "undo"]
    <3>1. d.at = "undo" /\ d.id = c.id
      BY <1>7
    <3>2. InStep(d, x, landed)
      <4> HIDE DEF d, x
      <4> QED  BY <1>2, <2>1, <3>1 DEF InStep
    <3>3. thread' = [thread EXCEPT ![t] = d]
      BY <2>3 DEF Goto
    <3>4. QED
      <4> HIDE DEF d
      <4> QED  BY <1>5, <2>1, <3>2, <3>3
  <2>4. QED  BY <1>18, <2>2, <2>3 DEF GiveUp
<1>19. QED
  BY <1>8, <1>9, <1>10, <1>11, <1>12, <1>15, <1>16, <1>17, <1>18 DEF Step

LEMMA OwnNext ==
  ASSUME OwnConnections, TypeInv, OwnInv, [Next]_vars
  PROVE  OwnInv' /\ Extends(db', db)
<1>1. ASSUME NEW t \in Threads, NEW k \in Keys, NEW op, NEW first, Invoke(t, op, k, first),
             (first \in {"number", "begin"} /\ op \in {"create", "append"}) \/ first = "update"
      PROVE  OwnInv' /\ Extends(db', db)
  <2> DEFINE d == [op |-> op, at |-> first, id |-> ops + 1, key |-> k, n |-> 0]
             x == conn[ConnOf[t]]
  <2>1. d.op = op /\ d.at = first /\ d.id # 0
    BY DEF TypeInv, TypeOK
  <2>2. thread' = [thread EXCEPT ![t] = d] /\ UNCHANGED <<db, conn, landed, acked>>
    BY <1>1 DEF Invoke
  <2>3. InStep(d, x, landed)
    <3> HIDE DEF d, x
    <3> QED  BY <1>1, <2>1 DEF InStep
  <2>4. ConnOf[t] \in Conns /\ conn' = [conn EXCEPT ![ConnOf[t]] = x]
    BY <2>2, ConnectionAssumption DEF TypeInv, TypeOK
  <2>5. x.open => /\ Numbered(x.work) /\ Extends(x.work, db)
                  /\ \A e \in Conns \ {ConnOf[t]} : ~conn[e].open
    BY <2>4 DEF OwnInv
  <2>6. Numbered(db) /\ Extends(db, db) /\ acked \subseteq landed
    BY ExtendsSelf DEF OwnInv, AcknowledgedIsDurable
  <2>7. QED
    <3> HIDE DEF d, x
    <3> QED  BY <2>2, <2>3, <2>4, <2>5, <2>6, OwnFrame DEF Numbered
<1>2. ASSUME NEW c \in Conns, Kill(c) PROVE OwnInv' /\ Extends(db', db)
  <2>1. UNCHANGED <<db, landed, acked>> /\ Extends(db', db)
    BY <1>2, ExtendsSelf DEF Kill
  <2>2. \A d \in Conns : conn'[d] = IF d = c THEN Closed ELSE conn[d]
    BY <1>2 DEF Kill, TypeInv, TypeOK
  <2>3. ~Closed.open
    BY DEF Closed
  <2>4. ASSUME NEW t \in Threads PROVE InStep(thread'[t], conn'[ConnOf[t]], landed)
    <3>1. CASE ConnOf[t] = c
      BY <1>2, <3>1 DEF Kill, InStep, Idle
    <3>2. CASE ConnOf[t] # c
      <4>1. thread'[t] = thread[t] /\ conn'[ConnOf[t]] = conn[ConnOf[t]]
        BY <1>2, <2>2, <3>2, ConnectionAssumption DEF Kill
      <4>2. QED  BY <4>1 DEF OwnInv
    <3>3. QED  BY <3>1, <3>2
  <2>5. QED  BY <2>1, <2>2, <2>3, <2>4 DEF OwnInv, AcknowledgedIsDurable, Numbered
<1>3. CASE UNCHANGED vars
  BY <1>3, ExtendsSelf DEF vars, OwnInv, AcknowledgedIsDurable, Numbered
<1>4. QED  BY <1>1, <1>2, <1>3, OwnStep DEF Next

\* Processes with a connection each: a transaction is its operation's own, and the
\* only one open (BEGIN IMMEDIATE in create_workflow and append_event).
THEOREM OwnHolds == OwnConnections /\ Spec => []OwnInv
<1> SUFFICES ASSUME OwnConnections PROVE Spec => []OwnInv
  OBVIOUS
<1>1. TypeInv /\ OwnInv /\ [Next]_vars => OwnInv'
  BY OwnNext
<1>2. QED  BY <1>1, OwnInit, TypeNext, PTL DEF Spec

\* An operation of a process that returned has its write in the database, whatever
\* the other processes do and whenever one is killed.
THEOREM AcknowledgedKept == OwnConnections /\ Spec => []AcknowledgedIsDurable
<1>1. OwnInv => AcknowledgedIsDurable
  BY DEF OwnInv
<1>2. QED  BY <1>1, OwnHolds, PTL

-------------------------------------------------------------------------------
(* Whose events the stream holds.                                           *)

\* The events in sight of a caller: those of operations that came to their commit,
\* and in an open transaction the one of the caller, once it is inserted.
Rightful(c, x, done) ==
  /\ c.op = "none" => c.at = "idle"
  /\ x.open => \A e \in x.work.log : e.id \in done \/ (c.at = "commit" /\ e.id = c.id)

\* The inductive invariant.
OriginInv ==
  /\ \A e \in db.log : e.id \in acked
  /\ \A t \in Threads : Rightful(thread[t], conn[ConnOf[t]], acked)

\* A caller's step: only its own operation and connection have to be looked at.
LEMMA OriginFrame ==
  ASSUME OwnConnections, TypeInv, OriginInv, NEW t \in Threads, NEW d, NEW x,
         thread' = [thread EXCEPT ![t] = d], conn' = [conn EXCEPT ![ConnOf[t]] = x],
         acked \subseteq acked', \A e \in db'.log : e.id \in acked',
         Rightful(d, x, acked')
  PROVE  OriginInv'
<1>1. /\ ConnOf \in [Threads -> Conns] /\ thread \in [Threads -> Operation]
      /\ conn \in [Conns -> [open : BOOLEAN, work : Database]]
  BY ConnectionAssumption DEF TypeInv, TypeOK
<1>2. ASSUME NEW u \in Threads PROVE Rightful(thread'[u], conn'[ConnOf[u]], acked')
  <2>1. CASE u = t
    BY <1>1, <2>1
  <2>2. CASE u # t
    <3>1. thread'[u] = thread[u] /\ conn'[ConnOf[u]] = conn[ConnOf[u]]
      BY <1>1, <2>2 DEF OwnConnections
    <3>2. Rightful(thread[u], conn[ConnOf[u]], acked)
      BY DEF OriginInv
    <3>3. QED  BY <3>1, <3>2 DEF Rightful
  <2>3. QED  BY <2>1, <2>2
<1>3. QED  BY <1>2 DEF OriginInv

\* Every statement of a caller with a connection of its own keeps it.
LEMMA OriginStep ==
  ASSUME OwnConnections, TypeInv, OwnInv, OriginInv, NEW t \in Threads, Step(t) \/ GiveUp(t)
  PROVE  OriginInv'
<1> DEFINE c == thread[t]
           y == ConnOf[t]
           x == conn[y]
<1>1. /\ c \in Operation /\ y \in Conns /\ x \in [open : BOOLEAN, work : Database]
      /\ conn = [conn EXCEPT ![y] = x] /\ db \in Database
  BY ConnectionAssumption DEF TypeInv, TypeOK
<1>2. Rightful(c, x, acked) /\ InStep(c, x, landed) /\ \A e \in db.log : e.id \in acked
  BY DEF OwnInv, OriginInv
<1>3. Idle.op = "none" /\ Idle.at = "idle" /\ Closed.open = FALSE
  BY DEF Idle, Closed
\* The transaction stays as it is, and the operation goes on or returns.
<1>4. ASSUME NEW d, thread' = [thread EXCEPT ![t] = d], UNCHANGED <<conn, db, acked>>,
             c.at # "commit", d.op = "none" => d.at = "idle"
      PROVE  OriginInv'
  <2>1. Rightful(d, x, acked)
    <3> HIDE DEF c, x
    <3> QED  BY <1>2, <1>4 DEF Rightful
  <2>2. conn' = [conn EXCEPT ![y] = x]
    BY <1>1, <1>4
  <2>3. Rightful(d, x, acked') /\ acked \subseteq acked' /\ \A e \in db'.log : e.id \in acked'
    BY <1>2, <1>4, <2>1
  <2>4. thread' = [thread EXCEPT ![t] = d]
    BY <1>4
  <2> HIDE DEF c, x
  <2>5. QED  BY <2>2, <2>3, <2>4, OriginFrame
\* The transaction is rolled back.
<1>5. ASSUME NEW d, thread' = [thread EXCEPT ![t] = d], Rollback(t), UNCHANGED acked,
             d.op = "none" => d.at = "idle"
      PROVE  OriginInv'
  <2>1. conn' = [conn EXCEPT ![y] = Closed] /\ db' = db /\ Rightful(d, Closed, acked)
    BY <1>3, <1>5 DEF Rollback, Rightful
  <2>2. QED  BY <1>2, <1>5, <2>1, OriginFrame
<1>6. ASSUME NEW p \in {"begin", "select", "exists", "refuse", "insert", "undo", "commit"},
             c.at # "idle"
      PROVE  LET d == [c EXCEPT !.at = p] IN
             d.at = p /\ d.id = c.id /\ d.op = c.op /\ d.op # "none"
  BY <1>1, <1>2, <1>6 DEF Operation, Rightful
<1>7. CASE Number(t)
  <2> DEFINE d == [c EXCEPT !.n = NextNumber(View(t)), !.at = "begin"]
  <2>1. d.op = c.op /\ c.at = "number" /\ c.op # "none"
    BY <1>1, <1>2, <1>7 DEF Operation, Number, Rightful
  <2>2. thread' = [thread EXCEPT ![t] = d] /\ UNCHANGED <<conn, db, acked>>
    BY <1>7 DEF Number, Counters
  <2>3. QED
    <3> HIDE DEF d
    <3> QED  BY <1>4, <2>1, <2>2
<1>8. CASE BeginImmediate(t)
  <2>1. c.at = "begin" /\ UNCHANGED <<db, acked>>
    BY <1>8 DEF BeginImmediate, Counters
  <2>2. CASE x.open
    <3>1. thread' = [thread EXCEPT ![t] = [c EXCEPT !.at = "undo"]] /\ UNCHANGED conn
      BY <1>8, <2>2 DEF BeginImmediate, Goto
    <3>2. QED  BY <1>4, <1>6, <2>1, <3>1
  <2>3. CASE ~x.open
    <3> DEFINE d == [c EXCEPT !.at = "select"]
               z == [open |-> TRUE, work |-> db]
    <3>1. thread' = [thread EXCEPT ![t] = d] /\ conn' = [conn EXCEPT ![y] = z]
      BY <1>8, <2>3 DEF BeginImmediate, Goto
    <3>2. d.op # "none" /\ z.work = db
      BY <1>6, <2>1
    <3>3. Rightful(d, z, acked)
      <4> HIDE DEF d, z
      <4> QED  BY <1>2, <3>2 DEF Rightful
    <3>4. QED
      <4> HIDE DEF d, z
      <4> QED  BY <1>2, <2>1, <3>1, <3>3, OriginFrame
  <2>4. QED  BY <2>2, <2>3
<1>9. CASE Select(t)
  <2>1. c.at = "select" /\ UNCHANGED <<conn, db, acked>>
    BY <1>9 DEF Select, Counters
  <2>2. PICK p \in {"exists", "refuse", "insert"} : Goto(t, p)
    BY <1>9 DEF Select
  <2>3. thread' = [thread EXCEPT ![t] = [c EXCEPT !.at = p]]
    BY <2>2 DEF Goto
  <2>4. QED  BY <1>4, <1>6, <2>1, <2>3
<1>10. CASE Exists(t) \/ Undo(t)
  BY <1>3, <1>5, <1>10 DEF Exists, Undo, Return
<1>11. CASE Refuse(t)
  <2>1. c.at = "refuse" /\ thread' = [thread EXCEPT ![t] = [c EXCEPT !.at = "undo"]]
        /\ Rollback(t) /\ UNCHANGED acked
    BY <1>11 DEF Refuse, Goto
  <2>2. QED  BY <1>5, <1>6, <2>1
\* A statement adds nothing to what the caller sees but the event of its operation.
<1>12. ASSUME NEW w, c.at \in {"insert", "update"}, Write(t, w), Goto(t, "commit"),
              UNCHANGED acked,
              \A e \in w.log : e \in View(t).log \/ (x.open /\ e.id = c.id)
       PROVE  OriginInv'
  <2> DEFINE d == [c EXCEPT !.at = "commit"]
  <2>1. d.at = "commit" /\ d.id = c.id /\ d.op # "none"
        /\ thread' = [thread EXCEPT ![t] = d]
    BY <1>6, <1>12 DEF Goto
  <2> HIDE DEF d
  <2>2. CASE x.open
    <3> DEFINE z == [x EXCEPT !.work = w]
    <3>1. /\ z.open /\ z.work = w /\ conn' = [conn EXCEPT ![y] = z] /\ db' = db
          /\ View(t) = x.work
      BY <1>1, <1>12, <2>2 DEF Write, View
    <3> HIDE DEF z
    <3>2. Rightful(d, z, acked)
      <4>1. \A e \in x.work.log : e.id \in acked
        BY <1>2, <1>12, <2>2 DEF Rightful
      <4>2. \A e \in w.log : e.id \in acked \/ e.id = c.id
        BY <1>12, <3>1, <4>1
      <4> HIDE DEF c
      <4>3. QED  BY <2>1, <3>1, <4>2 DEF Rightful
    <3>3. QED  BY <1>2, <1>12, <2>1, <3>1, <3>2, OriginFrame
  <2>3. CASE ~x.open
    <3>1. db' = w /\ conn' = [conn EXCEPT ![y] = x] /\ View(t) = db
      BY <1>1, <1>12, <2>3 DEF Write, View
    <3>2. \A e \in db'.log : e.id \in acked
      BY <1>2, <1>12, <2>3, <3>1
    <3>3. Rightful(d, x, acked)
      <4> HIDE DEF x
      <4> QED  BY <2>1, <2>3 DEF Rightful
    <3>4. QED
      <4> HIDE DEF x
      <4> QED  BY <1>12, <2>1, <3>1, <3>2, <3>3, OriginFrame
  <2>4. QED  BY <2>2, <2>3
<1>13. CASE Insert(t)
  <2>1. c.at = "insert" /\ x.open /\ UNCHANGED acked /\ View(t) = x.work
    BY <1>2, <1>13 DEF Insert, InStep, View
  <2>2. CASE Write(t, Inserted(t, View(t))) /\ Goto(t, "commit")
    <3> DEFINE w == Inserted(t, View(t))
    <3>1. \A e \in w.log : e \in View(t).log \/ e.id = c.id
      BY <1>1, <2>1 DEF Inserted, Database
    <3>2. Write(t, w)
      BY <2>2
    <3> HIDE DEF w
    <3>3. QED  BY <1>12, <2>1, <2>2, <3>1, <3>2
  <2>3. CASE Goto(t, "undo") /\ UNCHANGED <<db, conn, landed>>
    <3>1. thread' = [thread EXCEPT ![t] = [c EXCEPT !.at = "undo"]]
      BY <2>3 DEF Goto
    <3>2. QED  BY <1>4, <1>6, <2>1, <2>3, <3>1
  <2>4. QED  BY <1>13, <2>2, <2>3 DEF Insert
<1>14. CASE Update(t)
  <2>1. c.at = "update" /\ UNCHANGED acked
    BY <1>14 DEF Update
  <2>2. CASE Return(t) /\ UNCHANGED <<db, conn, landed>>
    BY <1>3, <1>4, <2>1, <2>2 DEF Return
  <2>3. CASE Write(t, [View(t) EXCEPT !.rows[c.key] = c.id]) /\ Goto(t, "commit")
    <3> DEFINE w == [View(t) EXCEPT !.rows[c.key] = c.id]
    <3>1. w.log = View(t).log
      BY <1>1 DEF View, Database
    <3>2. Write(t, w)
      BY <2>3
    <3> HIDE DEF w
    <3>3. QED  BY <1>12, <2>1, <2>3, <3>1, <3>2
  <2>4. QED  BY <1>14, <2>2, <2>3 DEF Update
<1>15. CASE Committed(t)
  <2>1. /\ c.at = "commit" /\ Commit(t) /\ thread' = [thread EXCEPT ![t] = Idle]
        /\ acked' = acked \cup {c.id}
    BY <1>15 DEF Committed, Return
  <2>2. CASE x.open
    <3>1. db' = x.work /\ conn' = [conn EXCEPT ![y] = Closed]
      BY <2>1, <2>2 DEF Commit
    <3>2. \A e \in db'.log : e.id \in acked'
      BY <1>2, <2>1, <2>2, <3>1 DEF Rightful
    <3>3. Rightful(Idle, Closed, acked') /\ acked \subseteq acked'
      BY <1>3, <2>1 DEF Rightful
    <3>4. QED  BY <2>1, <3>1, <3>2, <3>3, OriginFrame
  <2>3. CASE ~x.open
    <3>1. db' = db /\ conn' = [conn EXCEPT ![y] = x] /\ acked \subseteq acked'
      BY <1>1, <2>1, <2>3 DEF Commit
    <3>2. Rightful(Idle, x, acked')
      BY <1>3, <2>3 DEF Rightful
    <3>3. QED
      <4> HIDE DEF x
      <4> QED  BY <1>2, <2>1, <3>1, <3>2, OriginFrame
  <2>4. QED  BY <2>2, <2>3
<1>16. CASE GiveUp(t)
  <2>1. c.at \in {"begin", "insert", "update"} /\ UNCHANGED <<db, conn, acked>>
    BY <1>16 DEF GiveUp, Counters
  <2>2. CASE Return(t)
    BY <1>3, <1>4, <2>1, <2>2 DEF Return
  <2>3. CASE Goto(t, "undo")
    <3>1. thread' = [thread EXCEPT ![t] = [c EXCEPT !.at = "undo"]]
      BY <2>3 DEF Goto
    <3>2. QED  BY <1>4, <1>6, <2>1, <3>1
  <2>4. QED  BY <1>16, <2>2, <2>3 DEF GiveUp
<1>17. QED
  BY <1>7, <1>8, <1>9, <1>10, <1>11, <1>13, <1>14, <1>15, <1>16 DEF Step

\* So do a new operation, and a process that is killed: its transaction is gone.
LEMMA OriginNext ==
  ASSUME OwnConnections, TypeInv, OwnInv, OriginInv, [Next]_vars
  PROVE  OriginInv'
<1>1. ASSUME NEW t \in Threads, NEW k \in Keys, NEW op, NEW first, Invoke(t, op, k, first),
             op # "none"
      PROVE  OriginInv'
  <2> DEFINE d == [op |-> op, at |-> first, id |-> ops + 1, key |-> k, n |-> 0]
             x == conn[ConnOf[t]]
  <2>1. d.op = op /\ thread' = [thread EXCEPT ![t] = d] /\ UNCHANGED <<db, conn, acked>>
        /\ conn' = [conn EXCEPT ![ConnOf[t]] = x]
    BY <1>1, ConnectionAssumption DEF Invoke, TypeInv, TypeOK
  <2>2. Rightful(thread[t], x, acked) /\ thread[t].op = "none"
        /\ \A e \in db.log : e.id \in acked
    BY <1>1 DEF OriginInv, Invoke
  <2> HIDE DEF d, x
  <2>3. Rightful(d, x, acked)
    BY <1>1, <2>1, <2>2 DEF Rightful
  <2>4. QED  BY <2>1, <2>2, <2>3, OriginFrame
<1>2. ASSUME NEW c \in Conns, Kill(c) PROVE OriginInv'
  <2>1. UNCHANGED <<db, acked>> /\ Closed.open = FALSE /\ Idle.at = "idle"
    BY <1>2 DEF Kill, Closed, Idle
  <2>2. ASSUME NEW t \in Threads PROVE Rightful(thread'[t], conn'[ConnOf[t]], acked)
    <3>1. CASE ConnOf[t] = c
      <4>1. thread'[t] = Idle /\ conn'[ConnOf[t]] = Closed
        BY <1>2, <3>1 DEF Kill, TypeInv, TypeOK
      <4>2. QED  BY <2>1, <4>1 DEF Rightful
    <3>2. CASE ConnOf[t] # c
      <4>1. thread'[t] = thread[t] /\ conn'[ConnOf[t]] = conn[ConnOf[t]]
        BY <1>2, <3>2, ConnectionAssumption DEF Kill, TypeInv, TypeOK
      <4>2. QED  BY <4>1 DEF OriginInv
    <3>3. QED  BY <3>1, <3>2
  <2>3. QED  BY <2>1, <2>2 DEF OriginInv
<1>3. CASE UNCHANGED vars
  BY <1>3 DEF vars, OriginInv
<1>4. QED  BY <1>1, <1>2, <1>3, OriginStep DEF Next

\* The stream of a workflow is numbered 1, 2, ... although callers read the next
\* number before their transaction begins (Engine._emit_event), and an operation that
\* was refused, gave up or was killed has no event in it (append_event's ROLLBACKs).
THEOREM StreamNumbered == OwnConnections /\ Spec => []StreamWellNumbered
<1> SUFFICES ASSUME OwnConnections PROVE Spec => []StreamWellNumbered
  OBVIOUS
<1>1. Init => OriginInv
  BY ConnectionAssumption DEF Init, OriginInv, Rightful, Empty, Closed, Idle
<1>2. TypeInv /\ OwnInv /\ OriginInv /\ [Next]_vars => OriginInv'
  BY OriginNext
<1>3. OwnInv /\ OriginInv => StreamWellNumbered
  BY DEF OwnInv, OriginInv, Numbered, StreamWellNumbered
<1>4. QED  BY <1>1, <1>2, <1>3, OwnHolds, TypeInit, TypeNext, PTL DEF Spec

\* No commit takes an event or the row of a workflow away that another process
\* committed: a transaction starts from the database and excludes other writers.
THEOREM CommittedStays == OwnConnections /\ Spec => NothingLost
<1> SUFFICES ASSUME OwnConnections PROVE Spec => NothingLost
  OBVIOUS
<1>1. TypeInv /\ OwnInv /\ [Next]_vars => [Extends(db', db)]_vars
  BY OwnNext
<1>2. []TypeInv /\ []OwnInv /\ [][Next]_vars => NothingLost
  BY <1>1, PTL DEF NothingLost
<1>3. QED  BY <1>2, OwnHolds, TypeInit, TypeNext, PTL DEF Spec
===============================================================================
