------------------------------- MODULE AuditTrail -------------------------------
(***************************************************************************)
(* The hash-chained audit trail of security/audit.py, and the way the      *)
(* engine and the kill switch append to it.                                *)
(*                                                                         *)
(* A record names its predecessor by hash.  append reads the tip, compares *)
(* it with the predecessor the record names, and inserts: three accesses   *)
(* to the database, of which only the insert is a transaction.  The engine *)
(* remembers the tip it wrote last, so that its first guess may be stale;  *)
(* every caller re-reads the tip once after a refused append.  A record's  *)
(* hash is its place in insertion order here, and 0 is the hash None.      *)
(***************************************************************************)
EXTENDS Naturals, Sequences

CONSTANTS
  Writers,       \* threads and scripts that append records
  Hosts,         \* processes with an Engine, and with its remembered tip
  HostOf,        \* writer -> its host; a writer outside the domain has no engine
  Scopes,        \* what a record is about: a tenant, or the whole platform
  MaxFaults      \* bound: database accesses that fail

ASSUME TrailAssumption ==
  /\ DOMAIN HostOf \subseteq Writers
  /\ \A w \in DOMAIN HostOf : HostOf[w] \in Hosts
  /\ MaxFaults \in Nat

VARIABLES
  chain,         \* the audit table in insertion order
  memory,        \* host -> the tip its engine remembers, once loaded
  writer,        \* writer -> the append it is in
  lost,          \* what and scope of the records that were never written
  faults

trailVars == <<chain, memory, writer, lost, faults>>

Whats == {"engaged", "released", "denied", "acted"}

NoAppend == [at |-> "idle", what |-> "acted", scope |-> CHOOSE s \in Scopes : TRUE,
             prev |-> 0, again |-> FALSE, overtaken |-> FALSE]

TrailInit ==
  /\ chain = <<>>
  /\ memory = [h \in Hosts |-> [loaded |-> FALSE, tip |-> 0]]
  /\ writer = [w \in Writers |-> NoAppend]
  /\ lost = {}
  /\ faults = 0

Appending(w, what, s) == [NoAppend EXCEPT !.at = "tip", !.what = what, !.scope = s]

\* Mutant of Tip: the place before the last record.
TipBehind == Len(chain) - 1

Tip == Len(chain)

About(w) == [what |-> writer[w].what, scope |-> writer[w].scope]

Remembers(w) == w \in DOMAIN HostOf /\ memory[HostOf[w]].loaded

\* Engine._chain_tip, or last_hash for a writer without an engine; the engine's
\* first read and the note it makes of it are one step.
ReadTip(w) ==
  /\ writer[w].at = "tip"
  /\ writer' = [writer EXCEPT ![w].at = "check",
                  ![w].prev = IF Remembers(w) THEN memory[HostOf[w]].tip ELSE Tip]
  /\ memory' = [h \in Hosts |-> IF w \in DOMAIN HostOf /\ h = HostOf[w] /\ ~Remembers(w)
                                THEN [loaded |-> TRUE, tip |-> Tip] ELSE memory[h]]
  /\ UNCHANGED <<chain, lost, faults>>

\* Mutant of CheckPrevious: the predecessor is not compared with the tip.
Unchecked(w) ==
  /\ writer[w].at = "check"
  /\ writer' = [writer EXCEPT ![w].at = "insert", ![w].overtaken = FALSE]
  /\ UNCHANGED <<chain, memory, lost, faults>>

\* append's comparison, made before its transaction begins; the caller's
\* except ValueError reads the tip again, once.
CheckPrevious(w) ==
  LET a == writer[w] IN
  /\ a.at = "check"
  /\ \/ /\ a.prev = Tip
        /\ writer' = [writer EXCEPT ![w].at = "insert", ![w].overtaken = FALSE]
        /\ UNCHANGED lost
     \/ /\ a.prev # Tip /\ ~a.again
        /\ writer' = [writer EXCEPT ![w].at = "again", ![w].overtaken = FALSE]
        /\ UNCHANGED lost
     \/ /\ a.prev # Tip /\ a.again
        /\ writer' = [writer EXCEPT ![w].at = "lost"]
        /\ lost' = lost \cup {About(w)}
  /\ UNCHANGED <<chain, memory, faults>>

ReadTipAgain(w) ==
  /\ writer[w].at = "again"
  /\ writer' = [writer EXCEPT ![w].at = "check", ![w].prev = Tip, ![w].again = TRUE]
  /\ UNCHANGED <<chain, memory, lost, faults>>

\* The insert itself compares nothing: an append past its check goes through.
\* The appends it overtakes are marked.
Insert(w) ==
  LET a == writer[w] IN
  /\ a.at = "insert"
  /\ chain' = Append(chain, [what |-> a.what, scope |-> a.scope, prev |-> a.prev,
                             overtaken |-> a.overtaken])
  /\ writer' = [v \in Writers |->
                  IF v = w THEN [a EXCEPT !.prev = Tip + 1,
                                          !.at = IF w \in DOMAIN HostOf THEN "note"
                                                 ELSE "written"]
                  ELSE [writer[v] EXCEPT !.overtaken =
                          @ \/ writer[v].at \in {"check", "insert"}]]
  /\ UNCHANGED <<memory, lost, faults>>

\* The engine notes the hash it appended, in whatever order its threads get here.
NoteTip(w) ==
  /\ writer[w].at = "note"
  /\ memory' = [memory EXCEPT ![HostOf[w]].tip = writer[w].prev]
  /\ writer' = [writer EXCEPT ![w].at = "written"]
  /\ UNCHANGED <<chain, lost, faults>>

\* A locked or failing database: only a ValueError is tried again.
AppendFails(w) ==
  /\ writer[w].at \in {"tip", "check", "again", "insert"} /\ faults < MaxFaults
  /\ faults' = faults + 1
  /\ writer' = [writer EXCEPT ![w].at = "lost"]
  /\ lost' = lost \cup {About(w)}
  /\ UNCHANGED <<chain, memory>>

AppendStep(w) ==
  \/ ReadTip(w) \/ CheckPrevious(w) \/ ReadTipAgain(w)
  \/ Insert(w) \/ NoteTip(w) \/ AppendFails(w)
-------------------------------------------------------------------------------
TrailRecord == [what : Whats, scope : Scopes, prev : Nat, overtaken : BOOLEAN]

AppendState ==
  [at : {"idle", "tip", "check", "again", "insert", "note", "written", "lost"},
   what : Whats, scope : Scopes, prev : Nat, again : BOOLEAN, overtaken : BOOLEAN]

TrailTypeOK ==
  /\ chain \in Seq(TrailRecord)
  /\ memory \in [Hosts -> [loaded : BOOLEAN, tip : Nat]]
  /\ writer \in [Writers -> AppendState]
  /\ lost \subseteq [what : Whats, scope : Scopes]
  /\ faults \in Nat

\* The chain breaks only at a record that was overtaken between its check and
\* its insert: remembered tips, however stale, and retries never break it.
BreaksOnlyWhenOvertaken ==
  \A i \in DOMAIN chain : chain[i].prev # i - 1 => chain[i].overtaken

\* Without a fault an append gives up only when another one overtook it: a stale
\* remembered tip alone never costs a record (the second try of Engine._audit).
LostOnlyWhenOvertaken ==
  faults = 0 => \A w \in Writers : writer[w].at = "lost" => writer[w].overtaken

\* Without being overtaken by another append, an append breaks no chain and, but
\* for a fault, loses no record.
HarmedOnlyWhenOvertaken == BreaksOnlyWhenOvertaken /\ LostOnlyWhenOvertaken
===============================================================================
