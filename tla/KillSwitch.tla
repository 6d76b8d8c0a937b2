------------------------------- MODULE KillSwitch -------------------------------
(***************************************************************************)
(* The emergency stop of control_plane/kill_switch.py: a persisted row per *)
(* halted scope (the platform, or one tenant), set and lifted by operators *)
(* and read by Engine._enforce_not_halted before every committal call.     *)
(*                                                                         *)
(* engage records, then sets the row; release deletes the row, then        *)
(* records; a call reads the row of the platform and then the row of its   *)
(* tenant.  Every access is a transaction of its own, so operators and     *)
(* calls interleave between any two of them, a process may die there, and  *)
(* any access may fail and raise.                                          *)
(***************************************************************************)
EXTENDS AuditTrail

CONSTANTS
  Global,        \* the scope "*": the whole platform
  Operators,     \* writers that engage and release
  Callers,       \* writers that make committal calls
  MaxOps,        \* bound: operations and calls begun in a behaviour
  MaxCrashes     \* bound: processes that die

ASSUME SwitchAssumption ==
  /\ Global \in Scopes /\ Operators \subseteq Writers /\ Callers \subseteq Writers
  /\ MaxOps \in Nat /\ MaxCrashes \in Nat

VARIABLES
  halt,          \* halt_state: the scopes with a row
  op,            \* writer -> the operation or call it is in
  off,           \* caller -> scopes seen without a row since its call began
  covered,       \* caller -> its tenant was halted at some time since then
  unset,         \* scopes whose last engagement has its record, but failed to set the row
  ops, crashes

vars == <<trailVars, halt, op, off, covered, unset, ops, crashes>>

NoOp == [kind |-> "none", scope |-> Global, blind |-> FALSE]

Tenants == Scopes \ {Global}

Halts(h, tenant) == {Global, tenant} \cap h # {}

InCheck(w) == op[w].kind \in {"global", "tenant"}

Init ==
  /\ TrailInit
  /\ halt = {}
  /\ op = [w \in Writers |-> NoOp]
  /\ off = [c \in Callers |-> {}]
  /\ covered = [c \in Callers |-> FALSE]
  /\ unset = {}
  /\ ops = 0 /\ crashes = 0

Begin(w, kind, s) ==
  /\ op[w].kind = "none" /\ ops < MaxOps
  /\ op' = [op EXCEPT ![w] = [NoOp EXCEPT !.kind = kind, !.scope = s]]
  /\ ops' = ops + 1

StartRecord(w, what, s) ==
  /\ writer' = [writer EXCEPT ![w] = Appending(w, what, s)]
  /\ UNCHANGED <<chain, memory, lost, faults>>

\* What the calls being checked could have seen once the rows are h.
Watch(h) ==
  /\ off' = [c \in Callers |-> IF InCheck(c) THEN off[c] \cup (Scopes \ h) ELSE off[c]]
  /\ covered' = [c \in Callers |-> covered[c] \/ (InCheck(c) /\ Halts(h, op[c].scope))]

Unwatched == UNCHANGED <<off, covered>>

Ends(w) ==
  /\ op' = [op EXCEPT ![w] = NoOp]
  /\ writer' = [writer EXCEPT ![w] = NoAppend]
  /\ UNCHANGED <<chain, memory, lost, ops, crashes>>

Done(w) == Ends(w) /\ UNCHANGED faults
-------------------------------------------------------------------------------
(* Operators.                                                              *)

Engage(w, s) ==
  /\ Begin(w, "engage", s) /\ StartRecord(w, "engaged", s)
  /\ UNCHANGED halt /\ Unwatched
  /\ UNCHANGED <<unset, crashes>>

\* Mutant of SetHalt: an engagement for one tenant halts the platform.
SetGlobal(w) ==
  /\ op[w].kind = "engage" /\ writer[w].at = "written"
  /\ halt' = halt \cup {Global} /\ Watch(halt')
  /\ unset' = unset \ {op[w].scope}
  /\ Done(w)

SetHalt(w) ==
  /\ op[w].kind = "engage" /\ writer[w].at = "written"
  /\ halt' = halt \cup {op[w].scope} /\ Watch(halt')
  /\ unset' = unset \ {op[w].scope}
  /\ Done(w)

\* The write of the row fails: engage raises, with its record already on the trail.
SetHaltFails(w) ==
  /\ op[w].kind = "engage" /\ writer[w].at = "written" /\ faults < MaxFaults
  /\ faults' = faults + 1
  /\ unset' = unset \cup {op[w].scope}
  /\ Ends(w)
  /\ UNCHANGED halt /\ Unwatched

\* Without its record the halt is not set: engage raises.
EngageRaises(w) ==
  /\ op[w].kind = "engage" /\ writer[w].at = "lost"
  /\ Done(w)
  /\ UNCHANGED <<halt, unset>> /\ Unwatched

\* The row is gone before the record is begun.
Release(w, s) ==
  /\ Begin(w, "release", s) /\ StartRecord(w, "released", s)
  /\ halt' = halt \ {s} /\ Watch(halt')
  /\ unset' = unset \ {s}
  /\ UNCHANGED crashes

\* The row cannot be deleted: release raises before it has done anything.
ReleaseFails(w) ==
  /\ op[w].kind = "none" /\ ops < MaxOps /\ faults < MaxFaults
  /\ ops' = ops + 1 /\ faults' = faults + 1
  /\ UNCHANGED <<chain, memory, writer, lost, halt, op, unset, crashes>> /\ Unwatched

\* release returns, or raises when its record was lost: the halt is lifted anyway.
Released(w) ==
  /\ op[w].kind = "release" /\ writer[w].at \in {"written", "lost"}
  /\ Done(w)
  /\ UNCHANGED <<halt, unset>> /\ Unwatched
-------------------------------------------------------------------------------
(* Committal calls.                                                        *)

Call(w, tenant) ==
  /\ Begin(w, "global", tenant)
  /\ off' = [off EXCEPT ![w] = Scopes \ halt]
  /\ covered' = [covered EXCEPT ![w] = Halts(halt, tenant)]
  /\ UNCHANGED <<trailVars, halt, unset, crashes>>

\* Mutant of CheckGlobal: the row of the platform is not read.
OnlyTenant(w) ==
  /\ op[w].kind = "global"
  /\ op' = [op EXCEPT ![w].kind = "tenant"]
  /\ UNCHANGED <<trailVars, halt, unset, ops, crashes>> /\ Unwatched

Goes(w) ==
  /\ op' = [op EXCEPT ![w].kind = "go"]
  /\ StartRecord(w, "acted", op[w].scope)
  /\ UNCHANGED <<halt, unset, ops, crashes>> /\ Unwatched

Denied(w, blind) ==
  /\ op' = [op EXCEPT ![w].kind = "deny", ![w].blind = blind]
  /\ StartRecord(w, "denied", op[w].scope)
  /\ UNCHANGED <<halt, unset, ops, crashes>> /\ Unwatched

CheckGlobal(w) ==
  /\ op[w].kind = "global"
  /\ IF Global \in halt THEN Denied(w, FALSE)
     ELSE /\ op' = [op EXCEPT ![w].kind = "tenant"]
          /\ UNCHANGED <<trailVars, halt, unset, ops, crashes>> /\ Unwatched

CheckTenant(w) ==
  /\ op[w].kind = "tenant"
  /\ IF op[w].scope \in halt THEN Denied(w, FALSE) ELSE Goes(w)

\* An unreadable halt state is a halt.
CheckFails(w) ==
  /\ InCheck(w) /\ faults < MaxFaults
  /\ op' = [op EXCEPT ![w].kind = "deny", ![w].blind = TRUE]
  /\ writer' = [writer EXCEPT ![w] = Appending(w, "denied", op[w].scope)]
  /\ faults' = faults + 1
  /\ UNCHANGED <<chain, memory, lost, halt, unset, ops, crashes>> /\ Unwatched

\* A call ends once it has its record, or has lost it.
Return(w) ==
  /\ op[w].kind \in {"go", "deny"} /\ writer[w].at \in {"written", "lost"}
  /\ Done(w)
  /\ UNCHANGED <<halt, unset>> /\ Unwatched
-------------------------------------------------------------------------------
RecordStep(w) ==
  /\ AppendStep(w)
  /\ UNCHANGED <<halt, op, unset, ops, crashes>> /\ Unwatched

\* The threads that die with w's process, and what its engine remembered.
Together(w) ==
  {w} \cup {v \in DOMAIN HostOf : w \in DOMAIN HostOf /\ HostOf[v] = HostOf[w]}

Crash(w) ==
  /\ op[w].kind # "none" /\ crashes < MaxCrashes
  /\ crashes' = crashes + 1
  /\ op' = [v \in Writers |-> IF v \in Together(w) THEN NoOp ELSE op[v]]
  /\ writer' = [v \in Writers |-> IF v \in Together(w) THEN NoAppend ELSE writer[v]]
  /\ memory' = [h \in Hosts |-> IF w \in DOMAIN HostOf /\ h = HostOf[w]
                                THEN [loaded |-> FALSE, tip |-> 0] ELSE memory[h]]
  /\ UNCHANGED <<chain, lost, faults, halt, unset, ops>> /\ Unwatched

Step(w) ==
  \/ RecordStep(w) \/ SetHalt(w) \/ SetHaltFails(w) \/ EngageRaises(w) \/ Released(w)
  \/ CheckGlobal(w) \/ CheckTenant(w) \/ CheckFails(w) \/ Return(w)

Next ==
  \/ \E w \in Operators, s \in Scopes : Engage(w, s) \/ Release(w, s)
  \/ \E w \in Operators : ReleaseFails(w)
  \/ \E w \in Callers, tenant \in Tenants : Call(w, tenant)
  \/ \E w \in Writers : Step(w) \/ Crash(w)

Spec == Init /\ [][Next]_vars
-------------------------------------------------------------------------------
(* Properties.                                                             *)

TypeOK ==
  /\ TrailTypeOK
  /\ halt \subseteq Scopes
  /\ op \in [Writers -> [kind : {"none", "engage", "release", "global", "tenant",
                                 "go", "deny"},
                         scope : Scopes, blind : BOOLEAN]]
  /\ off \in [Callers -> SUBSET Scopes]
  /\ covered \in [Callers -> BOOLEAN]
  /\ unset \subseteq Scopes
  /\ ops \in Nat /\ crashes \in Nat

\* A call goes ahead only if the platform was not halted at some time since the
\* call began, and its tenant was not halted at some time since then: a halt
\* that stays in force under one scope is never missed (active_halt's two reads).
HonouredScopeByScope ==
  \A c \in Callers : op[c].kind = "go" => {Global, op[c].scope} \subseteq off[c]

\* A call is refused only if its own tenant or the platform was halted at some
\* time since it began, or its halt state could not be read: an incident in one
\* tenant does not stop the others.
DeniedOnlyIfHalted ==
  \A c \in Callers : op[c].kind = "deny" => covered[c] \/ op[c].blind

\* What a call is told of the halt is true of some time since it began.
HaltAnswersTrue == HonouredScopeByScope /\ DeniedOnlyIfHalted

\* A scope has a row only if an engagement of it is on the trail, whatever is
\* lost, fails or dies: engage records first.
RecordedBeforeHalted ==
  \A s \in halt : \E i \in DOMAIN chain : chain[i].what = "engaged" /\ chain[i].scope = s

\* What the records of the trail say last of a scope.
LastSaid(s) ==
  LET said == {i \in DOMAIN chain : chain[i].scope = s /\ chain[i].what \in {"engaged", "released"}}
  IN IF said = {} THEN "released"
     ELSE chain[CHOOSE i \in said : \A j \in said : j <= i].what

\* With one operator, until a process dies, the last word of the trail on a scope
\* whenever the operator is between operations: every halt in force is engaged
\* there, and a scope engaged there is in force, or its last engagement raised when
\* it came to set the row.  Scopes whose records were lost are excepted; the calls
\* that append at the same time, and the accesses that fail them, are not.
TrailReplaysHalt ==
  (\A w \in Operators : op[w].kind = "none") /\ crashes = 0 =>
    \A s \in {x \in Scopes : \A l \in lost : l.scope # x} :
      s \in halt \cup unset <=> LastSaid(s) = "engaged"

\* What is in force is on the trail, and once an operator is done the trail knows of
\* no other halt than those whose row failed to be set.
TrailKnowsHalts == RecordedBeforeHalted /\ TrailReplaysHalt
===============================================================================
