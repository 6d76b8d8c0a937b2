---------------------------- MODULE KillSwitchProofs ----------------------------
(***************************************************************************)
(* Proofs about KillSwitch, for any writers, hosts, scopes and bounds: the *)
(* state is well typed, calls are told the truth about the halt, a scope   *)
(* is halted only on record, appends are harmed only when overtaken, and   *)
(* the trail replays to the halts in force while operators take turns, but *)
(* for a halt whose row failed to be set after its record.                 *)
(*                                                                         *)
(* AnswerOf says what a call under way has seen and could have seen.       *)
(* AppendInv says that an append past its comparison names the tip, or was *)
(* overtaken.  Named ties an operation to its record.  ReplayInv says what *)
(* an operation half done has made of its row and of the trail.            *)
(***************************************************************************)
EXTENDS KillSwitch, SequenceTheorems, TLAPS

AppendInv ==
  /\ \A w \in Writers :
       /\ writer[w].at = "tip" => writer[w].again = FALSE
       /\ writer[w].at = "insert" => writer[w].prev = Tip \/ writer[w].overtaken
       /\ writer[w].at = "check" /\ writer[w].again => writer[w].prev = Tip \/ writer[w].overtaken
  /\ HarmedOnlyWhenOvertaken

OnRecord(what, s) == \E i \in DOMAIN chain : chain[i].what = what /\ chain[i].scope = s

-------------------------------------------------------------------------------
(* Types.                                                                   *)

OpState == [kind : {"none", "engage", "release", "global", "tenant", "go", "deny"},
            scope : Scopes, blind : BOOLEAN]

LEMMA Nothing == NoAppend \in AppendState /\ NoOp \in OpState
<1>1. (CHOOSE s \in Scopes : TRUE) \in Scopes BY SwitchAssumption DEF SwitchAssumption
<1>2. NoAppend \in AppendState BY <1>1 DEF NoAppend, AppendState, Whats
<1>3. NoOp \in OpState BY SwitchAssumption DEF SwitchAssumption, NoOp, OpState
<1> QED BY <1>2, <1>3

LEMMA Started ==
  ASSUME NEW w \in Writers, NEW what \in Whats, NEW s \in Scopes
  PROVE  /\ Appending(w, what, s) \in AppendState
         /\ Appending(w, what, s).at = "tip" /\ Appending(w, what, s).what = what
         /\ Appending(w, what, s).scope = s
BY Nothing DEF Appending, AppendState, NoAppend

LEMMA AppendTypes ==
  ASSUME TrailTypeOK, NEW w \in Writers, AppendStep(w)
  PROVE  TrailTypeOK'
<1> USE DEF TrailTypeOK
<1>0. Tip \in Nat /\ writer[w] \in AppendState BY DEF Tip
<1>1. CASE ReadTip(w)
  <2>1. Remembers(w) => memory[HostOf[w]].tip \in Nat
    BY TrailAssumption DEF TrailAssumption, Remembers
  <2>2. memory' \in [Hosts -> [loaded : BOOLEAN, tip : Nat]] BY <1>0, <1>1 DEF ReadTip
  <2>3. writer' \in [Writers -> AppendState] BY <1>0, <1>1, <2>1 DEF ReadTip, AppendState
  <2> QED BY <1>1, <2>2, <2>3 DEF ReadTip
<1>2. CASE CheckPrevious(w)
  <2> DEFINE a == writer[w]
  <2>0. /\ [a EXCEPT !.at = "insert", !.overtaken = FALSE] \in AppendState
        /\ [a EXCEPT !.at = "again", !.overtaken = FALSE] \in AppendState
        /\ [a EXCEPT !.at = "lost"] \in AppendState
    BY <1>0 DEF AppendState
  <2>1. writer' \in [Writers -> AppendState] BY <1>2, <2>0 DEF CheckPrevious
  <2>2. About(w) \in [what : Whats, scope : Scopes] BY <1>0 DEF About, AppendState
  <2> QED BY <1>2, <2>1, <2>2 DEF CheckPrevious
<1>3. CASE ReadTipAgain(w) BY <1>0, <1>3 DEF ReadTipAgain, AppendState
<1>4. CASE Insert(w)
  <2>1. chain' \in Seq(TrailRecord)
    <3>1. [what |-> writer[w].what, scope |-> writer[w].scope, prev |-> writer[w].prev,
           overtaken |-> writer[w].overtaken] \in TrailRecord
      BY <1>0 DEF AppendState, TrailRecord
    <3> QED BY <1>4, <3>1 DEF Insert
  <2>2. ASSUME NEW v \in Writers \ {w}
        PROVE [writer[v] EXCEPT !.overtaken = @ \/ writer[v].at \in {"check", "insert"}]
                \in AppendState
    <3>1. writer[v] \in AppendState /\ writer[v].overtaken \in BOOLEAN BY DEF AppendState
    <3>2. (writer[v].overtaken \/ writer[v].at \in {"check", "insert"}) \in BOOLEAN
      BY <3>1, Zenon
    <3> HIDE DEF TrailTypeOK
    <3> QED BY <3>1, <3>2 DEF AppendState
  <2>3. [writer[w] EXCEPT !.prev = Tip + 1,
                          !.at = IF w \in DOMAIN HostOf THEN "note" ELSE "written"]
          \in AppendState
    <3>1. Tip + 1 \in Nat BY <1>0
    <3>2. (IF w \in DOMAIN HostOf THEN "note" ELSE "written") \in {"note", "written"} OBVIOUS
    <3> HIDE DEF TrailTypeOK
    <3> QED BY <1>0, <3>1, <3>2 DEF AppendState
  <2>4. writer' \in [Writers -> AppendState] BY <1>4, <2>2, <2>3 DEF Insert
  <2> QED BY <1>4, <2>1, <2>4 DEF Insert
<1>5. CASE NoteTip(w) BY <1>0, <1>5 DEF NoteTip, AppendState
<1>6. CASE AppendFails(w)
  <2>1. About(w) \in [what : Whats, scope : Scopes] BY <1>0 DEF About, AppendState
  <2>2. writer' \in [Writers -> AppendState] BY <1>0, <1>6 DEF AppendFails, AppendState
  <2> QED BY <1>6, <2>1, <2>2 DEF AppendFails
<1> QED BY <1>1, <1>2, <1>3, <1>4, <1>5, <1>6 DEF AppendStep

LEMMA TypeInit == Init => TypeOK
<1> SUFFICES ASSUME Init PROVE TypeOK OBVIOUS
<1>1. TrailTypeOK BY Nothing, TrailAssumption DEF TrailAssumption, Init, TrailInit, TrailTypeOK
<1>2. /\ halt \subseteq Scopes /\ unset \subseteq Scopes
      /\ op \in [Writers -> OpState] /\ ops \in Nat /\ crashes \in Nat
  BY Nothing DEF Init
<1>3. off \in [Callers -> SUBSET Scopes] /\ covered \in [Callers -> BOOLEAN] BY DEF Init
<1> QED BY <1>1, <1>2, <1>3 DEF TypeOK, OpState

\* What the calls see and could have seen stays well typed.
LEMMA WatchTypes ==
  ASSUME TypeOK, NEW h \in SUBSET Scopes, Watch(h) \/ Unwatched
  PROVE  off' \in [Callers -> SUBSET Scopes] /\ covered' \in [Callers -> BOOLEAN]
<1>1. CASE Unwatched BY <1>1 DEF Unwatched, TypeOK
<1>2. CASE Watch(h)
  <2>1. \A c \in Callers : (covered[c] \/ (InCheck(c) /\ Halts(h, op[c].scope))) \in BOOLEAN
    BY Zenon
  <2>2. covered' \in [Callers -> BOOLEAN] BY <1>2, <2>1, Zenon DEF Watch
  <2>3. off' \in [Callers -> SUBSET Scopes] BY <1>2 DEF Watch, TypeOK
  <2> QED BY <2>2, <2>3
<1> QED BY <1>1, <1>2

LEMMA DoneTypes ==
  ASSUME TypeOK, NEW w \in Writers, Ends(w), faults' \in Nat
  PROVE  TrailTypeOK' /\ op' \in [Writers -> OpState] /\ ops' \in Nat /\ crashes' \in Nat
BY Nothing DEF TypeOK, TrailTypeOK, Ends, OpState

LEMMA TypeStep == TypeOK /\ [Next]_vars => TypeOK'
<1> SUFFICES ASSUME TypeOK, [Next]_vars PROVE TypeOK' OBVIOUS
<1>0. /\ Global \in Scopes /\ Operators \subseteq Writers /\ Callers \subseteq Writers
      /\ op \in [Writers -> OpState] /\ halt \in SUBSET Scopes /\ unset \subseteq Scopes
      /\ faults \in Nat
      /\ TypeOK' <=> /\ TrailTypeOK' /\ halt' \subseteq Scopes /\ op' \in [Writers -> OpState]
                     /\ off' \in [Callers -> SUBSET Scopes]
                     /\ covered' \in [Callers -> BOOLEAN] /\ unset' \subseteq Scopes
                     /\ ops' \in Nat /\ crashes' \in Nat
  BY SwitchAssumption DEF SwitchAssumption, TypeOK, TrailTypeOK, OpState
<1>1. ASSUME NEW w \in Writers, NEW what \in Whats, NEW s \in Scopes, StartRecord(w, what, s)
      PROVE  TrailTypeOK'
  BY <1>1, Started DEF StartRecord, TypeOK, TrailTypeOK
<1>2. ASSUME NEW w \in Writers, NEW s \in Scopes, NEW kind,
             kind \in {"engage", "release", "global"}, Begin(w, kind, s)
      PROVE  op' \in [Writers -> OpState] /\ ops' \in Nat
  <2>1. [NoOp EXCEPT !.kind = kind, !.scope = s] \in OpState
    BY <1>2, Nothing DEF OpState
  <2> QED BY <1>0, <1>2, <2>1 DEF Begin, TypeOK
<1>3. ASSUME NEW w \in Operators, NEW s \in Scopes, Engage(w, s) PROVE TypeOK'
  <2>1. w \in Writers /\ "engaged" \in Whats BY <1>0 DEF Whats
  <2> QED BY <1>0, <1>1, <1>2, <1>3, <2>1, WatchTypes DEF Engage, TypeOK
<1>4. ASSUME NEW w \in Operators, NEW s \in Scopes, Release(w, s) PROVE TypeOK'
  <2>1. w \in Writers /\ "released" \in Whats /\ halt' \in SUBSET Scopes
    BY <1>0, <1>4 DEF Whats, Release
  <2> QED BY <1>0, <1>1, <1>2, <1>4, <2>1, WatchTypes DEF Release, TypeOK
<1>5. ASSUME NEW w \in Callers, NEW s \in Tenants, Call(w, s) PROVE TypeOK'
  <2>1. w \in Writers /\ s \in Scopes BY <1>0 DEF Tenants
  <2>2. Halts(halt, s) \in BOOLEAN BY DEF Halts
  <2>3. TrailTypeOK' BY <1>5 DEF Call, trailVars, TypeOK, TrailTypeOK, Tip
  <2>4. off' \in [Callers -> SUBSET Scopes] /\ covered' \in [Callers -> BOOLEAN]
    BY <1>5, <2>2 DEF Call, TypeOK
  <2> QED BY <1>0, <1>2, <1>5, <2>1, <2>3, <2>4 DEF Call, TypeOK
<1>6. ASSUME NEW w \in Writers, RecordStep(w) PROVE TypeOK'
  <2>1. TrailTypeOK' BY <1>6, AppendTypes DEF RecordStep, TypeOK
  <2> QED BY <1>0, <1>6, <2>1 DEF RecordStep, Unwatched, TypeOK
<1>7. ASSUME NEW w \in Writers, SetHalt(w) PROVE TypeOK'
  <2>1. halt' \in SUBSET Scopes /\ unset' \subseteq Scopes BY <1>0, <1>7 DEF SetHalt, OpState
  <2>2. Ends(w) /\ faults' \in Nat BY <1>0, <1>7 DEF SetHalt, Done
  <2> QED BY <1>0, <1>7, <2>1, <2>2, WatchTypes, DoneTypes DEF SetHalt
<1>8. ASSUME NEW w \in Writers,
             SetHaltFails(w) \/ EngageRaises(w) \/ Released(w) \/ Return(w)
      PROVE  TypeOK'
  <2>1. /\ Ends(w) /\ faults' \in Nat /\ UNCHANGED halt /\ Unwatched
        /\ unset' \subseteq Scopes
    BY <1>0, <1>8 DEF SetHaltFails, EngageRaises, Released, Return, Done, OpState
  <2> QED BY <1>0, <2>1, WatchTypes, DoneTypes
<1>12. ASSUME NEW w \in Operators, ReleaseFails(w) PROVE TypeOK'
  <2>1. TrailTypeOK' /\ ops' \in Nat
    BY <1>0, <1>12 DEF ReleaseFails, TypeOK, TrailTypeOK
  <2> QED BY <1>0, <1>12, <2>1 DEF ReleaseFails, Unwatched, TypeOK
<1>9. ASSUME NEW w \in Writers, CheckGlobal(w) \/ CheckTenant(w) \/ CheckFails(w) PROVE TypeOK'
  <2>1. op[w] \in OpState /\ op[w].scope \in Scopes /\ {"denied", "acted"} \subseteq Whats
    BY <1>0 DEF OpState, Whats
  <2>2. \A b \in BOOLEAN : [op[w] EXCEPT !.kind = "deny", !.blind = b] \in OpState
    BY <2>1 DEF OpState
  <2>3. /\ [op[w] EXCEPT !.kind = "tenant"] \in OpState
        /\ [op[w] EXCEPT !.kind = "go"] \in OpState
    BY <2>1 DEF OpState
  <2>4. CASE \/ Denied(w, FALSE) \/ Goes(w)
    <3>1. op' \in [Writers -> OpState] BY <1>0, <2>2, <2>3, <2>4 DEF Denied, Goes
    <3>2. TrailTypeOK' BY <1>1, <2>1, <2>4 DEF Denied, Goes
    <3> QED BY <1>0, <2>4, <3>1, <3>2 DEF Denied, Goes, Unwatched, TypeOK
  <2>5. CASE CheckFails(w)
    <3>1. op' \in [Writers -> OpState] BY <1>0, <2>2, <2>5 DEF CheckFails
    <3>2. TrailTypeOK' BY <2>1, <2>5, Started DEF CheckFails, TypeOK, TrailTypeOK
    <3> QED BY <1>0, <2>5, <3>1, <3>2 DEF CheckFails, Unwatched, TypeOK
  <2>6. CASE /\ op' = [op EXCEPT ![w].kind = "tenant"]
             /\ UNCHANGED <<trailVars, halt, unset, ops, crashes>> /\ Unwatched
    <3>1. op' \in [Writers -> OpState] BY <1>0, <2>3, <2>6
    <3>2. TrailTypeOK' BY <2>6 DEF trailVars, TypeOK, TrailTypeOK
    <3> QED BY <1>0, <2>6, <3>1, <3>2 DEF Unwatched, TypeOK
  <2> QED BY <1>9, <2>4, <2>5, <2>6 DEF CheckGlobal, CheckTenant
<1>10. ASSUME NEW w \in Writers, Crash(w) PROVE TypeOK'
  <2>1. op' \in [Writers -> OpState] BY <1>0, <1>10, Nothing DEF Crash
  <2>2. TrailTypeOK' BY <1>10, Nothing DEF Crash, TypeOK, TrailTypeOK
  <2> QED BY <1>0, <1>10, <2>1, <2>2 DEF Crash, Unwatched, TypeOK
<1>11. CASE UNCHANGED vars BY <1>11 DEF vars, trailVars, TypeOK, TrailTypeOK
<1> QED
  BY <1>3, <1>4, <1>5, <1>6, <1>7, <1>8, <1>9, <1>10, <1>11, <1>12 DEF Next, Step

\* Every reachable state is well typed, for any writers, hosts and scopes.
THEOREM SwitchTyped == Spec => []TypeOK
BY TypeInit, TypeStep, PTL DEF Spec

-------------------------------------------------------------------------------
(* What a call is told of the halt.                                         *)

\* The answer that one call may be given.
AnswerOf(c) ==
  /\ InCheck(c) => Scopes \ halt \subseteq off[c]
  /\ InCheck(c) /\ Halts(halt, op[c].scope) => covered[c]
  /\ op[c].kind = "tenant" => Global \in off[c]
  /\ op[c].kind = "go" => {Global, op[c].scope} \subseteq off[c]
  /\ op[c].kind = "deny" => covered[c] \/ op[c].blind

\* Rows and answers as they were: nothing changes for the call.
LEMMA AnswerKept ==
  ASSUME NEW c \in Callers, TypeOK, AnswerOf(c), op'[c] = op[c],
         \/ halt' = halt /\ Unwatched
         \/ Watch(halt')
  PROVE  AnswerOf(c)'
<1>1. CASE halt' = halt /\ Unwatched BY <1>1 DEF AnswerOf, Unwatched, InCheck, Halts
<1>2. CASE Watch(halt')
  <2>1. InCheck(c)' = InCheck(c) BY DEF InCheck
  <2>2. /\ off'[c] = IF InCheck(c) THEN off[c] \cup (Scopes \ halt') ELSE off[c]
        /\ covered'[c] = (covered[c] \/ (InCheck(c) /\ Halts(halt', op[c].scope)))
    BY <1>2 DEF Watch
  <2>3. off[c] \subseteq off'[c] BY <2>2
  <2>4. covered[c] => covered'[c] BY <2>2
  <2>5. InCheck(c) => Scopes \ halt' \subseteq off'[c] BY <2>2
  <2>6. InCheck(c) /\ Halts(halt', op[c].scope) => covered'[c] BY <2>2
  <2>7. Halts(halt, op[c].scope)' = Halts(halt', op[c].scope) BY DEF Halts
  <2> QED BY <2>1, <2>3, <2>4, <2>5, <2>6, <2>7 DEF AnswerOf
<1> QED BY <1>1, <1>2

\* A writer outside a call is told nothing.
LEMMA AnswerIdle ==
  ASSUME NEW c \in Callers, (op[c].kind \in {"none", "engage", "release"})'
  PROVE  AnswerOf(c)'
BY DEF AnswerOf, InCheck

LEMMA AnswerStep ==
  ASSUME TypeOK, TypeOK', [Next]_vars, NEW c \in Callers, AnswerOf(c)
  PROVE  AnswerOf(c)'
<1>0. /\ Callers \subseteq Writers /\ Operators \subseteq Writers
      /\ op[c] \in OpState /\ op \in [Writers -> OpState]
  BY SwitchAssumption DEF SwitchAssumption, TypeOK, OpState
<1>1. ASSUME NEW w \in Writers, NEW kind, NEW s, kind \in {"engage", "release"},
             Begin(w, kind, s), (halt' = halt /\ Unwatched) \/ Watch(halt')
      PROVE  AnswerOf(c)'
  <2>1. CASE w = c
    <3>1. op'[c] = [NoOp EXCEPT !.kind = kind, !.scope = s] BY <1>0, <1>1, <2>1 DEF Begin
    <3>2. op'[c].kind = kind BY <3>1 DEF NoOp
    <3> QED BY <1>1, <3>2, AnswerIdle
  <2>2. CASE w # c BY <1>0, <1>1, <2>2, AnswerKept DEF Begin
  <2> QED BY <2>1, <2>2
<1>2. ASSUME NEW w \in Writers, op' = [op EXCEPT ![w] = NoOp],
             (halt' = halt /\ Unwatched) \/ Watch(halt')
      PROVE  AnswerOf(c)'
  <2>1. CASE w = c
    <3>1. op'[c].kind = "none" BY <1>0, <1>2, <2>1 DEF NoOp
    <3> QED BY <3>1, AnswerIdle
  <2>2. CASE w # c BY <1>0, <1>2, <2>2, AnswerKept
  <2> QED BY <2>1, <2>2
<1>3. ASSUME NEW w \in Operators, NEW s \in Scopes, Engage(w, s) \/ Release(w, s)
      PROVE  AnswerOf(c)'
  <2>1. (halt' = halt /\ Unwatched) \/ Watch(halt') BY <1>3 DEF Engage, Release
  <2> QED BY <1>0, <1>1, <1>3, <2>1 DEF Engage, Release
<1>4. ASSUME NEW w \in Callers, NEW s \in Tenants, Call(w, s) PROVE AnswerOf(c)'
  <2>1. CASE w = c
    <3>1. op'[c] = [NoOp EXCEPT !.kind = "global", !.scope = s]
      BY <1>0, <1>4, <2>1 DEF Call, Begin
    <3>2. op'[c].kind = "global" /\ op'[c].scope = s BY <3>1 DEF NoOp
    <3>3. off'[c] = Scopes \ halt /\ covered'[c] = Halts(halt, s) /\ halt' = halt
      BY <1>4, <2>1 DEF Call, TypeOK
    <3> QED BY <3>2, <3>3 DEF AnswerOf, InCheck, Halts
  <2>2. CASE w # c
    <3>1. op'[c] = op[c] /\ off'[c] = off[c] /\ covered'[c] = covered[c] /\ halt' = halt
      BY <1>0, <1>4, <2>2 DEF Call, Begin, TypeOK
    <3> QED BY <3>1 DEF AnswerOf, InCheck, Halts
  <2> QED BY <2>1, <2>2
<1>5. ASSUME NEW w \in Writers, RecordStep(w) PROVE AnswerOf(c)'
  BY <1>5, AnswerKept DEF RecordStep
<1>6. ASSUME NEW w \in Writers,
             SetHalt(w) \/ SetHaltFails(w) \/ EngageRaises(w) \/ Released(w) \/ Return(w)
      PROVE  AnswerOf(c)'
  <2>1. op' = [op EXCEPT ![w] = NoOp] /\ ((halt' = halt /\ Unwatched) \/ Watch(halt'))
    BY <1>6 DEF SetHalt, SetHaltFails, EngageRaises, Released, Return, Done, Ends
  <2> QED BY <1>2, <2>1
<1>7. ASSUME NEW w \in Writers, CheckGlobal(w) \/ CheckTenant(w) \/ CheckFails(w)
      PROVE  AnswerOf(c)'
  <2>0. halt' = halt /\ Unwatched
    BY <1>7 DEF CheckGlobal, CheckTenant, CheckFails, Denied, Goes
  <2>1. CASE w # c
    <3>1. op'[c] = op[c]
      BY <1>0, <1>7, <2>1 DEF CheckGlobal, CheckTenant, CheckFails, Denied, Goes
    <3> QED BY <2>0, <3>1, AnswerKept
  <2>2. CASE w = c
    <3>0. /\ InCheck(c) /\ off' = off /\ covered' = covered /\ halt' = halt
          /\ op[c].scope \in Scopes /\ Global \in Scopes
      BY <1>0, <1>7, <2>0, <2>2, SwitchAssumption
         DEF SwitchAssumption, CheckGlobal, CheckTenant, CheckFails, InCheck, Unwatched, OpState
    <3>1. CASE CheckGlobal(c) /\ Global \notin halt
      <4>1. op'[c].kind = "tenant" /\ op'[c].scope = op[c].scope
        BY <1>0, <3>1 DEF CheckGlobal, OpState
      <4> QED BY <3>0, <3>1, <4>1 DEF AnswerOf, InCheck, Halts
    <3>2. CASE CheckTenant(c) /\ op[c].scope \notin halt
      <4>1. op'[c].kind = "go" /\ op'[c].scope = op[c].scope /\ op[c].kind = "tenant"
        BY <1>0, <3>2 DEF CheckTenant, Goes, OpState
      <4> QED BY <3>0, <3>2, <4>1 DEF AnswerOf, InCheck
    <3>3. CASE \/ CheckGlobal(c) /\ Global \in halt
               \/ CheckTenant(c) /\ op[c].scope \in halt
      <4>1. op'[c].kind = "deny" BY <1>0, <3>3 DEF CheckGlobal, CheckTenant, Denied, OpState
      <4>2. covered[c] BY <3>0, <3>3 DEF AnswerOf, Halts
      <4> QED BY <3>0, <4>1, <4>2 DEF AnswerOf, InCheck
    <3>4. CASE CheckFails(c)
      <4>1. op'[c].kind = "deny" /\ op'[c].blind = TRUE BY <1>0, <3>4 DEF CheckFails, OpState
      <4> QED BY <4>1 DEF AnswerOf, InCheck
    <3>5. CheckGlobal(c) \/ CheckTenant(c) \/ CheckFails(c)
      BY <1>7, <2>2 DEF CheckGlobal, CheckTenant, CheckFails
    <3> QED BY <3>1, <3>2, <3>3, <3>4, <3>5
  <2> QED BY <2>1, <2>2
<1>8. ASSUME NEW w \in Writers, Crash(w) PROVE AnswerOf(c)'
  <2>1. op'[c] = NoOp \/ op'[c] = op[c] BY <1>0, <1>8 DEF Crash
  <2>2. halt' = halt /\ Unwatched BY <1>8 DEF Crash
  <2>3. NoOp.kind = "none" BY DEF NoOp
  <2> QED BY <2>1, <2>2, <2>3, AnswerIdle, AnswerKept
<1>9. CASE UNCHANGED vars BY <1>9 DEF vars, AnswerOf, InCheck, Halts
<1>10. ASSUME NEW w \in Operators, ReleaseFails(w) PROVE AnswerOf(c)'
  BY <1>10, AnswerKept DEF ReleaseFails
<1> QED BY <1>3, <1>4, <1>5, <1>6, <1>7, <1>8, <1>9, <1>10 DEF Next, Step

\* A call goes ahead only if both scopes were seen without a halt since it began,
\* and is refused only if one was halted since then, or could not be read.
THEOREM AnswersTrue == Spec => []HaltAnswersTrue
<1>1. Init => \A c \in Callers : AnswerOf(c)
  BY SwitchAssumption DEF SwitchAssumption, Init, AnswerOf, InCheck, NoOp
<1>2. TypeOK /\ TypeOK' /\ (\A c \in Callers : AnswerOf(c)) /\ [Next]_vars
        => (\A c \in Callers : AnswerOf(c))'
  BY AnswerStep
<1>3. (\A c \in Callers : AnswerOf(c)) => HaltAnswersTrue
  BY DEF AnswerOf, HaltAnswersTrue, HonouredScopeByScope, DeniedOnlyIfHalted
<1> QED BY <1>1, <1>2, <1>3, SwitchTyped, PTL DEF Spec

-------------------------------------------------------------------------------
(* What harms an append.                                                    *)

\* The other steps start appends, forget them, or leave them.
LEMMA HarmlessStep ==
  ASSUME TypeOK, AppendInv, chain' = chain, faults' = 0 => faults = 0,
         \A v \in Writers : \/ writer'[v] = writer[v]
                            \/ writer'[v].at \in {"idle", "tip"} /\ writer'[v].again = FALSE
  PROVE  AppendInv'
<1>1. BreaksOnlyWhenOvertaken' BY DEF AppendInv, HarmedOnlyWhenOvertaken, BreaksOnlyWhenOvertaken
<1>2. LostOnlyWhenOvertaken' BY DEF AppendInv, HarmedOnlyWhenOvertaken, LostOnlyWhenOvertaken
<1>3. Tip' = Tip BY DEF Tip
<1> QED BY <1>1, <1>2, <1>3 DEF AppendInv, HarmedOnlyWhenOvertaken

\* A step of an append that writes nothing.
LEMMA HarmFrame ==
  ASSUME TypeOK, AppendInv, NEW w \in Writers, NEW d \in AppendState,
         writer' = [writer EXCEPT ![w] = d], chain' = chain, faults' \in Nat,
         faults' = 0 => faults = 0,
         d.at = "insert" => d.prev = Tip,
         d.at = "check" => d.again = FALSE \/ d.prev = Tip,
         d.at = "tip" => d.again = FALSE,
         d.at = "lost" /\ faults' = 0 => d.overtaken
  PROVE  AppendInv'
<1>1. BreaksOnlyWhenOvertaken' BY DEF AppendInv, HarmedOnlyWhenOvertaken, BreaksOnlyWhenOvertaken
<1>2. writer'[w] = d /\ \A v \in Writers \ {w} : writer'[v] = writer[v]
  BY DEF TypeOK, TrailTypeOK
<1>3. LostOnlyWhenOvertaken'
  BY <1>2 DEF AppendInv, HarmedOnlyWhenOvertaken, LostOnlyWhenOvertaken
<1>4. Tip' = Tip BY DEF Tip
<1> QED BY <1>1, <1>2, <1>3, <1>4 DEF AppendInv, HarmedOnlyWhenOvertaken

\* The insert marks the appends it overtakes, and breaks the chain only if it was marked.
LEMMA HarmInsert ==
  ASSUME TypeOK, AppendInv, NEW w \in Writers, Insert(w)
  PROVE  AppendInv'
<1> DEFINE a == writer[w]
           r == [what |-> a.what, scope |-> a.scope, prev |-> a.prev, overtaken |-> a.overtaken]
<1>0. /\ a \in AppendState /\ writer \in [Writers -> AppendState] /\ faults \in Nat
      /\ chain \in Seq(TrailRecord) /\ Tip = Len(chain) /\ Tip \in Nat
  BY DEF TypeOK, TrailTypeOK, Tip
<1>1. /\ a.at = "insert" /\ chain' = Append(chain, r) /\ UNCHANGED faults
      /\ a.prev = Tip \/ a.overtaken
  BY DEF Insert, AppendInv
<1>2. DOMAIN chain' = 1..(Tip + 1) /\ chain'[Tip + 1] = r
      /\ \A i \in 1..Tip : i \in DOMAIN chain /\ chain'[i] = chain[i]
  <2>1. r \in TrailRecord BY <1>0 DEF AppendState, TrailRecord
  <2> QED BY <1>0, <1>1, <2>1
<1>3. BreaksOnlyWhenOvertaken'
  <2> SUFFICES ASSUME NEW i \in 1..(Tip + 1), chain'[i].prev # i - 1 PROVE chain'[i].overtaken
    BY <1>2 DEF BreaksOnlyWhenOvertaken
  <2>1. CASE i = Tip + 1 BY <1>0, <1>1, <1>2, <2>1
  <2>2. CASE i # Tip + 1
    <3>1. i \in 1..Tip BY <1>0, <2>2
    <3> QED BY <1>2, <3>1 DEF AppendInv, HarmedOnlyWhenOvertaken, BreaksOnlyWhenOvertaken
  <2> QED BY <2>1, <2>2
<1>4. writer'[w].at \in {"note", "written"} BY <1>0 DEF Insert, AppendState
<1>5. ASSUME NEW v \in Writers \ {w}
      PROVE  /\ writer'[v].at = writer[v].at /\ writer'[v].again = writer[v].again
             /\ writer[v].overtaken => writer'[v].overtaken
             /\ writer[v].at \in {"check", "insert"} => writer'[v].overtaken
  <2>1. writer'[v] = [writer[v] EXCEPT !.overtaken = @ \/ writer[v].at \in {"check", "insert"}]
        /\ writer[v] \in AppendState
    BY <1>0 DEF Insert
  <2>2. writer'[v].overtaken = (writer[v].overtaken \/ writer[v].at \in {"check", "insert"})
    BY <2>1 DEF AppendState
  <2> QED BY <2>1, <2>2 DEF AppendState
<1>6. LostOnlyWhenOvertaken'
  BY <1>1, <1>4, <1>5 DEF AppendInv, HarmedOnlyWhenOvertaken, LostOnlyWhenOvertaken
<1> QED BY <1>3, <1>4, <1>5, <1>6 DEF AppendInv, HarmedOnlyWhenOvertaken

LEMMA HarmStep ==
  ASSUME TypeOK, AppendInv, NEW w \in Writers, AppendStep(w)
  PROVE  AppendInv'
<1> DEFINE a == writer[w]
<1>0. /\ a \in AppendState /\ writer \in [Writers -> AppendState] /\ faults \in Nat
      /\ Tip \in Nat
  BY DEF TypeOK, TrailTypeOK, Tip
<1>1. CASE ReadTip(w)
  <2> DEFINE d == [a EXCEPT !.at = "check",
                            !.prev = IF Remembers(w) THEN memory[HostOf[w]].tip ELSE Tip]
  <2>1. (IF Remembers(w) THEN memory[HostOf[w]].tip ELSE Tip) \in Nat
    BY <1>0, TrailAssumption DEF TrailAssumption, Remembers, TypeOK, TrailTypeOK
  <2>2. d \in AppendState /\ d.at = "check" /\ d.again = FALSE
    BY <1>0, <1>1, <2>1 DEF ReadTip, AppendState, AppendInv
  <2>3. writer' = [writer EXCEPT ![w] = d] /\ UNCHANGED <<chain, faults>> BY <1>1 DEF ReadTip
  <2> HIDE DEF d
  <2> QED BY <1>0, <2>2, <2>3, HarmFrame
<1>2. CASE CheckPrevious(w)
  <2>0. a.at = "check" /\ UNCHANGED <<chain, faults>> BY <1>2 DEF CheckPrevious
  <2>1. CASE a.prev = Tip /\ writer' = [writer EXCEPT ![w].at = "insert", ![w].overtaken = FALSE]
    <3> DEFINE d == [a EXCEPT !.at = "insert", !.overtaken = FALSE]
    <3>1. d \in AppendState /\ d.at = "insert" /\ d.prev = Tip BY <1>0, <2>1 DEF AppendState
    <3>2. writer' = [writer EXCEPT ![w] = d] BY <1>0, <2>1
    <3> HIDE DEF d
    <3> QED BY <1>0, <2>0, <3>1, <3>2, HarmFrame
  <2>2. CASE writer' = [writer EXCEPT ![w].at = "again", ![w].overtaken = FALSE]
    <3> DEFINE d == [a EXCEPT !.at = "again", !.overtaken = FALSE]
    <3>1. d \in AppendState /\ d.at = "again" BY <1>0 DEF AppendState
    <3>2. writer' = [writer EXCEPT ![w] = d] BY <1>0, <2>2
    <3> HIDE DEF d
    <3> QED BY <1>0, <2>0, <3>1, <3>2, HarmFrame
  <2>3. CASE a.prev # Tip /\ a.again /\ writer' = [writer EXCEPT ![w].at = "lost"]
    <3> DEFINE d == [a EXCEPT !.at = "lost"]
    <3>1. a.overtaken BY <2>0, <2>3 DEF AppendInv
    <3>2. d \in AppendState /\ d.at = "lost" /\ d.overtaken = a.overtaken BY <1>0 DEF AppendState
    <3>3. writer' = [writer EXCEPT ![w] = d] BY <1>0, <2>3
    <3> HIDE DEF d
    <3> QED BY <1>0, <2>0, <3>1, <3>2, <3>3, HarmFrame
  <2> QED BY <1>2, <2>1, <2>2, <2>3 DEF CheckPrevious
<1>3. CASE ReadTipAgain(w)
  <2> DEFINE d == [a EXCEPT !.at = "check", !.prev = Tip, !.again = TRUE]
  <2>1. d \in AppendState /\ d.at = "check" /\ d.prev = Tip BY <1>0 DEF AppendState
  <2>2. writer' = [writer EXCEPT ![w] = d] /\ UNCHANGED <<chain, faults>> BY <1>3 DEF ReadTipAgain
  <2> HIDE DEF d
  <2> QED BY <1>0, <2>1, <2>2, HarmFrame
<1>4. CASE Insert(w) BY <1>4, HarmInsert
<1>5. CASE NoteTip(w)
  <2> DEFINE d == [a EXCEPT !.at = "written"]
  <2>1. d \in AppendState /\ d.at = "written" BY <1>0 DEF AppendState
  <2>2. writer' = [writer EXCEPT ![w] = d] /\ UNCHANGED <<chain, faults>> BY <1>5 DEF NoteTip
  <2> HIDE DEF d
  <2> QED BY <1>0, <2>1, <2>2, HarmFrame
<1>6. CASE AppendFails(w)
  <2> DEFINE d == [a EXCEPT !.at = "lost"]
  <2>1. d \in AppendState /\ d.at = "lost" BY <1>0 DEF AppendState
  <2>2. writer' = [writer EXCEPT ![w] = d] /\ UNCHANGED chain /\ faults' = faults + 1
    BY <1>6 DEF AppendFails
  <2>3. faults' \in Nat /\ faults' # 0 BY <1>0, <2>2
  <2> HIDE DEF d
  <2> QED BY <2>1, <2>2, <2>3, HarmFrame
<1> QED BY <1>1, <1>2, <1>3, <1>4, <1>5, <1>6 DEF AppendStep

\* The steps that start an append, drop one, or leave all as they are.
LEMMA OtherAppends ==
  ASSUME TypeOK, [Next]_vars, ~\E w \in Writers : RecordStep(w)
  PROVE  /\ chain' = chain /\ (faults' = 0 => faults = 0)
         /\ \A v \in Writers :
              \/ writer'[v] = writer[v]
              \/ writer'[v].at \in {"idle", "tip"} /\ writer'[v].again = FALSE
<1>0. /\ writer \in [Writers -> AppendState] /\ faults \in Nat
      /\ Callers \subseteq Writers /\ Operators \subseteq Writers
      /\ op \in [Writers -> OpState] /\ {"engaged", "released", "denied", "acted"} = Whats
  BY SwitchAssumption DEF SwitchAssumption, TypeOK, TrailTypeOK, OpState, Whats
<1> DEFINE Goal == /\ chain' = chain /\ (faults' = 0 => faults = 0)
                   /\ \A v \in Writers :
                        \/ writer'[v] = writer[v]
                        \/ writer'[v].at \in {"idle", "tip"} /\ writer'[v].again = FALSE
<1>1. ASSUME NEW w \in Writers, NEW what \in Whats, NEW s \in Scopes,
             writer' = [writer EXCEPT ![w] = Appending(w, what, s)],
             chain' = chain, faults' = 0 => faults = 0
      PROVE  Goal
  <2>1. Appending(w, what, s).at = "tip" /\ Appending(w, what, s).again = FALSE
    BY DEF Appending, NoAppend
  <2> QED BY <1>0, <1>1, <2>1
<1>2. ASSUME NEW w \in Writers, Ends(w), faults' = 0 => faults = 0 PROVE Goal
  <2>1. NoAppend.at = "idle" /\ NoAppend.again = FALSE BY DEF NoAppend
  <2> QED BY <1>0, <1>2, <2>1 DEF Ends
<1>3. ASSUME UNCHANGED trailVars PROVE Goal BY <1>3 DEF trailVars
<1>4. ASSUME NEW w \in Operators, NEW s \in Scopes, Engage(w, s) \/ Release(w, s) PROVE Goal
  BY <1>0, <1>1, <1>4 DEF Engage, Release, StartRecord
<1>5. ASSUME NEW w \in Callers, NEW s \in Tenants, Call(w, s) PROVE Goal
  BY <1>3, <1>5 DEF Call
<1>6. ASSUME NEW w \in Writers,
             SetHalt(w) \/ SetHaltFails(w) \/ EngageRaises(w) \/ Released(w) \/ Return(w)
      PROVE  Goal
  <2>1. Ends(w) /\ (faults' = 0 => faults = 0)
    BY <1>0, <1>6 DEF SetHalt, SetHaltFails, EngageRaises, Released, Return, Done
  <2> QED BY <1>2, <2>1
<1>11. ASSUME NEW w \in Operators, ReleaseFails(w) PROVE Goal
  BY <1>0, <1>11 DEF ReleaseFails
<1>7. ASSUME NEW w \in Writers, CheckGlobal(w) \/ CheckTenant(w) \/ CheckFails(w) PROVE Goal
  <2>1. op[w].scope \in Scopes BY <1>0 DEF OpState
  <2>2. CASE CheckFails(w)
    <3>1. faults' # 0 BY <1>0, <2>2 DEF CheckFails
    <3> QED BY <1>0, <1>1, <2>1, <2>2, <3>1 DEF CheckFails
  <2>3. CASE CheckGlobal(w) \/ CheckTenant(w)
    BY <1>0, <1>1, <1>3, <2>1, <2>3
       DEF CheckGlobal, CheckTenant, Denied, Goes, StartRecord
  <2> QED BY <1>7, <2>2, <2>3
<1>8. ASSUME NEW w \in Writers, Crash(w) PROVE Goal
  <2>1. NoAppend.at = "idle" /\ NoAppend.again = FALSE BY DEF NoAppend
  <2> QED BY <1>0, <1>8, <2>1 DEF Crash
<1>9. CASE UNCHANGED vars BY <1>3, <1>9 DEF vars
<1>10. CASE Next
  <2>1. CASE \E w \in Writers : Step(w) \/ Crash(w)
    <3>1. PICK w \in Writers : Step(w) \/ Crash(w) BY <2>1
    <3> QED BY <3>1, <1>6, <1>7, <1>8 DEF Step
  <2> QED BY <1>4, <1>5, <1>10, <1>11, <2>1 DEF Next
<1> QED BY <1>9, <1>10

LEMMA HarmNext == TypeOK /\ AppendInv /\ [Next]_vars => AppendInv'
<1> SUFFICES ASSUME TypeOK, AppendInv, [Next]_vars PROVE AppendInv' OBVIOUS
<1>1. CASE \E w \in Writers : RecordStep(w) BY <1>1, HarmStep DEF RecordStep
<1>2. CASE ~\E w \in Writers : RecordStep(w) BY <1>2, OtherAppends, HarmlessStep
<1> QED BY <1>1, <1>2

\* An append that no other one overtook breaks no chain and, but for a fault,
\* loses no record, for any number of writers, hosts and stale tips.
THEOREM HarmedOnly == Spec => []HarmedOnlyWhenOvertaken
<1>1. Init => AppendInv
  BY DEF Init, TrailInit, AppendInv, HarmedOnlyWhenOvertaken, BreaksOnlyWhenOvertaken,
         LostOnlyWhenOvertaken, NoAppend
<1>2. AppendInv => HarmedOnlyWhenOvertaken BY DEF AppendInv
<1> QED BY <1>1, <1>2, HarmNext, SwitchTyped, PTL DEF Spec

-------------------------------------------------------------------------------
(* A halt is on record.                                                     *)

\* What a writer's own append is about.
Named(w) ==
  /\ writer[w].at \in {"note", "written"} => OnRecord(writer[w].what, writer[w].scope)
  /\ op[w].kind = "engage" => writer[w].what = "engaged" /\ writer[w].scope = op[w].scope

\* A step of an append keeps what it is about, and its record once it has one.
LEMMA AppendNames ==
  ASSUME TypeOK, NEW w \in Writers, AppendStep(w)
  PROVE  /\ \A v \in Writers : /\ writer'[v].what = writer[v].what
                               /\ writer'[v].scope = writer[v].scope
                               /\ v # w => writer'[v].at = writer[v].at
         /\ \A what, s : OnRecord(what, s) => OnRecord(what, s)'
         /\ writer'[w].at \in {"note", "written"} =>
              \/ writer[w].at \in {"note", "written"}
              \/ OnRecord(writer[w].what, writer[w].scope)'
<1> DEFINE a == writer[w]
           r == [what |-> a.what, scope |-> a.scope, prev |-> a.prev, overtaken |-> a.overtaken]
<1>0. /\ a \in AppendState /\ writer \in [Writers -> AppendState]
      /\ chain \in Seq(TrailRecord) /\ Len(chain) \in Nat
  BY DEF TypeOK, TrailTypeOK
<1>1. CASE Insert(w)
  <2>1. \A v \in Writers : /\ writer'[v].what = writer[v].what
                           /\ writer'[v].scope = writer[v].scope
                           /\ v # w => writer'[v].at = writer[v].at
    BY <1>0, <1>1 DEF Insert, AppendState
  <2>2. chain' = Append(chain, r) /\ r \in TrailRecord
    BY <1>0, <1>1 DEF Insert, AppendState, TrailRecord
  <2>3. /\ \A i \in DOMAIN chain : i \in DOMAIN chain' /\ chain'[i] = chain[i]
        /\ Len(chain) + 1 \in DOMAIN chain' /\ chain'[Len(chain) + 1] = r
    BY <1>0, <2>2
  <2>4. r.what = a.what /\ r.scope = a.scope OBVIOUS
  <2> HIDE DEF r
  <2> QED BY <2>1, <2>3, <2>4 DEF OnRecord
<1>2. CASE ReadTip(w) \/ CheckPrevious(w) \/ ReadTipAgain(w) \/ NoteTip(w) \/ AppendFails(w)
  <2>1. chain' = chain
    BY <1>2 DEF ReadTip, CheckPrevious, ReadTipAgain, NoteTip, AppendFails
  <2>2. \A v \in Writers \ {w} : writer'[v] = writer[v]
    BY <1>0, <1>2 DEF ReadTip, CheckPrevious, ReadTipAgain, NoteTip, AppendFails
  <2>3. writer'[w].what = a.what /\ writer'[w].scope = a.scope
    BY <1>0, <1>2
       DEF ReadTip, CheckPrevious, ReadTipAgain, NoteTip, AppendFails, AppendState
  <2>4. writer'[w].at \in {"note", "written"} => a.at \in {"note", "written"}
    BY <1>0, <1>2
       DEF ReadTip, CheckPrevious, ReadTipAgain, NoteTip, AppendFails, AppendState
  <2> QED BY <2>1, <2>2, <2>3, <2>4 DEF OnRecord
<1> QED BY <1>1, <1>2 DEF AppendStep

\* A step that leaves the trail alone and starts, ends or keeps appends.
LEMMA NamedElsewhere ==
  ASSUME NEW v \in Writers, Named(v), chain' = chain,
         \/ writer'[v] = writer[v] /\ op'[v] = op[v]
         \/ writer'[v].at \in {"idle", "tip"} /\ op'[v].kind # "engage"
         \/ /\ writer'[v].at = "tip" /\ writer'[v].what = "engaged"
            /\ writer'[v].scope = op'[v].scope
  PROVE  Named(v)'
BY DEF Named, OnRecord

LEMMA NamedStep ==
  ASSUME TypeOK, [Next]_vars, NEW v \in Writers, Named(v)
  PROVE  Named(v)'
<1>0. /\ writer \in [Writers -> AppendState] /\ op \in [Writers -> OpState]
      /\ Callers \subseteq Writers /\ Operators \subseteq Writers
  BY SwitchAssumption DEF SwitchAssumption, TypeOK, TrailTypeOK, OpState
<1>1. NoAppend.at = "idle" /\ NoOp.kind = "none" BY DEF NoAppend, NoOp
<1>2. \A w, what, s : /\ Appending(w, what, s).at = "tip" /\ Appending(w, what, s).what = what
                      /\ Appending(w, what, s).scope = s
  BY DEF Appending, NoAppend
<1>3. \A kind, s : [NoOp EXCEPT !.kind = kind, !.scope = s].kind = kind
                   /\ [NoOp EXCEPT !.kind = kind, !.scope = s].scope = s
  BY DEF NoOp
<1>4. ASSUME NEW w \in Operators, NEW s \in Scopes, Engage(w, s) PROVE Named(v)'
  <2>1. /\ op' = [op EXCEPT ![w] = [NoOp EXCEPT !.kind = "engage", !.scope = s]]
        /\ writer' = [writer EXCEPT ![w] = Appending(w, "engaged", s)] /\ chain' = chain
    BY <1>4 DEF Engage, Begin, StartRecord
  <2> QED BY <1>0, <1>2, <1>3, <2>1, NamedElsewhere
<1>5. ASSUME NEW w \in Operators, NEW s \in Scopes, Release(w, s) PROVE Named(v)'
  <2>1. /\ op' = [op EXCEPT ![w] = [NoOp EXCEPT !.kind = "release", !.scope = s]]
        /\ writer' = [writer EXCEPT ![w] = Appending(w, "released", s)] /\ chain' = chain
    BY <1>5 DEF Release, Begin, StartRecord
  <2> QED BY <1>0, <1>2, <1>3, <2>1, NamedElsewhere
<1>6. ASSUME NEW w \in Callers, NEW s \in Tenants, Call(w, s) PROVE Named(v)'
  <2>1. /\ op' = [op EXCEPT ![w] = [NoOp EXCEPT !.kind = "global", !.scope = s]]
        /\ op[w].kind = "none" /\ writer' = writer /\ chain' = chain
    BY <1>6 DEF Call, Begin, trailVars
  <2> QED BY <1>0, <1>3, <2>1 DEF Named, OnRecord
<1>7. ASSUME NEW w \in Writers, RecordStep(w) PROVE Named(v)'
  <2>1. op' = op /\ AppendStep(w) BY <1>7 DEF RecordStep
  <2> QED BY <2>1, AppendNames DEF Named
<1>8. ASSUME NEW w \in Writers, Ends(w) PROVE Named(v)'
  BY <1>0, <1>1, <1>8, NamedElsewhere DEF Ends
<1>9. ASSUME NEW w \in Writers, CheckGlobal(w) \/ CheckTenant(w) \/ CheckFails(w)
      PROVE  Named(v)'
  <2>1. CASE v # w
    <3>1. chain' = chain /\ writer'[v] = writer[v] /\ op'[v] = op[v]
      BY <1>0, <1>9, <2>1
         DEF CheckGlobal, CheckTenant, CheckFails, Denied, Goes, StartRecord, trailVars
    <3> QED BY <3>1, NamedElsewhere
  <2>2. CASE v = w
    <3>1. op[w].kind # "engage" /\ op'[w].kind # "engage" /\ chain' = chain
      BY <1>0, <1>9
         DEF CheckGlobal, CheckTenant, CheckFails, Denied, Goes, StartRecord, trailVars,
             InCheck, OpState
    <3>2. writer'[w] = writer[w] \/ writer'[w].at = "tip"
      BY <1>0, <1>2, <1>9
         DEF CheckGlobal, CheckTenant, CheckFails, Denied, Goes, StartRecord, trailVars
    <3> QED BY <2>2, <3>1, <3>2 DEF Named, OnRecord
  <2> QED BY <2>1, <2>2
<1>10. ASSUME NEW w \in Writers, Crash(w) PROVE Named(v)'
  <2>1. /\ chain' = chain
        /\ \/ writer'[v] = writer[v] /\ op'[v] = op[v]
           \/ writer'[v] = NoAppend /\ op'[v] = NoOp
    BY <1>0, <1>10 DEF Crash
  <2> QED BY <1>1, <2>1, NamedElsewhere
<1>11. CASE UNCHANGED vars BY <1>11, NamedElsewhere DEF vars, trailVars
<1>12. ASSUME NEW w \in Writers, Step(w) PROVE Named(v)'
  BY <1>7, <1>8, <1>9, <1>12
     DEF Step, SetHalt, SetHaltFails, EngageRaises, Released, Return, Done
<1>14. ASSUME NEW w \in Operators, ReleaseFails(w) PROVE Named(v)'
  BY <1>14, NamedElsewhere DEF ReleaseFails
<1>13. CASE Next
  <2>1. CASE \E w \in Writers : Step(w) \/ Crash(w)
    <3>1. PICK w \in Writers : Step(w) \/ Crash(w) BY <2>1
    <3> QED BY <3>1, <1>10, <1>12
  <2> QED BY <1>4, <1>5, <1>6, <1>13, <1>14, <2>1 DEF Next
<1> QED BY <1>11, <1>13

LEMMA RecordsKept ==
  ASSUME TypeOK, [Next]_vars, NEW what, NEW s, OnRecord(what, s)
  PROVE  OnRecord(what, s)'
<1>1. CASE \E w \in Writers : RecordStep(w) BY <1>1, AppendNames DEF RecordStep
<1>2. CASE ~\E w \in Writers : RecordStep(w) BY <1>2, OtherAppends DEF OnRecord
<1> QED BY <1>1, <1>2

\* A row is set only by an operator whose engagement was written.
LEMMA HaltRecorded ==
  ASSUME TypeOK, \A w \in Writers : Named(w), [Next]_vars, NEW s \in halt' \ halt
  PROVE  OnRecord("engaged", s)
<1>1. PICK w \in Writers : SetHalt(w) /\ s = op[w].scope
  <2>1. CASE Next
    BY <2>1 DEF Next, Step, Engage, Release, ReleaseFails, Call, RecordStep, SetHalt,
                SetHaltFails, EngageRaises, Released, CheckGlobal, CheckTenant, CheckFails,
                Denied, Goes, Return, Crash
  <2>2. CASE UNCHANGED vars BY <2>2 DEF vars
  <2> QED BY <2>1, <2>2
<1> QED BY <1>1 DEF SetHalt, Named

\* No scope is halted without an engagement of it on the trail.
THEOREM Recorded == Spec => []RecordedBeforeHalted
<1> DEFINE Inv == (\A w \in Writers : Named(w)) /\ \A s \in halt : OnRecord("engaged", s)
<1>1. Init => Inv BY DEF Init, TrailInit, Named, NoAppend, NoOp
<1>2. TypeOK /\ Inv /\ [Next]_vars => Inv'
  <2> SUFFICES ASSUME TypeOK, Inv, [Next]_vars PROVE Inv' OBVIOUS
  <2>1. \A w \in Writers : Named(w)' BY NamedStep
  <2>2. ASSUME NEW s \in halt' PROVE OnRecord("engaged", s)'
    <3>1. OnRecord("engaged", s) BY HaltRecorded
    <3> QED BY <3>1, RecordsKept
  <2> QED BY <2>1, <2>2
<1>3. Inv => RecordedBeforeHalted BY DEF OnRecord, RecordedBeforeHalted
<1> QED BY <1>1, <1>2, <1>3, SwitchTyped, PTL DEF Spec
-------------------------------------------------------------------------------
(* The trail replays to the halts in force, for operators who take turns.   *)

Sets == {"engage", "release"}

\* No operator begins before the operation of another one is over.
OneOperation == \A v, w \in Writers : op[v].kind \in Sets /\ op[w].kind \in Sets => v = w

\* LastSaid, of any sequence of records.
Said(ch, s) ==
  {i \in DOMAIN ch : ch[i].scope = s /\ ch[i].what \in {"engaged", "released"}}

LastOf(ch, s) ==
  IF Said(ch, s) = {} THEN "released"
  ELSE ch[CHOOSE i \in Said(ch, s) : \A j \in Said(ch, s) : j <= i].what

\* The last thing said of a scope exists once something was said.
HasLast(ch, s) == Said(ch, s) # {} => \E i \in Said(ch, s) : \A j \in Said(ch, s) : j <= i

\* A writer appends what its operation is about, and nothing outside of one.
OwnRecord(w) ==
  /\ op[w].kind \in {"none", "global", "tenant"} => writer[w].at = "idle"
  /\ op[w].kind \in Sets => w \in Operators /\ writer[w].at # "idle"
  /\ writer[w].at # "idle" =>
       /\ writer[w].scope = op[w].scope
       /\ writer[w].what = "engaged" <=> op[w].kind = "engage"
       /\ writer[w].what = "released" <=> op[w].kind = "release"
  /\ writer[w].at = "lost" => About(w) \in lost

RecordIsIn(w) == writer[w].at \in {"note", "written"}

Busy(w, s) == op[w].kind \in Sets /\ op[w].scope = s

InForce(s) == s \in halt \cup unset <=> LastOf(chain, s) = "engaged"

\* What an operation on s has made of the row and the trail so far.
Halfway(w, s) ==
  /\ op[w].kind = "engage" =>
       IF RecordIsIn(w) THEN LastOf(chain, s) = "engaged" ELSE InForce(s)
  /\ op[w].kind = "release" =>
       s \notin halt \cup unset /\ (RecordIsIn(w) => LastOf(chain, s) = "released")

Replays(s) ==
  /\ (\A w \in Writers : ~Busy(w, s)) => InForce(s)
  /\ \A w \in Writers : Busy(w, s) => Halfway(w, s)

\* No process died, and no record about s was lost.
Unharmed(s) == crashes = 0 /\ \A l \in lost : l.scope # s

ReplayInv ==
  /\ \A w \in Writers : OwnRecord(w)
  /\ \A s \in Scopes : HasLast(chain, s) /\ (Unharmed(s) => Replays(s))

\* One more record: what it says of its scope is said last, and nothing else of the others.
LEMMA SaidLast ==
  ASSUME NEW ch \in Seq(TrailRecord), NEW r \in TrailRecord, NEW s, HasLast(ch, s)
  PROVE  /\ HasLast(Append(ch, r), s)
         /\ LastOf(Append(ch, r), s) = IF r.scope = s /\ r.what \in {"engaged", "released"}
                                       THEN r.what ELSE LastOf(ch, s)
<1> DEFINE n == Len(ch) + 1
           d == Append(ch, r)
<1>1. /\ Len(ch) \in Nat /\ DOMAIN ch = 1..Len(ch) /\ DOMAIN d = 1..n /\ d[n] = r
      /\ \A i \in DOMAIN ch : i \in DOMAIN d /\ d[i] = ch[i] /\ i < n
  OBVIOUS
<1>2. Said(ch, s) \subseteq DOMAIN ch /\ n \notin DOMAIN ch BY <1>1 DEF Said
<1> HIDE DEF n, d
<1>3. DOMAIN d = DOMAIN ch \cup {n} /\ n \in Nat BY <1>1 DEF n
<1>4. CASE r.scope = s /\ r.what \in {"engaged", "released"}
  <2>1. Said(d, s) = Said(ch, s) \cup {n} BY <1>1, <1>3, <1>4 DEF Said
  <2>2. \A j \in Said(d, s) : j <= n BY <1>1, <1>2, <1>3, <2>1
  <2>3. \A i \in Said(d, s) : (\A j \in Said(d, s) : j <= i) => i = n
    BY <1>1, <1>2, <1>3, <2>1, <2>2
  <2>4. (CHOOSE i \in Said(d, s) : \A j \in Said(d, s) : j <= i) = n BY <2>1, <2>2, <2>3
  <2> QED BY <1>1, <1>4, <2>1, <2>2, <2>4 DEF HasLast, LastOf, d
<1>5. CASE ~(r.scope = s /\ r.what \in {"engaged", "released"})
  <2>1. Said(d, s) = Said(ch, s) BY <1>1, <1>3, <1>5 DEF Said
  <2>2. HasLast(d, s) BY <2>1 DEF HasLast
  <2>3. LastOf(d, s) = LastOf(ch, s)
    <3>1. CASE Said(ch, s) = {} BY <2>1, <3>1 DEF LastOf
    <3>2. CASE Said(ch, s) # {}
      <4> DEFINE i == CHOOSE i \in Said(ch, s) : \A j \in Said(ch, s) : j <= i
      <4>1. i \in Said(ch, s) BY <3>2 DEF HasLast
      <4>2. LastOf(ch, s) = ch[i].what /\ LastOf(d, s) = d[i].what
        BY <2>1, <3>2 DEF LastOf
      <4> HIDE DEF i
      <4> QED BY <1>1, <1>2, <4>1, <4>2
    <3> QED BY <3>1, <3>2
  <2> QED BY <1>5, <2>2, <2>3 DEF d
<1> QED BY <1>4, <1>5

-------------------------------------------------------------------------------
(* Whose record a writer appends.                                           *)

\* The writer is out of any operation.
LEMMA OwnIdle ==
  ASSUME NEW v \in Writers, op'[v].kind = "none", writer'[v].at = "idle"
  PROVE  OwnRecord(v)'
BY DEF OwnRecord, Sets

\* The writer has begun the append of its operation.
LEMMA OwnStarted ==
  ASSUME NEW v \in Writers, writer'[v].at = "tip", writer'[v].scope = op'[v].scope,
         \/ v \in Operators /\ op'[v].kind = "engage" /\ writer'[v].what = "engaged"
         \/ v \in Operators /\ op'[v].kind = "release" /\ writer'[v].what = "released"
         \/ op'[v].kind \in {"go", "deny"} /\ writer'[v].what \in {"acted", "denied"}
  PROVE  OwnRecord(v)'
BY DEF OwnRecord, Sets

\* The step is another writer's.
LEMMA OwnKept ==
  ASSUME NEW v \in Writers, OwnRecord(v), op'[v] = op[v], writer'[v].at = writer[v].at,
         writer'[v].what = writer[v].what, writer'[v].scope = writer[v].scope,
         lost \subseteq lost'
  PROVE  OwnRecord(v)'
BY DEF OwnRecord, About

LEMMA OwnNext ==
  ASSUME TypeOK, NEW v \in Writers, OwnRecord(v), [Next]_vars
  PROVE  OwnRecord(v)'
<1>0. /\ writer \in [Writers -> AppendState] /\ op \in [Writers -> OpState]
      /\ Callers \subseteq Writers /\ Operators \subseteq Writers
      /\ NoAppend.at = "idle" /\ NoOp.kind = "none"
  BY SwitchAssumption DEF SwitchAssumption, TypeOK, TrailTypeOK, OpState, NoAppend, NoOp
<1>1. \A w, what, s : /\ Appending(w, what, s).at = "tip" /\ Appending(w, what, s).what = what
                      /\ Appending(w, what, s).scope = s
  BY DEF Appending, NoAppend
<1>2. \A kind, s : [NoOp EXCEPT !.kind = kind, !.scope = s].kind = kind
                   /\ [NoOp EXCEPT !.kind = kind, !.scope = s].scope = s
  BY DEF NoOp
<1>3. ASSUME NEW w \in Operators, NEW s \in Scopes, Engage(w, s) \/ Release(w, s)
      PROVE  OwnRecord(v)'
  <2>1. CASE v # w
    BY <1>0, <1>3, <2>1, OwnKept DEF Engage, Release, Begin, StartRecord
  <2>2. CASE v = w
    <3>1. /\ op'[v].scope = s /\ writer'[v].scope = s /\ writer'[v].at = "tip"
          /\ \/ op'[v].kind = "engage" /\ writer'[v].what = "engaged"
             \/ op'[v].kind = "release" /\ writer'[v].what = "released"
      <4>1. CASE Engage(w, s)
        <5>1. /\ op' = [op EXCEPT ![w] = [NoOp EXCEPT !.kind = "engage", !.scope = s]]
              /\ writer' = [writer EXCEPT ![w] = Appending(w, "engaged", s)]
          BY <4>1 DEF Engage, Begin, StartRecord
        <5> QED BY <1>0, <1>1, <1>2, <2>2, <5>1
      <4>2. CASE Release(w, s)
        <5>1. /\ op' = [op EXCEPT ![w] = [NoOp EXCEPT !.kind = "release", !.scope = s]]
              /\ writer' = [writer EXCEPT ![w] = Appending(w, "released", s)]
          BY <4>2 DEF Release, Begin, StartRecord
        <5> QED BY <1>0, <1>1, <1>2, <2>2, <5>1
      <4> QED BY <1>3, <4>1, <4>2
    <3> QED BY <2>2, <3>1, OwnStarted
  <2> QED BY <2>1, <2>2
<1>4. ASSUME NEW w \in Callers, NEW s \in Tenants, Call(w, s) PROVE OwnRecord(v)'
  <2>1. writer' = writer /\ lost' = lost BY <1>4 DEF Call, trailVars
  <2>2. CASE v # w BY <1>0, <1>4, <2>1, <2>2, OwnKept DEF Call, Begin
  <2>3. CASE v = w
    <3>1. op[v].kind = "none" /\ op'[v].kind = "global"
      BY <1>0, <1>2, <1>4, <2>3 DEF Call, Begin
    <3> QED BY <2>1, <3>1 DEF OwnRecord, Sets
  <2> QED BY <2>2, <2>3
<1>5. ASSUME NEW w \in Writers, RecordStep(w) PROVE OwnRecord(v)'
  <2>1. op' = op /\ AppendStep(w) BY <1>5 DEF RecordStep
  <2>2. lost \subseteq lost'
    BY <2>1 DEF AppendStep, ReadTip, CheckPrevious, ReadTipAgain, Insert, NoteTip, AppendFails
  <2>3. CASE v # w BY <1>0, <2>1, <2>2, <2>3, AppendNames, OwnKept
  <2>4. CASE v = w
    <3>0. writer[w].at # "idle"
      BY <2>1
         DEF AppendStep, ReadTip, CheckPrevious, ReadTipAgain, Insert, NoteTip, AppendFails
    <3>1. writer'[w].at # "idle" /\ (writer'[w].at = "lost" => About(w) \in lost')
      <4>1. CASE Insert(w) BY <1>0, <4>1 DEF Insert, AppendState
      <4>2. CASE CheckPrevious(w) BY <1>0, <4>2 DEF CheckPrevious, AppendState
      <4>3. CASE ReadTip(w) \/ ReadTipAgain(w) \/ NoteTip(w) \/ AppendFails(w)
        BY <1>0, <4>3 DEF ReadTip, ReadTipAgain, NoteTip, AppendFails, AppendState
      <4> QED BY <2>1, <4>1, <4>2, <4>3 DEF AppendStep
    <3>2. writer'[w].what = writer[w].what /\ writer'[w].scope = writer[w].scope
      BY <2>1, AppendNames
    <3> QED BY <2>1, <2>4, <3>0, <3>1, <3>2 DEF OwnRecord, About, Sets
  <2> QED BY <2>3, <2>4
<1>6. ASSUME NEW w \in Writers, Ends(w) PROVE OwnRecord(v)'
  <2>1. CASE v # w BY <1>0, <1>6, <2>1, OwnKept DEF Ends
  <2>2. CASE v = w BY <1>0, <1>6, <2>2, OwnIdle DEF Ends
  <2> QED BY <2>1, <2>2
<1>7. ASSUME NEW w \in Writers, CheckGlobal(w) \/ CheckTenant(w) \/ CheckFails(w)
      PROVE  OwnRecord(v)'
  <2>1. CASE v # w
    <3>1. writer'[v] = writer[v] /\ op'[v] = op[v] /\ lost' = lost
      BY <1>0, <1>7, <2>1
         DEF CheckGlobal, CheckTenant, CheckFails, Denied, Goes, StartRecord, trailVars
    <3> QED BY <3>1, OwnKept
  <2>2. CASE v = w /\ ~(CheckGlobal(w) /\ Global \notin halt)
    <3>1. /\ op'[v].kind \in {"go", "deny"} /\ op'[v].scope = op[v].scope
          /\ writer'[v].at = "tip" /\ writer'[v].what \in {"acted", "denied"}
          /\ writer'[v].scope = op[v].scope
      BY <1>0, <1>1, <1>7, <2>2
         DEF CheckGlobal, CheckTenant, CheckFails, Denied, Goes, StartRecord, OpState
    <3> QED BY <3>1, OwnStarted
  <2>3. CASE v = w /\ CheckGlobal(w) /\ Global \notin halt
    <3>1. op[v].kind = "global" /\ op'[v].kind = "tenant" /\ writer' = writer /\ lost' = lost
      BY <1>0, <2>3 DEF CheckGlobal, trailVars, OpState
    <3> QED BY <3>1 DEF OwnRecord, Sets
  <2> QED BY <2>1, <2>2, <2>3
<1>8. ASSUME NEW w \in Writers, Crash(w) PROVE OwnRecord(v)'
  <2>1. \/ writer'[v] = writer[v] /\ op'[v] = op[v] /\ lost' = lost
        \/ writer'[v] = NoAppend /\ op'[v] = NoOp
    BY <1>0, <1>8 DEF Crash
  <2> QED BY <1>0, <2>1, OwnIdle, OwnKept
<1>9. CASE UNCHANGED vars BY <1>9, OwnKept DEF vars, trailVars
<1>10. ASSUME NEW w \in Writers, Step(w) PROVE OwnRecord(v)'
  BY <1>5, <1>6, <1>7, <1>10
     DEF Step, SetHalt, SetHaltFails, EngageRaises, Released, Return, Done
<1>12. ASSUME NEW w \in Operators, ReleaseFails(w) PROVE OwnRecord(v)'
  BY <1>12, OwnKept DEF ReleaseFails
<1>11. CASE Next
  <2>1. CASE \E w \in Writers : Step(w) \/ Crash(w)
    <3>1. PICK w \in Writers : Step(w) \/ Crash(w) BY <2>1
    <3> QED BY <3>1, <1>8, <1>10
  <2> QED BY <1>3, <1>4, <1>11, <1>12, <2>1 DEF Next
<1> QED BY <1>9, <1>11

-------------------------------------------------------------------------------
(* What the trail says last of a scope, step by step.                       *)

\* The step is not about the scope.
LEMMA ReplaysKept ==
  ASSUME NEW s \in Scopes, Replays(s), s \in halt' <=> s \in halt,
         s \in unset' <=> s \in unset, LastOf(chain', s) = LastOf(chain, s),
         \A v \in Writers :
           /\ Busy(v, s)' <=> Busy(v, s)
           /\ Busy(v, s) => op'[v].kind = op[v].kind /\ RecordIsIn(v)' = RecordIsIn(v)
  PROVE  Replays(s)'
<1>1. InForce(s)' <=> InForce(s) BY DEF InForce
<1>2. ASSUME NEW v \in Writers, Busy(v, s) PROVE Halfway(v, s)'
  BY <1>1, <1>2 DEF Halfway, Replays
<1> QED BY <1>1, <1>2 DEF Replays

\* Nobody is left at work on the scope.
LEMMA ReplaysDone ==
  ASSUME NEW s \in Scopes, InForce(s)', \A v \in Writers : ~Busy(v, s)'
  PROVE  Replays(s)'
BY DEF Replays

\* Whose operation it is, the other writers are in none.
LEMMA OthersIdle ==
  ASSUME OneOperation, NEW w \in Writers, op[w].kind \in Sets, NEW v \in Writers \ {w}
  PROVE  \A s : ~Busy(v, s)
BY DEF OneOperation, Busy

LEMMA LastInsert ==
  ASSUME TypeOK, NEW s, HasLast(chain, s), NEW w \in Writers, Insert(w)
  PROVE  HasLast(chain', s)
<1> DEFINE a == writer[w]
           r == [what |-> a.what, scope |-> a.scope, prev |-> a.prev, overtaken |-> a.overtaken]
<1>1. chain \in Seq(TrailRecord) /\ r \in TrailRecord
  BY DEF TypeOK, TrailTypeOK, AppendState, TrailRecord
<1>2. chain' = Append(chain, r) BY DEF Insert
<1> HIDE DEF r
<1> QED BY <1>1, <1>2, SaidLast

\* A record of a writer goes in.
LEMMA ReplaysInsert ==
  ASSUME TypeOK, OneOperation, NEW s \in Scopes, HasLast(chain, s), Replays(s),
         NEW w \in Writers, OwnRecord(w), RecordStep(w), Insert(w)
  PROVE  Replays(s)'
<1> DEFINE a == writer[w]
           r == [what |-> a.what, scope |-> a.scope, prev |-> a.prev, overtaken |-> a.overtaken]
<1>0. /\ a \in AppendState /\ writer \in [Writers -> AppendState]
      /\ chain \in Seq(TrailRecord) /\ r \in TrailRecord
  BY DEF TypeOK, TrailTypeOK, AppendState, TrailRecord
<1>1. /\ chain' = Append(chain, r) /\ a.at = "insert" /\ op' = op
      /\ halt' = halt /\ unset' = unset
  BY DEF Insert, RecordStep
<1>2. r.scope = op[w].scope /\ r.what = a.what
      /\ (a.what = "engaged" <=> op[w].kind = "engage")
      /\ (a.what = "released" <=> op[w].kind = "release")
  BY <1>1 DEF OwnRecord
<1> HIDE DEF r
<1>3. LastOf(chain', s) = IF r.scope = s /\ r.what \in {"engaged", "released"}
                          THEN r.what ELSE LastOf(chain, s)
  BY <1>0, <1>1, SaidLast
<1>4. \A v \in Writers \ {w} : writer'[v].at = writer[v].at
  BY AppendNames DEF RecordStep
<1>5. \A v \in Writers : Busy(v, s)' <=> Busy(v, s) BY <1>1 DEF Busy
<1>6. CASE Busy(w, s)
  <2>1. op[w].kind \in Sets /\ op[w].scope = s /\ Halfway(w, s) BY <1>6 DEF Busy, Replays
  <2>2. LastOf(chain', s) = IF op[w].kind = "engage" THEN "engaged" ELSE "released"
    BY <1>2, <1>3, <2>1 DEF Sets
  <2>3. RecordIsIn(w)'
    BY <1>0 DEF Insert, RecordIsIn, AppendState
  <2>4. Halfway(w, s)' BY <1>1, <2>1, <2>2, <2>3 DEF Halfway
  <2>5. \A v \in Writers \ {w} : ~Busy(v, s)' BY <1>5, <2>1, OthersIdle
  <2> QED BY <1>3, <1>5, <1>6, <2>4, <2>5 DEF Replays
<1>7. CASE ~Busy(w, s)
  <2>1. LastOf(chain', s) = LastOf(chain, s) BY <1>2, <1>3, <1>7 DEF Busy, Sets
  <2>2. \A v \in Writers : Busy(v, s) => v # w /\ RecordIsIn(v)' = RecordIsIn(v)
    BY <1>4, <1>7 DEF RecordIsIn
  <2> QED BY <1>1, <1>3, <1>5, <2>1, <2>2, ReplaysKept
<1> QED BY <1>6, <1>7

\* The other steps of an append.
LEMMA ReplaysAppend ==
  ASSUME TypeOK, NEW s \in Scopes, Replays(s), NEW w \in Writers, RecordStep(w), ~Insert(w)
  PROVE  chain' = chain /\ Replays(s)'
<1>0. writer \in [Writers -> AppendState] BY DEF TypeOK, TrailTypeOK
<1>1. ReadTip(w) \/ CheckPrevious(w) \/ ReadTipAgain(w) \/ NoteTip(w) \/ AppendFails(w)
  BY DEF RecordStep, AppendStep
<1>2. chain' = chain
  BY <1>1 DEF ReadTip, CheckPrevious, ReadTipAgain, NoteTip, AppendFails
<1>3. \A v \in Writers : RecordIsIn(v)' = RecordIsIn(v)
  BY <1>0, <1>1 DEF ReadTip, CheckPrevious, ReadTipAgain, NoteTip, AppendFails, RecordIsIn,
                    AppendState
<1>4. op' = op /\ halt' = halt /\ unset' = unset BY DEF RecordStep
<1> QED BY <1>2, <1>3, <1>4, ReplaysKept DEF Busy

\* Engage, release and what an operator does next.
LEMMA ReplaysOperator ==
  ASSUME TypeOK, OneOperation, OneOperation', NEW s \in Scopes, Replays(s), NEW w \in Writers,
         OwnRecord(w), Unharmed(s),
         \/ \E t \in Scopes : Engage(w, t) \/ Release(w, t)
         \/ SetHalt(w) \/ SetHaltFails(w) \/ EngageRaises(w) \/ Released(w)
  PROVE  chain' = chain /\ Replays(s)'
<1>0. /\ writer \in [Writers -> AppendState] /\ op \in [Writers -> OpState]
      /\ op[w].scope \in Scopes /\ NoOp.kind = "none" /\ "none" \notin Sets
  BY DEF TypeOK, TrailTypeOK, OpState, NoOp, Sets
<1>1. \A x, what, t : Appending(x, what, t).at = "tip" BY DEF Appending, NoAppend
<1>2. \A kind, t : [NoOp EXCEPT !.kind = kind, !.scope = t].kind = kind
                   /\ [NoOp EXCEPT !.kind = kind, !.scope = t].scope = t
  BY DEF NoOp
<1>3. ASSUME NEW t \in Scopes, NEW kind \in Sets, NEW what, Begin(w, kind, t),
             StartRecord(w, what, t), halt' = IF kind = "engage" THEN halt ELSE halt \ {t},
             unset' = IF kind = "engage" THEN unset ELSE unset \ {t}
      PROVE  chain' = chain /\ Replays(s)'
  <2>1. /\ op[w].kind = "none" /\ op' = [op EXCEPT ![w] = [NoOp EXCEPT !.kind = kind, !.scope = t]]
        /\ chain' = chain /\ writer'[w].at = "tip"
        /\ \A v \in Writers \ {w} : writer'[v] = writer[v]
    BY <1>0, <1>1, <1>3 DEF Begin, StartRecord
  <2>2. /\ halt' = IF kind = "engage" THEN halt ELSE halt \ {t}
        /\ unset' = IF kind = "engage" THEN unset ELSE unset \ {t}
    BY <1>3
  <2>3. kind \in Sets /\ kind \in {"engage", "release"} BY DEF Sets
  <2>4. op'[w].kind = kind /\ op'[w].scope = t /\ \A v \in Writers \ {w} : op'[v] = op[v]
    BY <1>0, <1>2, <2>1
  <2>5. \A v \in Writers : op[v].kind \notin Sets
    BY <1>0, <2>1, <2>3, <2>4 DEF OneOperation
  <2>6. InForce(s) BY <2>5 DEF Replays, Busy
  <2>7. \A v \in Writers : Busy(v, s)' => v = w /\ t = s BY <2>4, <2>5 DEF Busy
  <2>8. CASE t = s
    <3>1. Halfway(w, s)'
      BY <2>1, <2>2, <2>3, <2>4, <2>6, <2>8 DEF Halfway, InForce, RecordIsIn
    <3>2. Busy(w, s)' BY <2>3, <2>4, <2>8 DEF Busy
    <3> QED BY <2>1, <2>7, <3>1, <3>2 DEF Replays
  <2>9. CASE t # s
    <3>1. InForce(s)' BY <2>1, <2>2, <2>6, <2>9 DEF InForce
    <3> QED BY <2>1, <2>7, <2>9, <3>1, ReplaysDone
  <2> QED BY <2>8, <2>9
<1>4. ASSUME SetHalt(w) \/ SetHaltFails(w) \/ EngageRaises(w) \/ Released(w)
      PROVE  chain' = chain /\ Replays(s)'
  <2>1. /\ op[w].kind \in Sets /\ op' = [op EXCEPT ![w] = NoOp] /\ chain' = chain
        /\ \A v \in Writers \ {w} : writer'[v] = writer[v]
    BY <1>0, <1>4 DEF SetHalt, SetHaltFails, EngageRaises, Released, Done, Ends, Sets
  <2>2. op'[w].kind \notin Sets /\ \A v \in Writers \ {w} : op'[v] = op[v] BY <1>0, <2>1
  <2>3. \A v \in Writers : ~Busy(v, s)'
    BY <2>1, <2>2, OthersIdle DEF Busy
  <2>4. CASE op[w].scope = s
    <3>1. Busy(w, s) /\ Halfway(w, s) BY <2>1, <2>4 DEF Busy, Replays
    <3>2. writer[w].at # "lost"
      <4>1. About(w).scope = op[w].scope
        BY <2>1 DEF OwnRecord, About
      <4> QED BY <2>4, <4>1 DEF OwnRecord, Unharmed
    <3>3. CASE SetHalt(w)
      BY <1>0, <2>1, <2>3, <2>4, <3>1, <3>3, ReplaysDone
         DEF SetHalt, Halfway, RecordIsIn, InForce
    <3>5. CASE SetHaltFails(w)
      BY <1>0, <2>1, <2>3, <2>4, <3>1, <3>5, ReplaysDone
         DEF SetHaltFails, Halfway, RecordIsIn, InForce
    <3>4. CASE Released(w)
      BY <1>0, <2>1, <2>3, <2>4, <3>1, <3>2, <3>4, ReplaysDone
         DEF Released, Halfway, RecordIsIn, InForce
    <3> QED BY <1>4, <3>2, <3>3, <3>4, <3>5 DEF EngageRaises
  <2>5. CASE op[w].scope # s
    <3>1. \A v \in Writers : ~Busy(v, s) BY <2>1, <2>5, OthersIdle DEF Busy
    <3>2. (s \in halt' <=> s \in halt) /\ (s \in unset' <=> s \in unset)
      BY <1>4, <2>5 DEF SetHalt, SetHaltFails, EngageRaises, Released
    <3>3. InForce(s)' BY <2>1, <3>1, <3>2 DEF Replays, InForce
    <3> QED BY <2>1, <2>3, <3>3, ReplaysDone
  <2> QED BY <2>4, <2>5
<1>5. ASSUME NEW t \in Scopes, Engage(w, t) \/ Release(w, t) PROVE chain' = chain /\ Replays(s)'
  <2>1. "engage" \in Sets /\ "release" \in Sets BY DEF Sets
  <2> QED BY <1>3, <1>5, <2>1 DEF Engage, Release
<1> QED BY <1>4, <1>5

\* Calls set and lift nothing.
LEMMA ReplaysCall ==
  ASSUME TypeOK, NEW s \in Scopes, Replays(s), NEW w \in Writers,
         \/ \E t \in Tenants : w \in Callers /\ Call(w, t)
         \/ CheckGlobal(w) \/ CheckTenant(w) \/ CheckFails(w) \/ Return(w)
         \/ ReleaseFails(w)
  PROVE  chain' = chain /\ Replays(s)'
<1>0. /\ writer \in [Writers -> AppendState] /\ op \in [Writers -> OpState] /\ NoOp.kind = "none"
  BY DEF TypeOK, TrailTypeOK, OpState, NoOp
<1>1. \A kind, t : [NoOp EXCEPT !.kind = kind, !.scope = t].kind = kind BY DEF NoOp
<1>2. /\ chain' = chain /\ halt' = halt /\ unset' = unset
      /\ \A v \in Writers \ {w} : op'[v] = op[v] /\ writer'[v] = writer[v]
  BY <1>0 DEF Call, CheckGlobal, CheckTenant, CheckFails, Return, ReleaseFails, Done, Ends,
              Begin, Denied, Goes, StartRecord, trailVars
<1>3. op[w].kind \notin Sets
  BY DEF Call, Begin, CheckGlobal, CheckTenant, CheckFails, InCheck, Return, ReleaseFails, Sets
<1>4. op'[w].kind \notin Sets
  <2>1. CASE \E t \in Tenants : Call(w, t)
    <3>1. PICK t \in Tenants : op' = [op EXCEPT ![w] = [NoOp EXCEPT !.kind = "global", !.scope = t]]
      BY <2>1 DEF Call, Begin
    <3> QED BY <1>0, <1>1, <3>1 DEF Sets
  <2>2. CASE CheckGlobal(w) \/ CheckTenant(w) \/ CheckFails(w) \/ Return(w)
    BY <1>0, <2>2 DEF CheckGlobal, CheckTenant, CheckFails, Return, Done, Ends, Denied, Goes,
                      OpState, Sets
  <2>3. CASE ReleaseFails(w) BY <1>3, <2>3 DEF ReleaseFails
  <2> QED BY <2>1, <2>2, <2>3
<1>5. ~Busy(w, s) /\ ~Busy(w, s)' BY <1>3, <1>4 DEF Busy
<1> QED BY <1>2, <1>5, ReplaysKept DEF Busy, RecordIsIn

LEMMA ReplayNext ==
  ASSUME TypeOK, OneOperation, OneOperation', ReplayInv, [Next]_vars
  PROVE  ReplayInv'
<1>0. Callers \subseteq Writers /\ Operators \subseteq Writers /\ crashes \in Nat
  BY SwitchAssumption DEF SwitchAssumption, TypeOK
<1>1. \A v \in Writers : OwnRecord(v)' BY OwnNext DEF ReplayInv
<1>2. ASSUME NEW s \in Scopes PROVE HasLast(chain, s)' /\ (Unharmed(s)' => Replays(s)')
  <2>0. HasLast(chain, s) /\ (Unharmed(s) => Replays(s)) BY DEF ReplayInv
  <2>1. ASSUME NEW w \in Writers, RecordStep(w)
        PROVE  HasLast(chain, s)' /\ (Unharmed(s)' => Replays(s)')
    <3>1. Unharmed(s)' => Unharmed(s)
      BY <2>1 DEF Unharmed, RecordStep, AppendStep, ReadTip, CheckPrevious, ReadTipAgain, Insert,
                  NoteTip, AppendFails
    <3>2. CASE Insert(w)
      <4>1. HasLast(chain', s) BY <2>0, <3>2, LastInsert
      <4> QED BY <2>0, <2>1, <3>1, <3>2, <4>1, ReplaysInsert DEF ReplayInv
    <3>3. CASE ~Insert(w)
      <4>1. chain' = chain
        BY <2>1, <3>3 DEF RecordStep, AppendStep, ReadTip, CheckPrevious, ReadTipAgain, NoteTip,
                          AppendFails
      <4> QED BY <2>0, <2>1, <3>1, <3>3, <4>1, ReplaysAppend
    <3> QED BY <3>2, <3>3
  <2>2. ASSUME ~\E w \in Writers : RecordStep(w)
        PROVE  HasLast(chain, s)' /\ (Unharmed(s)' => Replays(s)')
    <3>1. chain' = chain BY <2>2, OtherAppends
    <3> SUFFICES ASSUME Unharmed(s)' PROVE Replays(s)' BY <2>0, <3>1
    <3>2. CASE \E w \in Writers : Crash(w)
      <4>1. crashes' # 0 BY <1>0, <3>2 DEF Crash
      <4> QED BY <4>1 DEF Unharmed
    <3>3. CASE UNCHANGED vars
      BY <2>0, <3>1, <3>3, ReplaysKept DEF vars, trailVars, Unharmed, Busy, RecordIsIn
    <3>4. CASE Next /\ ~\E w \in Writers : Crash(w)
      <4>1. PICK w \in Writers :
              \/ \E t \in Scopes : Engage(w, t) \/ Release(w, t)
              \/ SetHalt(w) \/ SetHaltFails(w) \/ EngageRaises(w) \/ Released(w)
              \/ \E t \in Tenants : w \in Callers /\ Call(w, t)
              \/ CheckGlobal(w) \/ CheckTenant(w) \/ CheckFails(w) \/ Return(w)
              \/ ReleaseFails(w)
        BY <1>0, <2>2, <3>4 DEF Next, Step
      <4>2. Unharmed(s)
        BY <4>1 DEF Unharmed, Engage, Release, ReleaseFails, SetHalt, SetHaltFails,
                    EngageRaises, Released, Call, CheckGlobal, CheckTenant, CheckFails, Return,
                    Done, Ends, Denied, Goes, StartRecord, trailVars
      <4> QED BY <2>0, <4>1, <4>2, ReplaysOperator, ReplaysCall DEF ReplayInv
    <3> QED BY <3>2, <3>3, <3>4
  <2> QED BY <2>1, <2>2
<1> QED BY <1>1, <1>2 DEF ReplayInv

\* While operators take turns, what is in force is on the trail, and once the
\* operator is done the trail knows of no other halt than those whose row failed to
\* be set, unless a process died or the record was lost: whatever the calls append
\* at the same time, and whichever accesses fail.
THEOREM TrailKnows == []OneOperation /\ Spec => []TrailKnowsHalts
<1>1. Init => ReplayInv
  <2> SUFFICES ASSUME Init PROVE ReplayInv OBVIOUS
  <2>1. \A w \in Writers : OwnRecord(w)
    BY DEF Init, TrailInit, NoOp, NoAppend, OwnRecord, Sets
  <2>2. \A s : Said(chain, s) = {} BY DEF Init, TrailInit, Said
  <2>3. \A s, w : InForce(s) /\ (w \in Writers => ~Busy(w, s))
    BY <2>2 DEF Init, NoOp, InForce, LastOf, Busy, Sets
  <2> QED BY <2>1, <2>2, <2>3 DEF ReplayInv, HasLast, Replays
<1>2. TypeOK /\ ReplayInv => TrailReplaysHalt
  <2> SUFFICES ASSUME TypeOK, ReplayInv, \A w \in Operators : op[w].kind = "none", crashes = 0,
                      NEW s \in Scopes, \A l \in lost : l.scope # s
               PROVE  s \in halt \cup unset <=> LastSaid(s) = "engaged"
    BY DEF TrailReplaysHalt
  <2>1. \A w \in Writers : ~Busy(w, s) BY DEF ReplayInv, OwnRecord, Busy, Sets
  <2>2. InForce(s) BY <2>1 DEF ReplayInv, Unharmed, Replays
  <2>3. LastSaid(s) = LastOf(chain, s) BY DEF LastSaid, LastOf, Said
  <2> QED BY <2>2, <2>3 DEF InForce
<1>3. RecordedBeforeHalted /\ TrailReplaysHalt => TrailKnowsHalts BY DEF TrailKnowsHalts
<1> QED BY <1>1, <1>2, <1>3, ReplayNext, Recorded, SwitchTyped, PTL DEF Spec

\* One operator, who is one writer, cannot begin an operation during another.
THEOREM OneOperatorSuffices ==
  (\A v, w \in Operators : v = w) /\ Spec => []TrailKnowsHalts
<1> SUFFICES ASSUME \A v, w \in Operators : v = w PROVE Spec => []TrailKnowsHalts
  OBVIOUS
<1> DEFINE Own == \A w \in Writers : OwnRecord(w)
<1>1. Init => Own
  <2> SUFFICES ASSUME Init, NEW w \in Writers PROVE OwnRecord(w) OBVIOUS
  <2> QED BY DEF Init, TrailInit, NoOp, NoAppend, OwnRecord, Sets
<1>2. TypeOK /\ Own /\ [Next]_vars => Own' BY OwnNext
<1>3. Own => OneOperation BY DEF OwnRecord, OneOperation
<1> QED BY <1>1, <1>2, <1>3, TrailKnows, SwitchTyped, PTL DEF Spec
===============================================================================
