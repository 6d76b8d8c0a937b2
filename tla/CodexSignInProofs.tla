---------------------------- MODULE CodexSignInProofs ----------------------------
(***************************************************************************)
(* Proofs about CodexSignIn, for any requests, processes, sessions and     *)
(* limits: its state is well typed, sessions end with their grounds,       *)
(* automatic locks end, what an administrator barred stays barred, and     *)
(* failures exceed their limits by no more than what was under way.        *)
(*                                                                         *)
(* The first three are inductive once the types are known.  BarHolds needs *)
(* what a login knows: Informed says that a login past its judgement read  *)
(* a row that was not barred, and that if the account is barred now, an    *)
(* administrator did it since.  LimitsInv counts the logins that will      *)
(* still add a failure and the ones that are about to lock the account.    *)
(***************************************************************************)
EXTENDS CodexSignIn, FiniteSetTheorems, TLAPS

Barred == {"disabled", "terminated"}

\* Where a login is once it found the account usable or its lock at an end.
Acting == {"reset", "activate", "reread", "right", "wrong", "fail", "count", "lock"}

\* What the request of c has read, against the account.
InformedOf(c) ==
  /\ call[c].bars <= bars
  /\ call[c].at \in Acting => call[c].status \notin Barred
  /\ \/ At(c, "none") \/ call[c].status \in Barred
     \/ status \in Barred => call[c].bars # bars

Informed == \A c \in Callers : InformedOf(c)
-------------------------------------------------------------------------------
(* Types.                                                                   *)

LEMMA NoCallType == NoCall \in Call /\ NoCall.at = "none" /\ NoCall.bars = 0
BY DEF NoCall, Call, Places, Statuses, Untils

LEMMA MoveType ==
  ASSUME TypeOK, NEW c \in Callers, NEW place \in Places, Move(c, place)
  PROVE  call' \in [Callers -> Call]
BY DEF TypeOK, Move, Call

LEMMA EndType == ASSUME TypeOK, NEW c \in Callers, End(c) PROVE call' \in [Callers -> Call]
BY NoCallType DEF TypeOK, End

LEMMA RowType == ASSUME TypeOK, NEW c \in Callers PROVE Row(c) \in Call
BY DEF TypeOK, Row, Call

LEMMA SettleType ==
  ASSUME TypeOK, NEW c \in Callers, NEW row \in Call, NEW right \in BOOLEAN,
         Settle(c, Judged(row, right))
  PROVE  call' \in [Callers -> Call]
<1>1. Judged(row, right) \in Call BY DEF Judged, Call, Places
<1> QED BY <1>1, NoCallType DEF TypeOK, Settle

LEMMA BeginType ==
  ASSUME TypeOK, NEW c \in Callers, NEW kind \in {"login", "logout", "change", "status"},
         NEW place \in Places, NEW s \in Sessions \cup {NoSession}, Begin(c, kind, place, s)
  PROVE  call' \in [Callers -> Call] /\ calls' \in Nat
<1>1. [Row(c) EXCEPT !.kind = kind, !.at = place, !.session = s] \in Call
  BY RowType DEF Call
<1> QED BY <1>1 DEF TypeOK, Begin

LEMMA TypeStep == TypeOK /\ [Next]_vars => TypeOK'
<1> SUFFICES ASSUME TypeOK, [Next]_vars PROVE TypeOK' OBVIOUS
<1> USE DEF account
<1>1. ASSUME NEW c \in Callers, LookUp(c) PROVE TypeOK'
  BY <1>1, BeginType DEF LookUp, TypeOK, Places
<1>2. ASSUME NEW c \in Callers, Reset(c) PROVE TypeOK'
  <2>1. call' \in [Callers -> Call] BY <1>2, MoveType DEF Reset, Places
  <2> QED BY <1>2, <2>1 DEF Reset, TypeOK, Untils
<1>3. ASSUME NEW c \in Callers, Activate(c) PROVE TypeOK'
  BY <1>3, MoveType DEF Activate, Lifted, TypeOK, Places, Statuses
<1>4. ASSUME NEW c \in Callers, NEW right \in BOOLEAN, Judge(c, right) PROVE TypeOK'
  <2>1. call[c] \in Call BY DEF TypeOK
  <2>2. call' \in [Callers -> Call]
    BY <1>4, <2>1, EndType, MoveType, SettleType DEF Judge, Places
  <2> QED BY <1>4, <2>2 DEF Judge, TypeOK
<1>5. ASSUME NEW c \in Callers, NEW right \in BOOLEAN, Reread(c, right) PROVE TypeOK'
  BY <1>5, RowType, SettleType DEF Reread, TypeOK
<1>6. ASSUME NEW c \in Callers, Hit(c) PROVE TypeOK'
  BY <1>6, MoveType DEF Hit, TypeOK, Places
<1>7. ASSUME NEW c \in Callers, Fail(c) PROVE TypeOK'
  BY <1>7, MoveType DEF Fail, TypeOK, Places
<1>8. ASSUME NEW c \in Callers, Count(c) PROVE TypeOK'
  BY <1>8, MoveType, EndType DEF Count, TypeOK, Places
<1>9. ASSUME NEW c \in Callers, Lock(c) PROVE TypeOK'
  BY <1>9, EndType DEF Lock, TypeOK, Statuses, Untils
<1>10. ASSUME NEW c \in Callers, ClearHits(c) PROVE TypeOK'
  BY <1>10, MoveType DEF ClearHits, TypeOK, Places
<1>11. ASSUME NEW c \in Callers, Fresh(c) PROVE TypeOK'
  BY <1>11, MoveType, EndType DEF Fresh, TypeOK, Places
<1>12. ASSUME NEW c \in Callers, NEW s \in Sessions, Issue(c, s) PROVE TypeOK'
  <2>1. call[c].pw \in Nat /\ call[c].bars \in Nat BY DEF TypeOK, Call
  <2>2. Overtaken(c) \in BOOLEAN BY DEF Overtaken
  <2>3. session' \in [Sessions -> Session] BY <1>12, <2>1, <2>2 DEF Issue, TypeOK, Session
  <2> QED BY <1>12, <2>3, EndType DEF Issue, TypeOK
<1>13. ASSUME NEW c \in Callers, NEW s \in Sessions, NEW kind \in {"logout", "change"},
              Enter(c, s, kind)
       PROVE  TypeOK'
  BY <1>13, BeginType DEF Enter, TypeOK, Places
<1>14. ASSUME NEW c \in Callers, Guard(c) PROVE TypeOK'
  <2>1. [Row(c) EXCEPT !.at = "guarded"] \in Call BY RowType DEF Call, Places
  <2> QED BY <1>14, <2>1, EndType DEF Guard, TypeOK
<1>15. ASSUME NEW c \in Callers, Logout(c) PROVE TypeOK'
  <2>1. session' \in [Sessions -> Session] BY <1>15 DEF Logout, TypeOK, Session
  <2> QED BY <1>15, <2>1, EndType DEF Logout, TypeOK
<1>16. ASSUME NEW c \in Callers, WrongOldPassword(c) PROVE TypeOK'
  BY <1>16, EndType DEF WrongOldPassword, TypeOK
<1>17. ASSUME NEW c \in Callers, SetPassword(c) PROVE TypeOK'
  BY <1>17, MoveType DEF SetPassword, TypeOK, Places
<1>18. ASSUME NEW c \in Callers, RevokeAll(c) PROVE TypeOK'
  <2>1. session' \in [Sessions -> Session] BY <1>18 DEF RevokeAll, TypeOK, Session
  <2> QED BY <1>18, <2>1, EndType DEF RevokeAll, TypeOK
<1>19. ASSUME NEW c \in Callers, NEW st \in Statuses, SetStatus(c, st) PROVE TypeOK'
  <2>1. call' \in [Callers -> Call] /\ calls' \in Nat
    BY <1>19, BeginType DEF SetStatus, TypeOK, Places
  <2> QED BY <1>19, <2>1 DEF SetStatus, Lifted, TypeOK
<1>20. ASSUME NEW c \in Callers, Crash(c) PROVE TypeOK'
  <2>1. call' \in [Callers -> Call] BY <1>20, NoCallType DEF Crash, TypeOK
  <2>2. cut' \subseteq {"revoke", "activate", "cleared"}
    <3>1. cut' \subseteq cut \cup {"revoke", "activate"} BY <1>20, Zenon DEF Crash
    <3> QED BY <3>1 DEF TypeOK
  <2>3. crashes' = crashes + 1 /\ UNCHANGED <<account, hits, session, calls>>
    BY <1>20 DEF Crash
  <2> QED BY <2>1, <2>2, <2>3 DEF TypeOK
<1>21. CASE LockExpires
  <2>1. call' \in [Callers -> Call] BY <1>21 DEF LockExpires, TypeOK, Call, Untils
  <2> QED BY <1>21, <2>1 DEF LockExpires, TypeOK, Untils
<1>22. CASE WindowEnds BY <1>22 DEF WindowEnds, TypeOK
<1>23. CASE UNCHANGED vars BY <1>23 DEF vars, TypeOK
<1> QED
  BY <1>1, <1>2, <1>3, <1>4, <1>5, <1>6, <1>7, <1>8, <1>9, <1>10, <1>11, <1>12, <1>13, <1>14,
     <1>15, <1>16, <1>17, <1>18, <1>19, <1>20, <1>21, <1>22, <1>23 DEF Next

LEMMA TypeInit == Init => TypeOK
BY NoCallType DEF Init, TypeOK, Statuses, Untils, Session, Unissued

\* Every reachable state is well typed.
THEOREM SignInTyped == Spec => []TypeOK
BY TypeInit, TypeStep, PTL DEF Spec
-------------------------------------------------------------------------------
(* Sessions.                                                                *)

LEMMA SessionsStep ==
  TypeOK /\ SessionsEndWithTheirGrounds /\ [Next]_vars => SessionsEndWithTheirGrounds'
<1> SUFFICES ASSUME TypeOK, SessionsEndWithTheirGrounds, [Next]_vars
             PROVE  SessionsEndWithTheirGrounds'
  OBVIOUS
<1> USE DEF account, At
\* A step of a caller that was not about to revoke leaves the others where they are.
<1>1. ASSUME NEW c \in Callers, ~At(c, "revoke"), UNCHANGED <<session, pw, bars, cut>>,
             \A d \in Callers \ {c} : call'[d] = call[d]
      PROVE  SessionsEndWithTheirGrounds'
  BY <1>1 DEF SessionsEndWithTheirGrounds
<1>2. ASSUME NEW c \in Callers, call'[c].at = "revoke" PROVE SessionsEndWithTheirGrounds'
  BY <1>2 DEF SessionsEndWithTheirGrounds
<1>3. ASSUME NEW c \in Callers,
             \/ LookUp(c) \/ Activate(c) \/ Hit(c) \/ Fail(c) \/ Count(c) \/ Lock(c)
             \/ ClearHits(c) \/ Fresh(c) \/ Guard(c) \/ WrongOldPassword(c)
             \/ \E right \in BOOLEAN : Judge(c, right) \/ Reread(c, right)
             \/ \E s \in Sessions, kind \in {"logout", "change"} : Enter(c, s, kind)
      PROVE  SessionsEndWithTheirGrounds'
  <2>1. ~At(c, "revoke") /\ UNCHANGED <<session, pw, bars, cut>>
    BY <1>3 DEF LookUp, Activate, Hit, Fail, Count, Lock, ClearHits, Fresh, Guard,
                WrongOldPassword, Judge, Reread, Enter, Begin
  <2>2. \A d \in Callers \ {c} : call'[d] = call[d]
    BY <1>3 DEF TypeOK, LookUp, Activate, Hit, Fail, Count, Lock, ClearHits, Fresh, Guard,
                WrongOldPassword, Judge, Reread, Enter, Begin, Move, End, Settle
  <2> QED BY <2>1, <2>2, <1>1
<1>4. ASSUME NEW c \in Callers, Reset(c) PROVE SessionsEndWithTheirGrounds'
  <2>1. cut \subseteq cut' /\ UNCHANGED <<session, pw, bars>> /\ ~At(c, "revoke")
    BY <1>4 DEF Reset
  <2>2. \A d \in Callers \ {c} : call'[d] = call[d] BY <1>4 DEF Reset, Move, TypeOK
  <2> QED BY <2>1, <2>2 DEF SessionsEndWithTheirGrounds
<1>5. ASSUME NEW c \in Callers, NEW s \in Sessions, Issue(c, s)
      PROVE  SessionsEndWithTheirGrounds'
  <2>1. ~At(c, "revoke") /\ UNCHANGED <<pw, bars, cut>> BY <1>5 DEF Issue
  <2>2. \A d \in Callers \ {c} : call'[d] = call[d] BY <1>5 DEF Issue, End, TypeOK
  <2>3. /\ session'[s].pw = call[c].pw /\ session'[s].bars = call[c].bars
        /\ session'[s].late = Overtaken(c)
        /\ \A q \in Sessions \ {s} : session'[q] = session[q]
    BY <1>5 DEF Issue, TypeOK
  <2> QED BY <2>1, <2>2, <2>3 DEF SessionsEndWithTheirGrounds, Overtaken
<1>6. ASSUME NEW c \in Callers, Logout(c) PROVE SessionsEndWithTheirGrounds'
  <2>1. ~At(c, "revoke") /\ UNCHANGED <<pw, bars, cut>> BY <1>6 DEF Logout
  <2>2. \A d \in Callers \ {c} : call'[d] = call[d] BY <1>6 DEF Logout, End, TypeOK
  <2>3. \A q \in Sessions : session'[q].state = "live" => session'[q] = session[q]
    BY <1>6 DEF Logout, TypeOK, Session
  <2> QED BY <2>1, <2>2, <2>3 DEF SessionsEndWithTheirGrounds
<1>7. ASSUME NEW c \in Callers, SetPassword(c) PROVE SessionsEndWithTheirGrounds'
  <2>1. call'[c].at = "revoke" BY <1>7 DEF SetPassword, Move, TypeOK, Call
  <2> QED BY <2>1, <1>2
<1>8. ASSUME NEW c \in Callers, RevokeAll(c) PROVE SessionsEndWithTheirGrounds'
  <2>1. \A q \in Sessions : session'[q].state # "live" BY <1>8 DEF RevokeAll, TypeOK, Session
  <2> QED BY <2>1 DEF SessionsEndWithTheirGrounds
<1>9. ASSUME NEW c \in Callers, NEW st \in Statuses, SetStatus(c, st)
      PROVE  SessionsEndWithTheirGrounds'
  <2>1. CASE st = "active"
    BY <1>9, <2>1 DEF SetStatus, SessionsEndWithTheirGrounds
  <2>2. CASE st # "active"
    <3>1. Begin(c, "status", "revoke", NoSession) BY <1>9, <2>2 DEF SetStatus
    <3>2. call'[c].at = "revoke" BY <3>1, RowType DEF Begin, TypeOK, Call
    <3> QED BY <3>2, <1>2
  <2> QED BY <2>1, <2>2
<1>10. ASSUME NEW c \in Callers, Crash(c) PROVE SessionsEndWithTheirGrounds'
  <2>1. UNCHANGED <<session, pw, bars>> /\ cut \subseteq cut' BY <1>10 DEF Crash
  <2>2. ASSUME NEW d \in Callers, At(d, "revoke")
        PROVE  call'[d] = call[d] \/ "revoke" \in cut'
    BY <1>10, <2>2 DEF Crash
  <2> QED BY <2>1, <2>2 DEF SessionsEndWithTheirGrounds
<1>11. CASE LockExpires
  <2>1. UNCHANGED <<session, pw, bars, cut>> BY <1>11 DEF LockExpires
  <2>2. \A d \in Callers : call'[d].at = call[d].at BY <1>11 DEF LockExpires, TypeOK, Call
  <2> QED BY <2>1, <2>2 DEF SessionsEndWithTheirGrounds
<1>12. CASE WindowEnds BY <1>12 DEF WindowEnds, SessionsEndWithTheirGrounds
<1>13. CASE UNCHANGED vars BY <1>13 DEF vars, SessionsEndWithTheirGrounds
<1> QED
  BY <1>3, <1>4, <1>5, <1>6, <1>7, <1>8, <1>9, <1>10, <1>11, <1>12, <1>13 DEF Next

\* A live session was issued for the password in force and after the last time the
\* account was taken out of use, but for a revocation under way or cut off, and for
\* a login that verified before the change (change_password, set_user_status).
THEOREM SessionsEnd == Spec => []SessionsEndWithTheirGrounds
<1>1. Init => SessionsEndWithTheirGrounds
  BY DEF Init, SessionsEndWithTheirGrounds, Unissued
<1> QED BY <1>1, SignInTyped, SessionsStep, PTL DEF Spec
-------------------------------------------------------------------------------
(* Locks.                                                                   *)

LEMMA LockStep == TypeOK /\ AutomaticLockEnds /\ [Next]_vars => AutomaticLockEnds'
<1> SUFFICES ASSUME TypeOK, AutomaticLockEnds, [Next]_vars PROVE AutomaticLockEnds'
  OBVIOUS
<1> USE DEF account, At
\* A step of a caller that was not about to activate leaves the others where they are.
<1>1. ASSUME NEW c \in Callers, ~At(c, "activate"), UNCHANGED <<status, until, lockedBy, cut>>,
             \A d \in Callers \ {c} : call'[d] = call[d]
      PROVE  AutomaticLockEnds'
  BY <1>1 DEF AutomaticLockEnds
<1>2. ASSUME NEW c \in Callers,
             \/ LookUp(c) \/ Hit(c) \/ Fail(c) \/ Count(c) \/ ClearHits(c) \/ Fresh(c)
             \/ Guard(c) \/ WrongOldPassword(c) \/ SetPassword(c) \/ RevokeAll(c) \/ Logout(c)
             \/ \E right \in BOOLEAN : Judge(c, right) \/ Reread(c, right)
             \/ \E s \in Sessions : Issue(c, s)
             \/ \E s \in Sessions, kind \in {"logout", "change"} : Enter(c, s, kind)
      PROVE  AutomaticLockEnds'
  <2>1. ~At(c, "activate") /\ UNCHANGED <<status, until, lockedBy, cut>>
    BY <1>2 DEF LookUp, Hit, Fail, Count, ClearHits, Fresh, Guard, WrongOldPassword,
                SetPassword, RevokeAll, Logout, Judge, Reread, Issue, Enter, Begin
  <2>2. \A d \in Callers \ {c} : call'[d] = call[d]
    BY <1>2 DEF TypeOK, LookUp, Hit, Fail, Count, ClearHits, Fresh, Guard, WrongOldPassword,
                SetPassword, RevokeAll, Logout, Judge, Reread, Issue, Enter, Begin, Move, End,
                Settle
  <2> QED BY <2>1, <2>2, <1>1
<1>3. ASSUME NEW c \in Callers, Reset(c) PROVE AutomaticLockEnds'
  <2>1. CASE At(c, "reset")
    <3>1. call'[c].at = "activate" BY <1>3, <2>1 DEF Reset, Move, TypeOK, Call
    <3> QED BY <3>1 DEF AutomaticLockEnds
  <2>2. CASE At(c, "right")
    BY <1>3, <2>2 DEF Reset, AutomaticLockEnds
  <2> QED BY <1>3, <2>1, <2>2 DEF Reset
<1>4. ASSUME NEW c \in Callers, Activate(c) PROVE AutomaticLockEnds'
  BY <1>4 DEF Activate, AutomaticLockEnds
<1>5. ASSUME NEW c \in Callers, Lock(c) PROVE AutomaticLockEnds'
  BY <1>5 DEF Lock, AutomaticLockEnds
<1>6. ASSUME NEW c \in Callers, NEW st \in Statuses, SetStatus(c, st) PROVE AutomaticLockEnds'
  BY <1>6 DEF SetStatus, AutomaticLockEnds
<1>7. ASSUME NEW c \in Callers, Crash(c) PROVE AutomaticLockEnds'
  <2>1. UNCHANGED <<status, until, lockedBy>> /\ cut \subseteq cut' BY <1>7 DEF Crash
  <2>2. ASSUME NEW d \in Callers, At(d, "activate")
        PROVE  call'[d] = call[d] \/ "activate" \in cut'
    BY <1>7, <2>2 DEF Crash
  <2> QED BY <2>1, <2>2 DEF AutomaticLockEnds
<1>8. CASE LockExpires BY <1>8 DEF LockExpires, AutomaticLockEnds
<1>9. CASE WindowEnds BY <1>9 DEF WindowEnds, AutomaticLockEnds
<1>10. CASE UNCHANGED vars BY <1>10 DEF vars, AutomaticLockEnds
<1> QED BY <1>2, <1>3, <1>4, <1>5, <1>6, <1>7, <1>8, <1>9, <1>10 DEF Next

\* The lock of a login that failed too often has an end, but for a login that is
\* lifting an older lock, or cleared this one (lock_account, reset_failed_attempts).
THEOREM LocksEnd == Spec => []AutomaticLockEnds
<1>1. Init => AutomaticLockEnds BY DEF Init, AutomaticLockEnds
<1> QED BY <1>1, SignInTyped, LockStep, PTL DEF Spec
-------------------------------------------------------------------------------
(* What an administrator barred.                                            *)

LEMMA InformedStep == TypeOK /\ Informed /\ [Next]_vars => Informed'
<1> SUFFICES ASSUME TypeOK, Informed, [Next]_vars PROVE Informed' OBVIOUS
<1> USE DEF account, At
<1>1. ASSUME NEW c \in Callers, UNCHANGED bars, status' = status \/ status' \notin Barred,
             \A d \in Callers \ {c} : call'[d] = call[d], InformedOf(c)'
      PROVE  Informed'
  BY <1>1 DEF Informed, InformedOf
\* A request that ends knows nothing.
<1>2. ASSUME NEW c \in Callers, UNCHANGED <<status, bars>>, call'[c] = NoCall
      PROVE  InformedOf(c)'
  BY <1>2, NoCallType DEF InformedOf, TypeOK, Acting
\* A request that read the account just now knows how it is.
<1>3. ASSUME NEW c \in Callers, UNCHANGED <<status, bars>>,
             call'[c].status = status /\ call'[c].bars = bars,
             call'[c].at \in Acting => status \notin Barred
      PROVE  InformedOf(c)'
  BY <1>3 DEF InformedOf, TypeOK
\* A request that moved on keeps what it read.
<1>4. ASSUME NEW c \in Callers, UNCHANGED bars, status' = status \/ status' \notin Barred,
             call'[c].status = call[c].status /\ call'[c].bars = call[c].bars,
             ~At(c, "none"), call'[c].at \in Acting => call[c].status \notin Barred
      PROVE  InformedOf(c)'
  BY <1>4 DEF Informed, InformedOf
<1>5. ASSUME NEW c \in Callers, NEW place \in Places, Move(c, place)
      PROVE  /\ call'[c].status = call[c].status /\ call'[c].bars = call[c].bars
             /\ call'[c].at = place
             /\ \A d \in Callers \ {c} : call'[d] = call[d]
  BY <1>5 DEF Move, TypeOK, Call
<1>6. ASSUME NEW c \in Callers, End(c)
      PROVE  call'[c] = NoCall /\ \A d \in Callers \ {c} : call'[d] = call[d]
  BY <1>6 DEF End, TypeOK
<1>7. ASSUME NEW c \in Callers, NEW kind, NEW place, NEW s, Begin(c, kind, place, s)
      PROVE  /\ call'[c].status = status /\ call'[c].bars = bars /\ call'[c].at = place
             /\ \A d \in Callers \ {c} : call'[d] = call[d]
  BY <1>7 DEF Begin, Row, TypeOK, Call
<1>8. ASSUME NEW c \in Callers, NEW right \in BOOLEAN, NEW row \in Call,
             Settle(c, Judged(row, right))
      PROVE  /\ \/ call'[c] = NoCall
                \/ /\ call'[c].status = row.status /\ call'[c].bars = row.bars
                   /\ row.status = "active"
             /\ \A d \in Callers \ {c} : call'[d] = call[d]
  BY <1>8 DEF Settle, Judged, TypeOK, Call
<1>9. ASSUME NEW c \in Callers, \/ Reset(c) \/ Activate(c) \/ Hit(c) \/ Fail(c) \/ ClearHits(c)
                                \/ SetPassword(c)
      PROVE  Informed'
  <2>1. PICK place \in Places : Move(c, place)
    BY <1>9 DEF Reset, Activate, Hit, Fail, ClearHits, SetPassword, Places
  <2>2. UNCHANGED bars /\ (status' = status \/ status' \notin Barred) /\ ~At(c, "none")
    BY <1>9 DEF Reset, Activate, Hit, Fail, ClearHits, SetPassword, Barred
  <2>3. place \in Acting => At(c, "right") \/ call[c].at \in Acting
    BY <1>9, <2>1, <1>5 DEF Reset, Activate, Hit, Fail, ClearHits, SetPassword, Acting, Move,
                            TypeOK, Call
  <2>4. place \in Acting => call[c].status \notin Barred
    BY <2>3 DEF Informed, InformedOf, Acting
  <2> QED BY <2>1, <2>2, <2>4, <1>5, <1>4, <1>1
<1>10. ASSUME NEW c \in Callers, \/ Count(c) \/ Fresh(c) PROVE Informed'
  <2>1. UNCHANGED <<status, bars>> /\ ~At(c, "none") BY <1>10 DEF Count, Fresh
  <2>2. CASE End(c) BY <2>1, <2>2, <1>6, <1>2, <1>1
  <2>3. CASE Count(c) /\ Move(c, "lock")
    <3>1. call[c].status \notin Barred BY <2>3 DEF Count, Informed, InformedOf, Acting
    <3> QED BY <2>1, <2>3, <3>1, <1>5, <1>4, <1>1 DEF Places
  <2>4. CASE Move(c, "issue")
    BY <2>1, <2>4, <1>5, <1>4, <1>1 DEF Places, Acting
  <2> QED BY <1>10, <2>2, <2>3, <2>4 DEF Count, Fresh
<1>11. ASSUME NEW c \in Callers,
              \/ Lock(c) \/ Logout(c) \/ WrongOldPassword(c) \/ RevokeAll(c)
              \/ \E s \in Sessions : Issue(c, s)
       PROVE  Informed'
  <2>1. End(c) BY <1>11 DEF Lock, Logout, WrongOldPassword, RevokeAll, Issue
  <2>2. UNCHANGED bars /\ (status' = status \/ status' \notin Barred)
    BY <1>11 DEF Lock, Logout, WrongOldPassword, RevokeAll, Issue, Barred
  <2>3. InformedOf(c)' BY <2>1, <2>2, <1>6, NoCallType DEF InformedOf, TypeOK, Acting
  <2> QED BY <2>1, <2>2, <2>3, <1>6, <1>1
<1>12. ASSUME NEW c \in Callers, LookUp(c) PROVE Informed'
  <2>1. Begin(c, "login", "looked", NoSession) /\ UNCHANGED <<status, bars>>
    BY <1>12 DEF LookUp
  <2> QED BY <2>1, <1>7, <1>3, <1>1 DEF Acting
<1>13. ASSUME NEW c \in Callers, NEW s \in Sessions, NEW kind \in {"logout", "change"},
              Enter(c, s, kind)
       PROVE  Informed'
  <2>1. Begin(c, kind, "verified", s) /\ UNCHANGED <<status, bars>> BY <1>13 DEF Enter
  <2> QED BY <2>1, <1>7, <1>3, <1>1 DEF Acting
<1>14. ASSUME NEW c \in Callers, Guard(c) PROVE Informed'
  <2>1. UNCHANGED <<status, bars>> BY <1>14 DEF Guard
  <2>2. CASE End(c) BY <2>1, <2>2, <1>6, <1>2, <1>1
  <2>3. CASE call' = [call EXCEPT ![c] = [Row(c) EXCEPT !.at = "guarded"]]
    <3>1. /\ call'[c].status = status /\ call'[c].bars = bars /\ call'[c].at = "guarded"
          /\ \A d \in Callers \ {c} : call'[d] = call[d]
      BY <2>3 DEF Row, TypeOK, Call
    <3> QED BY <2>1, <3>1, <1>3, <1>1 DEF Acting
  <2> QED BY <1>14, <2>2, <2>3 DEF Guard
<1>15. ASSUME NEW c \in Callers, NEW right \in BOOLEAN, Judge(c, right) PROVE Informed'
  <2>1. UNCHANGED <<status, bars>> /\ ~At(c, "none") BY <1>15 DEF Judge
  <2>2. CASE End(c) BY <2>1, <2>2, <1>6, <1>2, <1>1
  <2>3. CASE call[c].status = "locked" /\ Move(c, "reset")
    BY <2>1, <2>3, <1>5, <1>4, <1>1 DEF Places, Barred
  <2>4. CASE Settle(c, Judged(call[c], right))
    <3>1. call[c] \in Call BY DEF TypeOK
    <3>2. CASE call'[c] = NoCall BY <2>1, <2>4, <3>1, <3>2, <1>8, <1>2, <1>1
    <3>3. CASE /\ call'[c].status = call[c].status /\ call'[c].bars = call[c].bars
               /\ call[c].status = "active"
      BY <2>1, <2>4, <3>1, <3>3, <1>8, <1>4, <1>1 DEF Barred
    <3> QED BY <2>4, <3>1, <3>2, <3>3, <1>8
  <2> QED BY <1>15, <2>2, <2>3, <2>4 DEF Judge
<1>16. ASSUME NEW c \in Callers, NEW right \in BOOLEAN, Reread(c, right) PROVE Informed'
  <2>1. UNCHANGED <<status, bars>> /\ Settle(c, Judged(Row(c), right)) BY <1>16 DEF Reread
  <2>2. Row(c) \in Call /\ Row(c).status = status /\ Row(c).bars = bars
    BY RowType DEF Row, TypeOK, Call
  <2>3. CASE call'[c] = NoCall BY <2>1, <2>2, <2>3, <1>8, <1>2, <1>1
  <2>4. CASE /\ call'[c].status = Row(c).status /\ call'[c].bars = Row(c).bars
             /\ Row(c).status = "active"
    BY <2>1, <2>2, <2>4, <1>8, <1>3, <1>1 DEF Barred
  <2> QED BY <2>1, <2>2, <2>3, <2>4, <1>8
<1>17. ASSUME NEW c \in Callers, NEW st \in Statuses, SetStatus(c, st) PROVE Informed'
  <2>1. CASE st = "active"
    BY <1>17, <2>1 DEF SetStatus, Informed, InformedOf, Barred
  <2>2. CASE st # "active"
    <3>1. bars' = bars + 1 /\ Begin(c, "status", "revoke", NoSession)
      BY <1>17, <2>2 DEF SetStatus
    <3>2. \A d \in Callers : call[d].bars \in Nat /\ call[d].bars <= bars
      BY DEF Informed, InformedOf, TypeOK, Call
    <3>3. InformedOf(c)' BY <3>1, <1>7 DEF InformedOf, TypeOK, Acting
    <3>4. ASSUME NEW d \in Callers \ {c} PROVE InformedOf(d)'
      BY <3>1, <3>2, <1>7 DEF Informed, InformedOf, TypeOK
    <3> QED BY <3>3, <3>4 DEF Informed
  <2> QED BY <2>1, <2>2
<1>18. ASSUME NEW c \in Callers, Crash(c) PROVE Informed'
  <2>1. UNCHANGED <<status, bars>> BY <1>18 DEF Crash
  <2>2. \A d \in Callers : call'[d] = NoCall \/ call'[d] = call[d] BY <1>18 DEF Crash
  <2> QED BY <2>1, <2>2, <1>2 DEF Informed, InformedOf
<1>19. CASE LockExpires
  <2>1. UNCHANGED <<status, bars>> BY <1>19 DEF LockExpires
  <2>2. \A d \in Callers : /\ call'[d].at = call[d].at /\ call'[d].status = call[d].status
                           /\ call'[d].bars = call[d].bars
    BY <1>19 DEF LockExpires, TypeOK, Call
  <2> QED BY <2>1, <2>2 DEF Informed, InformedOf
<1>20. CASE WindowEnds BY <1>20 DEF WindowEnds, Informed, InformedOf
<1>21. CASE UNCHANGED vars BY <1>21 DEF vars, Informed, InformedOf
<1> QED
  BY <1>9, <1>10, <1>11, <1>12, <1>13, <1>14, <1>15, <1>16, <1>17, <1>18, <1>19, <1>20, <1>21
  DEF Next

\* Only the two statements of a login that write the status can lift a bar, and
\* the login that gets there read the row before the account was barred.
LEMMA BarStep ==
  ASSUME TypeOK, Informed, Next, status \in Barred, status' # status, lockedBy' = "login"
  PROVE  \E c \in Callers : Overtaken(c) /\ call'[c].at # call[c].at
<1> USE DEF account, At
<1>1. ASSUME NEW c \in Callers, Activate(c) \/ Lock(c)
      PROVE  Overtaken(c) /\ call'[c].at # call[c].at
  <2>1. call[c].at \in {"activate", "lock"} BY <1>1 DEF Activate, Lock
  <2>2. call[c].bars # bars BY <2>1 DEF Informed, InformedOf, Acting
  <2>3. call'[c].at \in {"reread", "none"}
    BY <1>1, NoCallType DEF Activate, Lock, Move, End, TypeOK, Call
  <2> QED BY <2>1, <2>2, <2>3 DEF Overtaken
<1>2. \E c \in Callers : Activate(c) \/ Lock(c)
  BY DEF Next, LookUp, Reset, Judge, Reread, Hit, Fail, Count, ClearHits, Fresh, Issue, Enter,
         Guard, Logout, WrongOldPassword, SetPassword, RevokeAll, SetStatus, LockExpires,
         WindowEnds, Crash
<1> QED BY <1>1, <1>2

\* No login brings back, or merely locks, an account that an administrator took out
\* of use before the login read its row (service.login against set_user_status).
THEOREM BarredStays == Spec => BarHolds
<1>1. Init => Informed BY NoCallType DEF Init, Informed, InformedOf, Acting, At
<1>2. TypeOK /\ Informed /\ [Next]_vars =>
        [(status \in {"disabled", "terminated"}) /\ status' # status /\ lockedBy' = "login" =>
           \E c \in Callers : Overtaken(c) /\ call'[c].at # call[c].at]_vars
  BY BarStep DEF Barred
<1> QED BY <1>1, <1>2, SignInTyped, InformedStep, PTL DEF Spec, BarHolds
-------------------------------------------------------------------------------
(* How far the limits on failures are exceeded.                             *)

\* A request that is between two statements of a coroutine.
Between(r) == r.at \notin {"none", "verified", "guarded"}

\* The logins that will add to the window of the login name, the ones that will add
\* a failure, and the ones that added one and may lock the account for it.
Hitting(r) == r.at \in {"reset", "activate", "reread", "wrong"}

Trying(r) ==
  \/ r.at \in {"activate", "reread", "wrong", "fail"}
  \/ r.at = "looked" /\ r.status = "active"

Locking(r) == r.at \in {"count", "lock"}

Hitters(k) == {c \in Callers : Hitting(k[c])}
Tryers(k) == {c \in Callers : Trying(k[c])}
Lockers(k) == {c \in Callers : Locking(k[c])}

\* A process runs one coroutine at a time; logout is in worker threads only.
Alone(k) ==
  /\ \A c \in Callers : k[c].kind = "logout" => k[c].at \in {"verified", "guarded"}
  /\ \A c, d \in Callers : Between(k[c]) /\ Between(k[d]) /\ Home[c] = Home[d] => c = d

\* What is beyond a limit was under way, or locks the account in a moment, unless it
\* is locked, was activated with its failures, or who would lock it died.
LimitsInv ==
  LET P == Cardinality(Processes) IN
  /\ Alone(call)
  /\ hits + Cardinality(Hitters(call)) <= MaxHits - 1 + P
  /\ failed + Cardinality(Tryers(call)) <= MaxFailed - 1 + P * lifts + P + crashes
  /\ status = "active" =>
       failed <= MaxFailed - 1 + Cardinality(Lockers(call)) + P * lifts + crashes

LEMMA ProcessesFinite == IsFiniteSet(Processes) /\ Cardinality(Processes) \in Nat
<1> DEFINE f == [c \in Callers |-> Home[c]]
<1>1. f \in Surjection(Callers, Processes) BY DEF Processes, Surjection
<1>2. IsFiniteSet(Callers) BY SignInAssumption DEF SignInAssumption
<1> HIDE DEF f
<1>3. IsFiniteSet(Processes) BY <1>1, <1>2, FS_Surjection
<1> QED BY <1>3, FS_CardinalityType

\* No more requests are between two statements than there are processes.
LEMMA OnePerProcess ==
  ASSUME NEW k, Alone(k), NEW S \in SUBSET Callers, \A c \in S : Between(k[c])
  PROVE  IsFiniteSet(S) /\ Cardinality(S) \in Nat /\ Cardinality(S) <= Cardinality(Processes)
<1>1. IsFiniteSet(S) /\ Cardinality(S) \in Nat
  BY SignInAssumption, FS_Subset, FS_CardinalityType DEF SignInAssumption
<1> SUFFICES ASSUME ~(Cardinality(S) <= Cardinality(Processes)) PROVE FALSE BY <1>1
<1> DEFINE f == [c \in S |-> Home[c]]
<1>2. f \in [S -> Processes] BY DEF Processes
<1>3. Cardinality(Processes) < Cardinality(S) BY <1>1, ProcessesFinite
<1> HIDE DEF f
<1>4. PICK x, y \in S : x # y /\ f[x] = f[y]
  BY <1>1, <1>2, <1>3, ProcessesFinite, FS_PigeonHole
<1>5. Home[x] = Home[y] BY <1>4 DEF f
<1> QED BY <1>4, <1>5 DEF Alone

\* The numbers of requests in each part of a login.
LEMMA Numbers ==
  ASSUME NEW k, Alone(k)
  PROVE  /\ Cardinality(Hitters(k)) \in Nat /\ Cardinality(Tryers(k)) \in Nat
         /\ Cardinality(Lockers(k)) \in Nat
         /\ Cardinality(Hitters(k)) <= Cardinality(Processes)
         /\ Cardinality(Tryers(k)) + Cardinality(Lockers(k)) <= Cardinality(Processes)
<1>1. /\ \A c \in Hitters(k) : Between(k[c])
      /\ \A c \in Tryers(k) : Between(k[c]) /\ c \notin Lockers(k)
      /\ \A c \in Lockers(k) : Between(k[c])
  BY DEF Hitters, Tryers, Lockers, Hitting, Trying, Locking, Between
<1>2. {Hitters(k), Tryers(k), Lockers(k), Tryers(k) \cup Lockers(k)} \subseteq SUBSET Callers
  BY DEF Hitters, Tryers, Lockers
<1>3. /\ IsFiniteSet(Tryers(k)) /\ IsFiniteSet(Lockers(k))
      /\ Cardinality(Tryers(k)) \in Nat /\ Cardinality(Lockers(k)) \in Nat
      /\ Cardinality(Hitters(k)) \in Nat
      /\ Cardinality(Hitters(k)) <= Cardinality(Processes)
      /\ Cardinality(Tryers(k) \cup Lockers(k)) <= Cardinality(Processes)
  BY <1>1, <1>2, OnePerProcess
<1>4. Tryers(k) \cap Lockers(k) = {} BY <1>1
<1>5. Cardinality(Tryers(k) \cup Lockers(k)) = Cardinality(Tryers(k)) + Cardinality(Lockers(k))
  <2>1. Cardinality(Tryers(k) \cup Lockers(k)) =
          Cardinality(Tryers(k)) + Cardinality(Lockers(k)) - Cardinality(Tryers(k) \cap Lockers(k))
    BY <1>3, FS_Union
  <2>2. Cardinality(Tryers(k) \cap Lockers(k)) = 0 BY <1>4, FS_EmptySet
  <2> QED BY <1>3, <2>1, <2>2
<1> QED BY <1>3, <1>5

\* One member more or less.
LEMMA OneMore ==
  ASSUME NEW S \in SUBSET Callers, NEW T \in SUBSET Callers, NEW c \in Callers,
         S \ {c} = T \ {c}
  PROVE  Cardinality(T) = Cardinality(S) - (IF c \in S THEN 1 ELSE 0) + (IF c \in T THEN 1 ELSE 0)
<1>1. IsFiniteSet(S) /\ IsFiniteSet(T) /\ Cardinality(S) \in Nat /\ Cardinality(T) \in Nat
  BY SignInAssumption, FS_Subset, FS_CardinalityType DEF SignInAssumption
<1>2. /\ Cardinality(S \ {c}) = IF c \in S THEN Cardinality(S) - 1 ELSE Cardinality(S)
      /\ Cardinality(T \ {c}) = IF c \in T THEN Cardinality(T) - 1 ELSE Cardinality(T)
  BY <1>1, FS_RemoveElement
<1> DEFINE a == Cardinality(S)
           b == Cardinality(T)
           u == Cardinality(S \ {c})
<1>3. /\ a \in Nat /\ b \in Nat
      /\ u = IF c \in S THEN a - 1 ELSE a
      /\ u = IF c \in T THEN b - 1 ELSE b
  BY <1>1, <1>2
<1> HIDE DEF a, b, u
<1>4. b = a - (IF c \in S THEN 1 ELSE 0) + (IF c \in T THEN 1 ELSE 0)
  BY <1>3
<1> QED BY <1>4 DEF a, b

\* What one request does to the numbers.
LEMMA OneMoves ==
  ASSUME NEW k, NEW m, NEW c \in Callers, \A d \in Callers \ {c} : m[d] = k[d]
  PROVE  /\ Cardinality(Hitters(m)) =
              Cardinality(Hitters(k)) - (IF Hitting(k[c]) THEN 1 ELSE 0)
                                      + (IF Hitting(m[c]) THEN 1 ELSE 0)
         /\ Cardinality(Tryers(m)) =
              Cardinality(Tryers(k)) - (IF Trying(k[c]) THEN 1 ELSE 0)
                                     + (IF Trying(m[c]) THEN 1 ELSE 0)
         /\ Cardinality(Lockers(m)) =
              Cardinality(Lockers(k)) - (IF Locking(k[c]) THEN 1 ELSE 0)
                                      + (IF Locking(m[c]) THEN 1 ELSE 0)
<1>1. /\ Hitters(k) \ {c} = Hitters(m) \ {c}
      /\ c \in Hitters(k) <=> Hitting(k[c])
      /\ c \in Hitters(m) <=> Hitting(m[c])
  BY DEF Hitters
<1>2. /\ Tryers(k) \ {c} = Tryers(m) \ {c}
      /\ c \in Tryers(k) <=> Trying(k[c])
      /\ c \in Tryers(m) <=> Trying(m[c])
  BY DEF Tryers
<1>3. /\ Lockers(k) \ {c} = Lockers(m) \ {c}
      /\ c \in Lockers(k) <=> Locking(k[c])
      /\ c \in Lockers(m) <=> Locking(m[c])
  BY DEF Lockers
<1>4. {Hitters(k), Hitters(m), Tryers(k), Tryers(m), Lockers(k), Lockers(m)}
        \subseteq SUBSET Callers
  BY DEF Hitters, Tryers, Lockers
<1>5. Cardinality(Hitters(m)) = Cardinality(Hitters(k)) - (IF Hitting(k[c]) THEN 1 ELSE 0)
                                                        + (IF Hitting(m[c]) THEN 1 ELSE 0)
  BY <1>1, <1>4, OneMore
<1>6. Cardinality(Tryers(m)) = Cardinality(Tryers(k)) - (IF Trying(k[c]) THEN 1 ELSE 0)
                                                      + (IF Trying(m[c]) THEN 1 ELSE 0)
  BY <1>2, <1>4, OneMore
<1>7. Cardinality(Lockers(m)) = Cardinality(Lockers(k)) - (IF Locking(k[c]) THEN 1 ELSE 0)
                                                        + (IF Locking(m[c]) THEN 1 ELSE 0)
  BY <1>3, <1>4, OneMore
<1> QED BY <1>5, <1>6, <1>7

\* A request goes between two statements only as the one coroutine of its process.
LEMMA AloneStep ==
  ASSUME Alone(call), NEW c \in Callers, \A d \in Callers \ {c} : call'[d] = call[d],
         Between(call'[c]) => Between(call[c]) \/ LoopFree(c),
         call'[c].kind = "logout" => call'[c].at \in {"verified", "guarded"}
  PROVE  Alone(call')
<1>1. ASSUME NEW d \in Callers \ {c}, Between(call'[c]), Between(call'[d]), Home[d] = Home[c]
      PROVE  FALSE
  <2>1. Between(call[d]) /\ call[d].kind # "logout" BY <1>1 DEF Alone, Between
  <2>2. ~LoopFree(c) BY <1>1, <2>1 DEF LoopFree, Between
  <2> QED BY <1>1, <2>1, <2>2 DEF Alone
<1> QED BY <1>1 DEF Alone

LEMMA Times == \A p, x \in Nat : p * x \in Nat /\ p * (x + 1) = p * x + p
OBVIOUS

\* A request that has just begun.
LEMMA BeginAt ==
  ASSUME TypeOK, NEW c \in Callers, NEW kind, NEW place, NEW s, Begin(c, kind, place, s)
  PROVE  /\ call[c].at = "none" /\ call'[c].kind = kind /\ call'[c].at = place
         /\ call'[c].status = status /\ \A d \in Callers \ {c} : call'[d] = call[d]
<1>1. call' = [call EXCEPT ![c] = [Row(c) EXCEPT !.kind = kind, !.at = place, !.session = s]]
  BY DEF Begin
<1>2. /\ [Row(c) EXCEPT !.kind = kind, !.at = place, !.session = s].kind = kind
      /\ [Row(c) EXCEPT !.kind = kind, !.at = place, !.session = s].at = place
      /\ [Row(c) EXCEPT !.kind = kind, !.at = place, !.session = s].status = status
  BY DEF Row, TypeOK, Call
<1> QED BY <1>1, <1>2 DEF Begin, At, TypeOK

\* A step of one request, by what it does to the counters and to its part of a login.
LEMMA LimitsFrame ==
  ASSUME TypeOK, TypeOK', LimitsInv, NEW c \in Callers, Alone(call'),
         \A d \in Callers \ {c} : call'[d] = call[d], crashes' = crashes,
         \/ hits' = 0
         \/ hits' = hits /\ (Hitting(call'[c]) => Hitting(call[c]) \/ hits < MaxHits)
         \/ hits' = hits + 1 /\ Hitting(call[c]) /\ ~Hitting(call'[c]),
         \/ failed' = 0
         \/ /\ failed' = failed + 1 /\ UNCHANGED <<lifts, status>>
            /\ Trying(call[c]) /\ ~Trying(call'[c]) /\ ~Locking(call[c]) /\ Locking(call'[c])
         \/ /\ UNCHANGED <<failed, lifts, status>>
            /\ Trying(call'[c]) => Trying(call[c]) \/ status = "active"
            /\ Locking(call[c]) => Locking(call'[c]) \/ failed < MaxFailed
         \/ /\ UNCHANGED <<failed, lifts>> /\ status' # "active"
            /\ Trying(call'[c]) => Trying(call[c])
         \/ /\ failed' = failed /\ lifts' = lifts + 1
            /\ Trying(call'[c]) => Trying(call[c])
  PROVE  LimitsInv'
<1> DEFINE P == Cardinality(Processes)
           h == Cardinality(Hitters(call))
           t == Cardinality(Tryers(call))
           l == Cardinality(Lockers(call))
           hh == Cardinality(Hitters(call'))
           tt == Cardinality(Tryers(call'))
           ll == Cardinality(Lockers(call'))
           n == P * lifts
           nn == P * lifts'
<1>1. /\ P \in Nat /\ h \in Nat /\ t \in Nat /\ l \in Nat /\ h <= P /\ t + l <= P
      /\ hh \in Nat /\ tt \in Nat /\ ll \in Nat /\ hh <= P /\ tt + ll <= P
  <2>1. P \in Nat BY ProcessesFinite
  <2>2. Alone(call) BY DEF LimitsInv
  <2>3. h \in Nat /\ t \in Nat /\ l \in Nat /\ h <= P /\ t + l <= P BY <2>2, Numbers
  <2>4. hh \in Nat /\ tt \in Nat /\ ll \in Nat /\ hh <= P /\ tt + ll <= P BY Numbers
  <2> QED BY <2>1, <2>3, <2>4
<1>2. /\ hh = h - (IF Hitting(call[c]) THEN 1 ELSE 0) + (IF Hitting(call'[c]) THEN 1 ELSE 0)
      /\ tt = t - (IF Trying(call[c]) THEN 1 ELSE 0) + (IF Trying(call'[c]) THEN 1 ELSE 0)
      /\ ll = l - (IF Locking(call[c]) THEN 1 ELSE 0) + (IF Locking(call'[c]) THEN 1 ELSE 0)
  BY OneMoves
<1>3. /\ hits \in Nat /\ failed \in Nat /\ lifts \in Nat /\ crashes \in Nat
      /\ hits' \in Nat /\ failed' \in Nat /\ lifts' \in Nat /\ crashes' \in Nat
      /\ MaxHits \in Nat \ {0} /\ MaxFailed \in Nat \ {0}
  BY SignInAssumption DEF TypeOK, SignInAssumption
<1>4. n \in Nat /\ nn \in Nat /\ (lifts' = lifts => nn = n) /\ (lifts' = lifts + 1 => nn = n + P)
  BY <1>1, <1>3, Times
<1>5. /\ hits + h <= MaxHits - 1 + P
      /\ failed + t <= MaxFailed - 1 + n + P + crashes
      /\ status = "active" => failed <= MaxFailed - 1 + l + n + crashes
  BY DEF LimitsInv
<1> HIDE DEF P, h, t, l, hh, tt, ll, n, nn
<1>6. hits' + hh <= MaxHits - 1 + P
  <2>1. CASE hits' = 0 BY <1>1, <1>3, <2>1
  <2>2. CASE hits' = hits /\ (Hitting(call'[c]) => Hitting(call[c]) \/ hits < MaxHits)
    BY <1>1, <1>2, <1>3, <1>5, <2>2
  <2>3. CASE hits' = hits + 1 /\ Hitting(call[c]) /\ ~Hitting(call'[c])
    BY <1>1, <1>2, <1>3, <1>5, <2>3
  <2> QED BY <2>1, <2>2, <2>3
<1>7. /\ failed' + tt <= MaxFailed - 1 + nn + P + crashes'
      /\ status' = "active" => failed' <= MaxFailed - 1 + ll + nn + crashes'
  <2>1. CASE failed' = 0 BY <1>1, <1>3, <1>4, <2>1
  <2>2. CASE /\ failed' = failed + 1 /\ UNCHANGED <<lifts, status>>
             /\ Trying(call[c]) /\ ~Trying(call'[c]) /\ ~Locking(call[c]) /\ Locking(call'[c])
    BY <1>1, <1>2, <1>3, <1>4, <1>5, <2>2
  <2>3. CASE /\ UNCHANGED <<failed, lifts, status>>
             /\ Trying(call'[c]) => Trying(call[c]) \/ status = "active"
             /\ Locking(call[c]) => Locking(call'[c]) \/ failed < MaxFailed
    BY <1>1, <1>2, <1>3, <1>4, <1>5, <2>3
  <2>4. CASE /\ UNCHANGED <<failed, lifts>> /\ status' # "active"
             /\ Trying(call'[c]) => Trying(call[c])
    BY <1>1, <1>2, <1>3, <1>4, <1>5, <2>4
  <2>5. CASE /\ failed' = failed /\ lifts' = lifts + 1
             /\ Trying(call'[c]) => Trying(call[c])
    BY <1>1, <1>2, <1>3, <1>4, <1>5, <2>5
  <2> QED BY <2>1, <2>2, <2>3, <2>4, <2>5
<1> QED BY <1>6, <1>7 DEF LimitsInv, P, hh, tt, ll, nn

\* The statements of a login.
LEMMA LimitsLogin ==
  ASSUME TypeOK, TypeOK', LimitsInv, NEW c \in Callers,
         \/ LookUp(c) \/ Reset(c) \/ Activate(c)
         \/ \E right \in BOOLEAN : Judge(c, right) \/ Reread(c, right)
         \/ Hit(c) \/ Fail(c) \/ Count(c) \/ Lock(c) \/ ClearHits(c) \/ Fresh(c)
         \/ \E s \in Sessions : Issue(c, s)
  PROVE  LimitsInv'
<1> USE DEF account, At
<1>0. /\ call \in [Callers -> Call] /\ call[c] \in Call /\ Alone(call)
      /\ failed \in Nat /\ hits \in Nat
      /\ NoCall.at = "none" /\ NoCall.kind = "none"
  BY DEF TypeOK, LimitsInv, NoCall
<1>1. \A d \in Callers \ {c} : call'[d] = call[d]
  BY <1>0 DEF LookUp, Reset, Activate, Judge, Reread, Hit, Fail, Count, Lock, ClearHits, Fresh,
              Issue, Begin, Move, End, Settle
<1>2. crashes' = crashes
  BY DEF LookUp, Reset, Activate, Judge, Reread, Hit, Fail, Count, Lock, ClearHits, Fresh, Issue
<1> USE DEF Hitting, Trying, Locking
<1>3. CASE LookUp(c)
  <2>1. call'[c].kind = "login" /\ call'[c].at = "looked" /\ call'[c].status = status
        /\ call[c].at = "none"
    BY <1>0, <1>3 DEF LookUp, Begin, Row, Call
  <2>2. Alone(call') BY <1>0, <1>1, <1>3, <2>1, AloneStep DEF LookUp
  <2> QED BY <1>1, <1>2, <1>3, <2>1, <2>2, LimitsFrame DEF LookUp
\* The other statements are of a login that is between two of them.
<1>4. ASSUME Between(call[c]), call'[c].kind # "logout" PROVE Alone(call')
  BY <1>0, <1>1, <1>4, AloneStep
<1>5. Between(call[c]) => call[c].kind # "logout" BY <1>0 DEF Alone, Between
<1>6. CASE Reset(c)
  <2>1. /\ call[c].at \in {"reset", "right"} /\ call'[c].kind = call[c].kind
        /\ call'[c].at = IF call[c].at = "reset" THEN "activate" ELSE "clear"
    BY <1>0, <1>6 DEF Reset, Move, Call
  <2>2. Alone(call') BY <1>4, <1>5, <2>1 DEF Between
  <2> QED BY <1>1, <1>2, <1>6, <2>1, <2>2, LimitsFrame DEF Reset
<1>7. CASE Activate(c)
  <2>1. call[c].at = "activate" /\ call'[c].kind = call[c].kind /\ call'[c].at = "reread"
    BY <1>0, <1>7 DEF Activate, Move, Call
  <2>2. Alone(call') BY <1>4, <1>5, <2>1 DEF Between
  <2>3. failed' = failed /\ (failed' = 0 \/ lifts' = lifts + 1) /\ hits' = hits
    BY <1>0, <1>7 DEF Activate, Lifted
  <2> QED BY <1>1, <1>2, <2>1, <2>2, <2>3, LimitsFrame
<1>8. ASSUME NEW right \in BOOLEAN, Judge(c, right) PROVE LimitsInv'
  <2>1. /\ call[c].at = "looked"
        /\ \/ call'[c] = NoCall
           \/ /\ call'[c].kind = call[c].kind /\ call'[c].at \in {"reset", "right", "wrong"}
              /\ hits < MaxHits /\ (call'[c].at = "wrong" => call[c].status = "active")
    <3>1. MaxHits \in Nat BY SignInAssumption DEF SignInAssumption
    <3> QED BY <1>0, <1>8, <3>1 DEF Judge, End, Move, Settle, Judged, Call
  <2>2. Alone(call') BY <1>0, <1>4, <1>5, <2>1 DEF Between
  <2>3. UNCHANGED <<hits, failed, lifts, status>> BY <1>8 DEF Judge
  <2> QED BY <1>0, <1>1, <1>2, <2>1, <2>2, <2>3, LimitsFrame
<1>9. ASSUME NEW right \in BOOLEAN, Reread(c, right) PROVE LimitsInv'
  <2>1. /\ call[c].at = "reread"
        /\ \/ call'[c] = NoCall
           \/ call'[c].kind = call[c].kind /\ call'[c].at \in {"right", "wrong"}
    BY <1>0, <1>9 DEF Reread, Settle, Judged, Row, Call
  <2>2. Alone(call') BY <1>0, <1>4, <1>5, <2>1 DEF Between
  <2>3. UNCHANGED <<hits, failed, lifts, status>> BY <1>9 DEF Reread
  <2> QED BY <1>0, <1>1, <1>2, <2>1, <2>2, <2>3, LimitsFrame
<1>10. CASE Hit(c)
  <2>1. call[c].at = "wrong" /\ call'[c].kind = call[c].kind /\ call'[c].at = "fail"
    BY <1>0, <1>10 DEF Hit, Move, Call
  <2>2. Alone(call') BY <1>4, <1>5, <2>1 DEF Between
  <2> QED BY <1>1, <1>2, <1>10, <2>1, <2>2, LimitsFrame DEF Hit
<1>11. CASE Fail(c)
  <2>1. call[c].at = "fail" /\ call'[c].kind = call[c].kind /\ call'[c].at = "count"
    BY <1>0, <1>11 DEF Fail, Move, Call
  <2>2. Alone(call') BY <1>4, <1>5, <2>1 DEF Between
  <2> QED BY <1>1, <1>2, <1>11, <2>1, <2>2, LimitsFrame DEF Fail
<1>12. CASE Count(c)
  <2>0. MaxFailed \in Nat BY SignInAssumption DEF SignInAssumption
  <2>1. /\ call[c].at = "count"
        /\ \/ call'[c] = NoCall /\ failed < MaxFailed
           \/ call'[c].kind = call[c].kind /\ call'[c].at = "lock"
    BY <1>0, <1>12, <2>0 DEF Count, Move, End, Call
  <2>2. Alone(call') BY <1>0, <1>4, <1>5, <2>1 DEF Between
  <2> QED BY <1>0, <1>1, <1>2, <1>12, <2>1, <2>2, LimitsFrame DEF Count
<1>13. CASE Lock(c)
  <2>1. call[c].at = "lock" /\ call'[c] = NoCall BY <1>0, <1>13 DEF Lock, End
  <2>2. Alone(call') BY <1>0, <1>4, <2>1 DEF Between
  <2> QED BY <1>0, <1>1, <1>2, <1>13, <2>1, <2>2, LimitsFrame DEF Lock
<1>14. CASE ClearHits(c) \/ Fresh(c) \/ \E s \in Sessions : Issue(c, s)
  <2>1. /\ call[c].at \in {"clear", "fresh", "issue"}
        /\ \/ call'[c] = NoCall
           \/ call'[c].kind = call[c].kind /\ call'[c].at \in {"fresh", "issue"}
    BY <1>0, <1>14 DEF ClearHits, Fresh, Issue, Move, End, Call
  <2>2. Alone(call') BY <1>0, <1>4, <1>5, <2>1 DEF Between
  <2>3. UNCHANGED <<failed, lifts, status>> /\ (hits' = hits \/ hits' = 0)
    BY <1>14 DEF ClearHits, Fresh, Issue
  <2> QED BY <1>0, <1>1, <1>2, <2>1, <2>2, <2>3, LimitsFrame
<1> QED BY <1>3, <1>6, <1>7, <1>8, <1>9, <1>10, <1>11, <1>12, <1>13, <1>14

\* Requests with a session, and administration.
LEMMA LimitsOthers ==
  ASSUME TypeOK, TypeOK', LimitsInv, NEW c \in Callers,
         \/ \E s \in Sessions, kind \in {"logout", "change"} : Enter(c, s, kind)
         \/ Guard(c) \/ Logout(c) \/ WrongOldPassword(c) \/ SetPassword(c) \/ RevokeAll(c)
         \/ \E st \in Statuses : SetStatus(c, st)
  PROVE  LimitsInv'
<1> USE DEF account, At
<1>0. call \in [Callers -> Call] /\ call[c] \in Call /\ Alone(call) /\ failed \in Nat
      /\ NoCall.at = "none" /\ NoCall.kind = "none"
  BY DEF TypeOK, LimitsInv, NoCall
<1>1. \A d \in Callers \ {c} : call'[d] = call[d]
  BY <1>0 DEF Enter, Guard, Logout, WrongOldPassword, SetPassword, RevokeAll, SetStatus, Begin,
              Move, End
<1>2. crashes' = crashes /\ hits' = hits
  BY DEF Enter, Guard, Logout, WrongOldPassword, SetPassword, RevokeAll, SetStatus
<1>3. ASSUME Between(call'[c]) => Between(call[c]) \/ LoopFree(c),
             call'[c].kind = "logout" => call'[c].at \in {"verified", "guarded"},
             ~Trying(call'[c]), ~Hitting(call'[c]), ~Locking(call[c]),
             \/ UNCHANGED <<failed, lifts, status>>
             \/ UNCHANGED <<failed, lifts>> /\ status' # "active"
      PROVE  LimitsInv'
  <2>1. Alone(call') BY <1>0, <1>1, <1>3, AloneStep
  <2> QED BY <1>1, <1>2, <1>3, <2>1, LimitsFrame
<1> USE DEF Hitting, Trying, Locking, Between
<1>4. CASE \/ \E s \in Sessions, kind \in {"logout", "change"} : Enter(c, s, kind)
           \/ Guard(c) \/ Logout(c) \/ WrongOldPassword(c) \/ RevokeAll(c)
  <2>1. /\ call[c].at \in {"none", "verified", "guarded", "revoke"}
        /\ call'[c] = NoCall \/ call'[c].at \in {"verified", "guarded"}
    <3>1. CASE \E s \in Sessions, kind \in {"logout", "change"} : Enter(c, s, kind)
      BY <3>1, BeginAt DEF Enter
    <3>2. CASE Guard(c)
      <4>1. [Row(c) EXCEPT !.at = "guarded"].at = "guarded" BY <1>0 DEF Row, Call
      <4> QED BY <1>0, <3>2, <4>1 DEF Guard, End
    <3>3. CASE Logout(c) \/ WrongOldPassword(c) \/ RevokeAll(c)
      BY <1>0, <3>3 DEF Logout, WrongOldPassword, RevokeAll, End
    <3> QED BY <1>4, <3>1, <3>2, <3>3
  <2>2. UNCHANGED <<failed, lifts, status>>
    BY <1>4 DEF Enter, Guard, Logout, WrongOldPassword, RevokeAll
  <2> QED BY <1>0, <1>3, <2>1, <2>2
<1>5. CASE SetPassword(c)
  <2>1. /\ call[c].at = "guarded" /\ call'[c].at = "revoke" /\ call'[c].kind = "change"
        /\ LoopFree(c)
    BY <1>0, <1>5 DEF SetPassword, Move, Call
  <2> QED BY <1>3, <1>5, <2>1 DEF SetPassword
<1>6. ASSUME NEW st \in Statuses, SetStatus(c, st) PROVE LimitsInv'
  <2>1. CASE st # "active"
    <3>1. /\ call[c].at = "none" /\ call'[c].at = "revoke" /\ call'[c].kind = "status"
          /\ LoopFree(c)
      BY <1>6, <2>1, BeginAt DEF SetStatus
    <3> QED BY <1>3, <1>6, <2>1, <3>1 DEF SetStatus
  <2>2. CASE st = "active"
    <3>1. call' = call /\ failed' = failed /\ (failed' = 0 \/ lifts' = lifts + 1)
      BY <1>0, <1>6, <2>2 DEF SetStatus, Lifted
    <3> QED BY <1>0, <1>1, <1>2, <3>1, LimitsFrame
  <2> QED BY <2>1, <2>2
<1> QED BY <1>4, <1>5, <1>6

\* A process dies with its one coroutine, which may have been about to lock.
LEMMA LimitsCrash ==
  ASSUME TypeOK, TypeOK', LimitsInv, NEW c \in Callers, Crash(c)
  PROVE  LimitsInv'
<1> DEFINE P == Cardinality(Processes)
           h == Cardinality(Hitters(call))
           t == Cardinality(Tryers(call))
           l == Cardinality(Lockers(call))
           hh == Cardinality(Hitters(call'))
           tt == Cardinality(Tryers(call'))
           ll == Cardinality(Lockers(call'))
           n == P * lifts
<1>0. /\ UNCHANGED <<hits, failed, lifts, status>> /\ crashes' = crashes + 1
      /\ \A d \in Callers : \/ call'[d] = call[d] /\ Home[d] # Home[c]
                            \/ call'[d] = NoCall /\ Home[d] = Home[c]
      /\ NoCall.at = "none" /\ NoCall.kind = "none"
  BY DEF Crash, account, NoCall
<1>1. Alone(call) /\ Alone(call') BY <1>0 DEF LimitsInv, Alone, Between
<1>2. /\ Hitters(call') \subseteq Hitters(call) /\ Tryers(call') \subseteq Tryers(call)
      /\ Lockers(call') \subseteq Lockers(call)
  BY <1>0 DEF Hitters, Tryers, Lockers, Hitting, Trying, Locking
<1>3. \A k : Hitters(k) \in SUBSET Callers /\ Tryers(k) \in SUBSET Callers
             /\ Lockers(k) \in SUBSET Callers
  BY DEF Hitters, Tryers, Lockers
<1>4. \A S \in SUBSET Callers : IsFiniteSet(S) /\ Cardinality(S) \in Nat
  BY SignInAssumption, FS_Subset, FS_CardinalityType DEF SignInAssumption
<1>5. hh <= h /\ tt <= t BY <1>2, <1>3, <1>4, FS_Subset
<1>6. l <= ll + 1
  <2>1. PICK d \in Callers : Lockers(call) \ {d} = Lockers(call') \ {d}
    <3>1. CASE \E d \in Callers : d \in Lockers(call) /\ Home[d] = Home[c]
      <4>1. PICK d \in Callers : d \in Lockers(call) /\ Home[d] = Home[c] BY <3>1
      <4>2. \A e \in Lockers(call) \ {d} : e \in Lockers(call')
        BY <1>0, <1>1, <4>1 DEF Lockers, Locking, Alone, Between
      <4> QED BY <1>2, <4>2
    <3>2. CASE ~\E d \in Callers : d \in Lockers(call) /\ Home[d] = Home[c]
      <4>1. \A e \in Lockers(call) : e \in Lockers(call') BY <1>0, <3>2 DEF Lockers
      <4> QED BY <1>2, <4>1
    <3> QED BY <3>1, <3>2
  <2>2. ll = l - (IF d \in Lockers(call) THEN 1 ELSE 0) + (IF d \in Lockers(call') THEN 1 ELSE 0)
    BY <1>3, <2>1, OneMore
  <2>3. l \in Nat /\ ll \in Nat BY <1>3, <1>4
  <2> HIDE DEF l, ll
  <2> QED BY <2>2, <2>3
<1>7. /\ hits + h <= MaxHits - 1 + P
      /\ failed + t <= MaxFailed - 1 + n + P + crashes
      /\ status = "active" => failed <= MaxFailed - 1 + l + n + crashes
  BY DEF LimitsInv
<1>8. /\ P \in Nat /\ h \in Nat /\ t \in Nat /\ l \in Nat /\ hh \in Nat /\ tt \in Nat /\ ll \in Nat
      /\ hits \in Nat /\ failed \in Nat /\ lifts \in Nat /\ crashes \in Nat
      /\ MaxHits \in Nat \ {0} /\ MaxFailed \in Nat \ {0}
  BY <1>3, <1>4, ProcessesFinite, SignInAssumption DEF TypeOK, SignInAssumption
<1>9. n \in Nat BY <1>8
<1> HIDE DEF P, h, t, l, hh, tt, ll, n
<1>10. /\ hits + hh <= MaxHits - 1 + P
       /\ failed + tt <= MaxFailed - 1 + n + P + (crashes + 1)
       /\ status = "active" => failed <= MaxFailed - 1 + ll + n + (crashes + 1)
  BY <1>5, <1>6, <1>7, <1>8, <1>9
<1> QED BY <1>0, <1>1, <1>10 DEF LimitsInv, P, hh, tt, ll, n

LEMMA LimitsNext == TypeOK /\ TypeOK' /\ LimitsInv /\ [Next]_vars => LimitsInv'
<1> SUFFICES ASSUME TypeOK, TypeOK', LimitsInv, [Next]_vars PROVE LimitsInv' OBVIOUS
<1>1. CASE LockExpires
  <2>1. /\ UNCHANGED <<hits, failed, lifts, status, crashes>>
        /\ \A d \in Callers : /\ call'[d].at = call[d].at /\ call'[d].kind = call[d].kind
                              /\ call'[d].status = call[d].status
    BY <1>1 DEF LockExpires, account, TypeOK, Call
  <2>2. /\ Hitters(call') = Hitters(call) /\ Tryers(call') = Tryers(call)
        /\ Lockers(call') = Lockers(call) /\ (Alone(call) => Alone(call'))
    BY <2>1 DEF Hitters, Tryers, Lockers, Hitting, Trying, Locking, Alone, Between
  <2> QED BY <2>1, <2>2 DEF LimitsInv
<1>2. CASE WindowEnds
  <2>1. hits' = 0 /\ UNCHANGED <<failed, lifts, status, crashes, call>>
    BY <1>2 DEF WindowEnds, account
  <2>2. Alone(call) BY DEF LimitsInv
  <2> DEFINE P == Cardinality(Processes)
             h == Cardinality(Hitters(call))
  <2>3. h \in Nat /\ h <= P /\ P \in Nat BY <2>2, Numbers, ProcessesFinite
  <2>4. MaxHits \in Nat \ {0} BY SignInAssumption DEF SignInAssumption
  <2> HIDE DEF P, h
  <2>5. 0 + h <= MaxHits - 1 + P BY <2>3, <2>4
  <2> QED BY <2>1, <2>5 DEF LimitsInv, P, h
<1>3. CASE UNCHANGED vars BY <1>3 DEF vars, account, LimitsInv
<1>4. CASE \E c \in Callers : Crash(c) BY <1>4, LimitsCrash
<1>5. CASE Next /\ ~LockExpires /\ ~WindowEnds /\ ~\E c \in Callers : Crash(c)
  BY <1>5, LimitsLogin, LimitsOthers DEF Next
<1> QED BY <1>1, <1>2, <1>3, <1>4, <1>5

\* Failures and attempts go beyond their limits only by what was under way, for any
\* number of requests and processes: one login per process, and again after every
\* activation that kept the failures, and per process that died before it locked
\* (service.login, record_failed_attempt, lock_account and the throttle).
THEOREM LimitsKept == Spec => []LimitsHold
<1>1. Init => LimitsInv
  <2> SUFFICES ASSUME Init PROVE LimitsInv OBVIOUS
  <2>1. Alone(call) /\ Hitters(call) = {} /\ Tryers(call) = {} /\ Lockers(call) = {}
    BY DEF Init, NoCall, Alone, Between, Hitters, Tryers, Lockers, Hitting, Trying, Locking
  <2>2. /\ hits = 0 /\ failed = 0 /\ lifts = 0 /\ crashes = 0
        /\ MaxHits \in Nat \ {0} /\ MaxFailed \in Nat \ {0}
    BY SignInAssumption DEF SignInAssumption, Init
  <2> QED BY <2>1, <2>2, FS_EmptySet, ProcessesFinite DEF LimitsInv
<1>2. TypeOK /\ LimitsInv => LimitsHold
  <2> SUFFICES ASSUME TypeOK, LimitsInv PROVE LimitsHold OBVIOUS
  <2> DEFINE P == Cardinality(Processes)
             h == Cardinality(Hitters(call))
             t == Cardinality(Tryers(call))
             n == P * lifts
             m == P * (lifts + 1)
  <2>1. h \in Nat /\ t \in Nat /\ P \in Nat BY Numbers, ProcessesFinite DEF LimitsInv
  <2>2. /\ hits \in Nat /\ failed \in Nat /\ lifts \in Nat /\ crashes \in Nat
        /\ MaxHits \in Nat \ {0} /\ MaxFailed \in Nat \ {0}
    BY SignInAssumption DEF TypeOK, SignInAssumption
  <2>3. n \in Nat /\ m \in Nat /\ m = n + P BY <2>1, <2>2
  <2>4. /\ hits + h <= MaxHits - 1 + P
        /\ failed + t <= MaxFailed - 1 + n + P + crashes
    BY DEF LimitsInv
  <2> HIDE DEF P, h, t, n, m
  <2>5. hits <= MaxHits - 1 + P /\ failed <= MaxFailed - 1 + m + crashes
    BY <2>1, <2>2, <2>3, <2>4
  <2> QED BY <2>5 DEF LimitsHold, FailuresBounded, WindowBounded, P, m
<1> QED BY <1>1, <1>2, SignInTyped, LimitsNext, PTL DEF Spec
===============================================================================
