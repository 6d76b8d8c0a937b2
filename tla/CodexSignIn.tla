------------------------------ MODULE CodexSignIn ------------------------------
(***************************************************************************)
(* Signing in to the Codex app: one account, its sessions and the failure  *)
(* counters of its login name (modules/identity/service.py, security/      *)
(* accounts.py, sessions.py, throttle.py, guard.py), and the status an     *)
(* administrator gives it (modules/admin/service.py).                      *)
(*                                                                         *)
(* Every request has a connection of its own and every statement below     *)
(* commits on its own.  The handlers of login, password change and         *)
(* administration are coroutines that never await between two statements:  *)
(* one process runs one of them at a time.  The guard of a request and     *)
(* logout run in worker threads, and another process shares the database.  *)
(* Clocks are left out: a lock or a throttle window ends when it ends.     *)
(***************************************************************************)
EXTENDS Naturals, FiniteSets

CONSTANTS
  Callers,       \* requests in flight
  Home,          \* caller -> the server process that handles it
  Sessions,      \* session identifiers, as many as a behaviour may issue
  NoSession,     \* the session of a request that has none
  MaxFailed,     \* MAX_FAILED_ATTEMPTS
  MaxHits,       \* MAX_ATTEMPTS_PER_LOGIN
  MaxCalls,      \* bound: requests begun in a behaviour
  MaxCrashes     \* bound: processes that die

ASSUME SignInAssumption ==
  /\ IsFiniteSet(Callers) /\ Callers \subseteq DOMAIN Home
  /\ MaxFailed \in Nat \ {0} /\ MaxHits \in Nat \ {0}
  /\ MaxCalls \in Nat /\ MaxCrashes \in Nat

Statuses == {"active", "locked", "disabled", "terminated"}
Untils == {"none", "future", "past"}

VARIABLES
  status, until, \* the account row: status, locked_until
  failed,        \* failed_attempts
  hits,          \* login_throttle: attempts of the login name in its window
  pw,            \* how often the password was replaced: the hash in the row
  bars,          \* how often an administrator took the account out of use
  session,       \* session -> its row, or how it came to be
  call,          \* caller -> its request and what it has read
  lockedBy,      \* who last wrote the status: a login or an administrator
  cut,           \* what went amiss: a request died before this step, or a login
                 \* cleared the end of a lock younger than the row it read
  lifts,         \* how often the account became active with its failures kept
  calls, crashes

account == <<status, until, failed, pw, bars, lockedBy, lifts>>
vars == <<account, hits, session, call, cut, calls, crashes>>

NoCall == [kind |-> "none", at |-> "none", status |-> "active", until |-> "none",
           pw |-> 0, bars |-> 0, session |-> NoSession]
Unissued == [state |-> "none", pw |-> 0, bars |-> 0, late |-> FALSE]

Init ==
  /\ status = "active" /\ until = "none" /\ failed = 0 /\ hits = 0
  /\ pw = 0 /\ bars = 0 /\ lockedBy = "none" /\ lifts = 0
  /\ session = [s \in Sessions |-> Unissued]
  /\ call = [c \in Callers |-> NoCall]
  /\ cut = {} /\ calls = 0 /\ crashes = 0

\* The account as c reads it now.
Row(c) == [call[c] EXCEPT !.status = status, !.until = until, !.pw = pw, !.bars = bars]

At(c, place) == call[c].at = place
Move(c, place) == call' = [call EXCEPT ![c].at = place]
End(c) == call' = [call EXCEPT ![c] = NoCall]

\* The account was rewritten in a way c does not know of.
Overtaken(c) == call[c].pw # pw \/ call[c].bars # bars

\* A coroutine starts when no other one of its process is under way.
LoopFree(c) ==
  \A d \in Callers \ {c} : Home[d] = Home[c] =>
    call[d].kind = "logout" \/ call[d].at \in {"none", "verified", "guarded"}

Begin(c, kind, place, s) ==
  /\ At(c, "none") /\ calls < MaxCalls
  /\ call' = [call EXCEPT ![c] = [Row(c) EXCEPT !.kind = kind, !.at = place, !.session = s]]
  /\ calls' = calls + 1
-------------------------------------------------------------------------------
(* Login.                                                                   *)

LookUp(c) ==
  /\ LoopFree(c) /\ Begin(c, "login", "looked", NoSession)
  /\ UNCHANGED <<account, hits, session, cut, crashes>>

\* What login does with the row it read, the password being right or wrong.
Judged(row, right) ==
  IF row.status # "active" THEN [row EXCEPT !.at = "none"]
  ELSE [row EXCEPT !.at = IF right THEN "right" ELSE "wrong"]

Settle(c, row) ==
  call' = [call EXCEPT ![c] = IF row.at = "none" THEN NoCall ELSE row]

\* _is_locked, when the lock has an end, looks at the clock.
IsLocked(row) == row.status = "locked" /\ row.until # "past"

\* Mutant of Judge: a login of an account that is not active unlocks it.
JudgeAny(c, right) ==
  /\ At(c, "looked")
  /\ IF hits >= MaxHits \/ IsLocked(call[c]) THEN End(c)
     ELSE IF call[c].status # "active" THEN Move(c, "reset")
     ELSE Settle(c, Judged(call[c], right))
  /\ UNCHANGED <<account, hits, session, cut, calls, crashes>>

\* The throttle is read now, the account was read before.
Judge(c, right) ==
  /\ At(c, "looked")
  /\ IF hits >= MaxHits \/ IsLocked(call[c]) THEN End(c)
     ELSE IF call[c].status = "locked" THEN Move(c, "reset")
     ELSE Settle(c, Judged(call[c], right))
  /\ UNCHANGED <<account, hits, session, cut, calls, crashes>>

\* Mutant of Reset: one failure is taken back.
ResetOne(c) ==
  /\ call[c].at \in {"reset", "right"}
  /\ failed' = failed - 1 /\ until' = "none" /\ cut' = cut
  /\ Move(c, IF At(c, "reset") THEN "activate" ELSE "clear")
  /\ UNCHANGED <<status, pw, bars, lockedBy, lifts, hits, session, calls, crashes>>

\* reset_failed_attempts, of an expired lock or after a right password.
Reset(c) ==
  /\ call[c].at \in {"reset", "right"}
  /\ failed' = 0 /\ until' = "none"
  /\ cut' = IF At(c, "right") /\ status = "locked" THEN cut \cup {"cleared"} ELSE cut
  /\ Move(c, IF At(c, "reset") THEN "activate" ELSE "clear")
  /\ UNCHANGED <<status, pw, bars, lockedBy, lifts, hits, session, calls, crashes>>

Lifted == IF failed > 0 THEN lifts + 1 ELSE lifts

Activate(c) ==
  /\ At(c, "activate")
  /\ status' = "active" /\ lockedBy' = "login" /\ lifts' = Lifted
  /\ Move(c, "reread")
  /\ UNCHANGED <<until, failed, pw, bars, hits, session, cut, calls, crashes>>

Reread(c, right) ==
  /\ At(c, "reread")
  /\ Settle(c, Judged(Row(c), right))
  /\ UNCHANGED <<account, hits, session, cut, calls, crashes>>

Hit(c) ==
  /\ At(c, "wrong")
  /\ hits' = hits + 1
  /\ Move(c, "fail")
  /\ UNCHANGED <<account, session, cut, calls, crashes>>

\* record_failed_attempt adds to the row and reads it back.
Fail(c) ==
  /\ At(c, "fail")
  /\ failed' = failed + 1
  /\ Move(c, "count")
  /\ UNCHANGED <<status, until, pw, bars, lockedBy, lifts, hits, session, cut, calls, crashes>>

\* Mutant of Count: the account is locked one failure late.
CountLate(c) ==
  /\ At(c, "count")
  /\ IF failed > MaxFailed THEN Move(c, "lock") ELSE End(c)
  /\ UNCHANGED <<account, hits, session, cut, calls, crashes>>

Count(c) ==
  /\ At(c, "count")
  /\ IF failed >= MaxFailed THEN Move(c, "lock") ELSE End(c)
  /\ UNCHANGED <<account, hits, session, cut, calls, crashes>>

\* Mutant of Lock: the lock is given no end.
LockForever(c) ==
  /\ At(c, "lock")
  /\ status' = "locked" /\ until' = "none" /\ lockedBy' = "login"
  /\ End(c)
  /\ UNCHANGED <<failed, pw, bars, lifts, hits, session, cut, calls, crashes>>

\* lock_account writes whatever the status has become.
Lock(c) ==
  /\ At(c, "lock")
  /\ status' = "locked" /\ until' = "future" /\ lockedBy' = "login"
  /\ End(c)
  /\ UNCHANGED <<failed, pw, bars, lifts, hits, session, cut, calls, crashes>>

ClearHits(c) ==
  /\ At(c, "clear")
  /\ hits' = 0
  /\ Move(c, "fresh")
  /\ UNCHANGED <<account, session, cut, calls, crashes>>

\* issue_session refuses an account that is no longer active; the row's password
\* is not compared again, so the request keeps the one it verified.
Fresh(c) ==
  /\ At(c, "fresh")
  /\ IF status = "active" THEN Move(c, "issue") ELSE End(c)
  /\ UNCHANGED <<account, hits, session, cut, calls, crashes>>

Issue(c, s) ==
  /\ At(c, "issue") /\ session[s].state = "none"
  /\ session' = [session EXCEPT ![s] = [state |-> "live", pw |-> call[c].pw,
                                        bars |-> call[c].bars, late |-> Overtaken(c)]]
  /\ End(c)
  /\ UNCHANGED <<account, hits, cut, calls, crashes>>
-------------------------------------------------------------------------------
(* Requests with a session: the guard, logout and the change of a password. *)

\* verify reads the session joined with the account, in a worker thread.
Enter(c, s, kind) ==
  /\ session[s].state = "live" /\ status = "active"
  /\ Begin(c, kind, "verified", s)
  /\ UNCHANGED <<account, hits, session, cut, crashes>>

\* current_account then loads the account the handler is given.
Guard(c) ==
  /\ At(c, "verified")
  /\ IF status = "active" THEN call' = [call EXCEPT ![c] = [Row(c) EXCEPT !.at = "guarded"]]
     ELSE End(c)
  /\ UNCHANGED <<account, hits, session, cut, calls, crashes>>

Logout(c) ==
  /\ At(c, "guarded") /\ call[c].kind = "logout"
  /\ session' = [session EXCEPT ![call[c].session].state = "revoked"]
  /\ End(c)
  /\ UNCHANGED <<account, hits, cut, calls, crashes>>

\* The old password is compared with the hash the guard loaded.
WrongOldPassword(c) ==
  /\ At(c, "guarded") /\ call[c].kind = "change" /\ LoopFree(c)
  /\ End(c)
  /\ UNCHANGED <<account, hits, session, cut, calls, crashes>>

\* Mutant of SetPassword: the sessions of the account are kept.
SetPasswordOnly(c) ==
  /\ At(c, "guarded") /\ call[c].kind = "change" /\ LoopFree(c)
  /\ pw' = pw + 1
  /\ End(c)
  /\ UNCHANGED <<status, until, failed, bars, lockedBy, lifts, hits, session, cut, calls, crashes>>

SetPassword(c) ==
  /\ At(c, "guarded") /\ call[c].kind = "change" /\ LoopFree(c)
  /\ pw' = pw + 1
  /\ Move(c, "revoke")
  /\ UNCHANGED <<status, until, failed, bars, lockedBy, lifts, hits, session, cut, calls, crashes>>

RevokeAll(c) ==
  /\ At(c, "revoke")
  /\ session' = [s \in Sessions |-> IF session[s].state = "live"
                                    THEN [session[s] EXCEPT !.state = "revoked"] ELSE session[s]]
  /\ End(c)
  /\ UNCHANGED <<account, hits, cut, calls, crashes>>
-------------------------------------------------------------------------------
(* Administration, the clock and the end of a process.                      *)

\* set_user_status: the row first, then the sessions.
SetStatus(c, st) ==
  /\ LoopFree(c)
  /\ IF st = "active" THEN At(c, "none") /\ calls < MaxCalls /\ calls' = calls + 1 /\ call' = call
     ELSE Begin(c, "status", "revoke", NoSession)
  /\ status' = st /\ lockedBy' = "admin"
  /\ bars' = IF st = "active" THEN bars ELSE bars + 1
  /\ lifts' = IF st = "active" THEN Lifted ELSE lifts
  /\ UNCHANGED <<until, failed, pw, hits, session, cut, crashes>>

LockExpires ==
  /\ until = "future" /\ until' = "past"
  /\ call' = [c \in Callers |-> IF call[c].until = "future"
                                THEN [call[c] EXCEPT !.until = "past"] ELSE call[c]]
  /\ UNCHANGED <<status, failed, pw, bars, lockedBy, lifts, hits, session, cut, calls, crashes>>

WindowEnds ==
  /\ hits > 0 /\ hits' = 0
  /\ UNCHANGED <<account, session, call, cut, calls, crashes>>

Crash(c) ==
  LET dead == {d \in Callers : Home[d] = Home[c]} IN
  /\ ~At(c, "none") /\ crashes < MaxCrashes
  /\ crashes' = crashes + 1
  /\ cut' = cut \cup ({call[d].at : d \in dead} \cap {"revoke", "activate"})
  /\ call' = [d \in Callers |-> IF d \in dead THEN NoCall ELSE call[d]]
  /\ UNCHANGED <<account, hits, session, calls>>

Next ==
  \/ \E c \in Callers :
       \/ LookUp(c) \/ Reset(c) \/ Activate(c)
       \/ \E right \in BOOLEAN : Judge(c, right) \/ Reread(c, right)
       \/ Hit(c) \/ Fail(c) \/ Count(c) \/ Lock(c) \/ ClearHits(c) \/ Fresh(c)
       \/ \E s \in Sessions : Issue(c, s)
       \/ \E s \in Sessions, kind \in {"logout", "change"} : Enter(c, s, kind)
       \/ Guard(c) \/ Logout(c) \/ WrongOldPassword(c) \/ SetPassword(c) \/ RevokeAll(c)
       \/ \E st \in Statuses : SetStatus(c, st)
       \/ Crash(c)
  \/ LockExpires \/ WindowEnds

Spec == Init /\ [][Next]_vars
-------------------------------------------------------------------------------
(* Properties.                                                              *)

Processes == {Home[c] : c \in Callers}

Places == {"none", "looked", "reset", "activate", "reread", "right", "wrong", "fail", "count",
           "lock", "clear", "fresh", "issue", "verified", "guarded", "revoke"}
Call == [kind : {"none", "login", "logout", "change", "status"}, at : Places,
         status : Statuses, until : Untils, pw : Nat, bars : Nat,
         session : Sessions \cup {NoSession}]
Session == [state : {"none", "live", "revoked"}, pw : Nat, bars : Nat, late : BOOLEAN]

TypeOK ==
  /\ status \in Statuses /\ until \in Untils /\ lockedBy \in {"none", "login", "admin"}
  /\ {failed, hits, pw, bars, lifts, calls, crashes} \subseteq Nat
  /\ session \in [Sessions -> Session]
  /\ call \in [Callers -> Call]
  /\ cut \subseteq {"revoke", "activate", "cleared"}

\* A live session was issued for the password in force, and after the last time
\* an administrator took the account out of use, unless its revocation is under
\* way or died with its process, or its login had verified the old row when the
\* change was made in another process (change_password, set_user_status).
SessionsEndWithTheirGrounds ==
  \A s \in Sessions :
    session[s].state = "live" /\ (session[s].pw # pw \/ session[s].bars # bars) =>
      \/ session[s].late \/ "revoke" \in cut
      \/ \E c \in Callers : At(c, "revoke")

\* The lock of a login that failed too often has an end, so that it lifts itself,
\* unless the login that lifts an older lock is under way or died between its two
\* statements, or a right password verified before the lock cleared it after.
AutomaticLockEnds ==
  status = "locked" /\ until = "none" /\ lockedBy = "login" =>
    cut \cap {"activate", "cleared"} # {} \/ \E c \in Callers : At(c, "activate")

\* Failures are not tested without end: the account stops at MaxFailed, give or
\* take one login per process in flight, which every activation that kept the
\* failures allows for once more, and one login per process that died between the
\* failure and the lock.
FailuresBounded ==
  failed <= MaxFailed - 1 + Cardinality(Processes) * (lifts + 1) + crashes

\* The window of the login name is exceeded by one login per further process.
WindowBounded == hits <= MaxHits - 1 + Cardinality(Processes)

\* Both limits on failures hold, but for what was under way.
LimitsHold == FailuresBounded /\ WindowBounded

\* An account an administrator disabled or terminated is brought back, or only
\* locked, by no login but one that read the row before the administrator wrote it.
BarHolds ==
  [][(status \in {"disabled", "terminated"}) /\ status' # status /\ lockedBy' = "login" =>
       \E c \in Callers : Overtaken(c) /\ call'[c].at # call[c].at]_vars
===============================================================================
