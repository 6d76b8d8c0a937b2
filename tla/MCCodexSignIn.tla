----------------------------- MODULE MCCodexSignIn -----------------------------
(***************************************************************************)
(* A small instance of CodexSignIn: requests handled by one process of the *)
(* Codex app, and one handled by a second process on the same database.    *)
(***************************************************************************)
EXTENDS CodexSignIn, TLC

CONSTANTS c1, c2, c3, app, other

OneProcess == (c1 :> app) @@ (c2 :> app)
TwoProcesses == OneProcess @@ (c3 :> other)
Symmetry == Permutations({c1, c2}) \cup Permutations(Sessions)
===============================================================================
