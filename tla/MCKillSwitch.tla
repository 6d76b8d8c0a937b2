------------------------------ MODULE MCKillSwitch ------------------------------
(***************************************************************************)
(* A small instance of KillSwitch: threads of one service process, which   *)
(* share its engine, an operator at the command line, and two tenants.     *)
(***************************************************************************)
EXTENDS KillSwitch, TLC

CONSTANTS c1, c2, o1, server, t1, t2

TwoThreads == (c1 :> server) @@ (c2 :> server)

Symmetry == Permutations({c1, c2}) \cup Permutations({t1, t2})
===============================================================================
