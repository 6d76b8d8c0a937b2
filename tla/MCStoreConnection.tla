--------------------------- MODULE MCStoreConnection ---------------------------
(***************************************************************************)
(* Instances of StoreConnection: processes with a connection each, and     *)
(* threads of one service process that share the connection of its engine. *)
(***************************************************************************)
EXTENDS StoreConnection, TLC

CONSTANTS t1, t2, t3, x, y, z

OwnConnections == (t1 :> x) @@ (t2 :> y) @@ (t3 :> z)
SharedConnection == [t \in Threads |-> x]
===============================================================================
