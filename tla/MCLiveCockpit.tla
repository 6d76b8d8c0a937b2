--------------------------- MODULE MCLiveCockpit ---------------------------
(***************************************************************************)
(* Two subscribers, which nothing tells apart.                             *)
(***************************************************************************)
EXTENDS LiveCockpit, TLC

CONSTANTS c1, c2

Subscribers == Permutations(Clients)
=============================================================================
