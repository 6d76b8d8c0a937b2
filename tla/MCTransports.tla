---------------------------- MODULE MCTransports ----------------------------
(***************************************************************************)
(* Three events, of which two carry one idempotency key and two one type.  *)
(***************************************************************************)
EXTENDS Transports, TLC

CONSTANTS e1, e2, e3, p1, p2, p3

MCEvents == {e1, e2, e3}
MCKeyOf == (e1 :> 1) @@ (e2 :> 1) @@ (e3 :> 2)
MCTypeOf == (e1 :> "a") @@ (e2 :> "b") @@ (e3 :> "b")

\* Files of different events share nothing: one event is enough on disk.
MCFileEvents == {e1}
MCSymmetry == Permutations(Processes)
=============================================================================
