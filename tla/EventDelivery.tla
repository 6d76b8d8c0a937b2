--------------------------- MODULE EventDelivery ---------------------------
(***************************************************************************)
(* What a transport of integration events promises                         *)
(* (integrations/transport.py, class Transport): an event that was sent    *)
(* waits until it is handed out, is worked on by whoever it was handed to, *)
(* and leaves only by an acknowledgement.  A rejected event waits again,   *)
(* until its budget is spent; then it is a dead letter, which an operator  *)
(* can revive.                                                             *)
(*                                                                         *)
(* An event can become disputed, and nothing is promised about it any      *)
(* more: Transports says when an implementation gives an event up.         *)
(***************************************************************************)
EXTENDS Integers

CONSTANTS Events   \* the events ever sent

VARIABLES
    budget,   \* how many rejections are answered with another attempt
    place,    \* [Events -> Places]
    refused   \* [Events -> Nat], rejections since it was sent or revived

delivery == <<budget, place, refused>>

Places == {"unsent", "waiting", "processing", "done", "dead", "disputed"}

\* The events of S go from one place to another.
Move(S, from, to) ==
    /\ \A e \in S : place[e] = from
    /\ place' = [e \in Events |-> IF e \in S THEN to ELSE place[e]]

Init ==
    /\ budget \in Nat
    /\ place = [e \in Events |-> "unsent"]
    /\ refused = [e \in Events |-> 0]

Send(e) == Move({e}, "unsent", "waiting") /\ UNCHANGED <<budget, refused>>

\* A receiver takes the events of S and may settle some of them at once.
HandOut(S, settled) ==
    /\ settled \subseteq S
    /\ \A e \in S : place[e] = "waiting"
    /\ place' = [e \in Events |-> CASE e \in settled -> "done"
                                    [] e \in S \ settled -> "processing"
                                    [] OTHER -> place[e]]
    /\ refused' = [e \in Events |-> IF e \in settled THEN 0 ELSE refused[e]]
    /\ UNCHANGED budget

Settle(e) ==
    /\ Move({e}, "processing", "done")
    /\ refused' = [refused EXCEPT ![e] = 0]
    /\ UNCHANGED budget

Return(e) ==
    /\ refused[e] < budget
    /\ Move({e}, "processing", "waiting")
    /\ refused' = [refused EXCEPT ![e] = @ + 1]
    /\ UNCHANGED budget

Bury(e) ==
    /\ refused[e] >= budget
    /\ Move({e}, "processing", "dead")
    /\ refused' = [refused EXCEPT ![e] = 0]
    /\ UNCHANGED budget

Revive(e) == Move({e}, "dead", "waiting") /\ UNCHANGED <<budget, refused>>

GiveUp(e) ==
    /\ place' = [place EXCEPT ![e] = "disputed"]
    /\ refused' = [refused EXCEPT ![e] = 0]
    /\ UNCHANGED budget

Next ==
    \/ \E e \in Events : \/ Send(e) \/ Settle(e) \/ Return(e)
                         \/ Bury(e) \/ Revive(e) \/ GiveUp(e)
    \/ \E S \in SUBSET Events, settled \in SUBSET Events : HandOut(S, settled)

Spec == Init /\ [][Next]_delivery
=============================================================================
