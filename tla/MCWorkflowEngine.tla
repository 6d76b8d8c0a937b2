--------------------------- MODULE MCWorkflowEngine ---------------------------
(***************************************************************************)
(* Small instances of WorkflowEngine: three roles of the catalog, an       *)
(* autonomous one, one with a ceiling of 10 and an oversight-only one, and *)
(* one request of each kind the engine treats differently.                 *)
(***************************************************************************)
EXTENDS WorkflowEngine, TLC, FiniteSets

MCRoles == {"ops", "hr", "quality"}
MCLimit == [ops |-> 10, quality |-> 0]
MCReads == [r \in MCRoles |-> {"internal"}]
MCOwns == [ops |-> {"wfm"}, hr |-> {"personnel"}, quality |-> {}]
MCMustBeReviewedBy == [ops |-> {"quality"}, hr |-> {}, quality |-> {}]
MCCanReview == [ops |-> {}, hr |-> {"quality"}, quality |-> {"ops"}]

\* An independent reviewer, a reviewer without authority, and the requester
\* trying to approve in another role.
MCApprovers == { [actor |-> "qa", role |-> "quality"],
                 [actor |-> "ann", role |-> "hr"],
                 [actor |-> "ana", role |-> "quality"] }
OneApprover == { [actor |-> "qa", role |-> "quality"] }

Inside == [actor |-> "ana", owner |-> "ops", role |-> "ops", cost |-> 5,
           confidence |-> 90, classification |-> "internal", engine |-> "wfm",
           numeric |-> TRUE, asks |-> FALSE, timed |-> TRUE, admissible |-> TRUE, handled |-> TRUE]

\* kGo runs at once, kNow too and has no deadline, kHold waits for a human, kBad
\* is refused on admission, kDeny by the gate, kLost has no handler, and kOdd
\* has a cost that is no number.
Kind == [ kGo   |-> Inside,
          kNow  |-> [Inside EXCEPT !.timed = FALSE],
          kHold |-> [Inside EXCEPT !.cost = 20, !.timed = FALSE],
          kBad  |-> [Inside EXCEPT !.admissible = FALSE, !.timed = FALSE],
          kDeny |-> [Inside EXCEPT !.engine = "personnel", !.timed = FALSE],
          kLost |-> [Inside EXCEPT !.handled = FALSE, !.timed = FALSE],
          kOdd  |-> [Inside EXCEPT !.numeric = FALSE, !.timed = FALSE] ]

Symmetry == Permutations(Threads)

KeysAll == {"kGo", "kHold", "kDeny", "kLost", "kOdd"}
KeysGo == {"kGo"}
KeysLive == {"kNow", "kBad", "kOdd"}
KeysLone == {"kNow"}

\* One workflow in a behaviour: with one caller, two have no step in common.
OneWorkflow == Cardinality({k \in Keys : row[k].state # "none"}) <= 1

MCRequest == [k \in Keys |-> Kind[k]]
===============================================================================
