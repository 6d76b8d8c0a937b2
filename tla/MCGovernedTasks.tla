---------------------------- MODULE MCGovernedTasks ----------------------------
(***************************************************************************)
(* A small instance of GovernedTasks: a role with a ceiling of 10, one     *)
(* without a ceiling, and an oversight-only seat; one task the gate lets   *)
(* go, one it holds, and one of the oversight seat that asks for approval. *)
(***************************************************************************)
EXTENDS GovernedTasks, TLC

MCRoles == {"ops", "hr", "quality"}
MCLimit == [ops |-> 10, quality |-> 0]
MCReads == [r \in MCRoles |-> {"internal"}]
MCOwns == [ops |-> {"wfm"}, hr |-> {"personnel"}, quality |-> {}]
NoReviewers == [r \in MCRoles |-> {}]

\* An approver without a ceiling, one whose ceiling is below the held task,
\* the requester in a role without a ceiling, and an actor no role is known for.
MCApprovers == { [actor |-> "joe", role |-> "hr"], [actor |-> "oli", role |-> "ops"],
                 [actor |-> "ana", role |-> "hr"], [actor |-> "who", role |-> "unknown"] }

Inside == [actor |-> "ana", role |-> "ops", cost |-> 5, confidence |-> 90,
           classification |-> "internal", engine |-> "wfm", numeric |-> TRUE,
           asks |-> FALSE]

Kind == [ go   |-> Inside,
          hold |-> [Inside EXCEPT !.cost = 20],
          seat |-> [Inside EXCEPT !.role = "quality", !.engine = "none", !.cost = 0,
                                  !.asks = TRUE] ]

MCTask == [k \in Tasks |-> Kind[k]]
Symmetry == Permutations(Threads)
===============================================================================
