-------------------------- MODULE MCImprovementReview --------------------------
(***************************************************************************)
(* A small instance of ImprovementReview: an employee and a manager who    *)
(* both write proposals, handled by two processes.  A life of a promotion  *)
(* takes six requests one after the other, so that a behaviour starts      *)
(* where some of them have been handled, and goes on with a few more.      *)
(***************************************************************************)
EXTENDS ImprovementReview, TLC

MCRole == [ravi |-> "employee", layla |-> "manager"]

Version(n, i, v, state, actor) ==
  [id |-> i, state |-> state, by |-> "ravi", actor |-> actor, seen |-> n - 1, version |-> v]

Drafted == << Version(1, 1, 1, "draft", "ravi") >>
Passed == Append(Drafted, Version(2, 1, 2, "evaluated", "ravi"))
Adopted == Append(Passed, Version(3, 1, 3, "approved", "layla"))

\* The company's ledger after a second promotion of the same proposal.
Again == Adopted \o << Version(4, 4, 1, "draft", "ravi"),
                       Version(5, 4, 2, "evaluated", "ravi"),
                       Version(6, 4, 3, "approved", "layla") >>

\* The company's ledger with two promotions of it that wait for a decision.
Waiting == Passed \o << Version(3, 3, 1, "draft", "ravi"),
                        Version(4, 3, 2, "evaluated", "ravi") >>

Start(own, company, promotions, memory) ==
  /\ ledger = [o \in Owners |-> IF o = "ravi" THEN own ELSE IF o = Org THEN company ELSE <<>>]
  /\ row = [i \in Ids |->
             IF i = 1 /\ own # <<>>
             THEN [owner |-> "ravi", state |-> own[Len(own)].state, version |-> Len(own)]
             ELSE NoRow]
  /\ promo = promotions /\ rules = memory
  /\ req = [p \in Processes |-> NoRequest]
  /\ behind = {} /\ torn = {}
  /\ requests = 0 /\ crashes = 0

Promotion(company, state) == [source |-> 1, org |-> company, state |-> state]
Rule(k) == [promo |-> k, rid |-> k, target |-> 0]

MCInit ==
  \/ Start(<<>>, <<>>, <<>>, <<>>)
  \/ Start(Passed, <<>>, <<>>, <<>>)
  \/ Start(Adopted, Passed, << Promotion(1, "requested") >>, <<>>)
  \/ Start(Adopted, Again, << Promotion(1, "approved"), Promotion(4, "approved") >>,
           << Rule(1), Rule(2) >>)
  \/ Start(Adopted, Waiting, << Promotion(1, "requested"), Promotion(3, "requested") >>, <<>>)

\* The two processes run the same code.
Alike == Permutations(Processes)

MCSpec == MCInit /\ [][Next]_vars
===============================================================================
