-------------------------- MODULE SegregationOfDuties -------------------------
(***************************************************************************)
(* contracts/segregation_of_duties.py: who may approve whose work.  An     *)
(* approver is a record of an actor and the role it acts in.               *)
(***************************************************************************)
CONSTANTS
  MustBeReviewedBy,    \* owning role -> roles it names as its reviewers
  CanReview,           \* approver role -> owning roles it may review
  UniversalApprovers   \* roles the catalog lets review any role

SelfApproval(actor, approver) == approver.actor = actor

SameRole(owner, approver) == approver.role = owner

ReviewerAuthorityViolation(owner, approver) ==
  /\ approver.role \notin MustBeReviewedBy[owner] \cup UniversalApprovers
  /\ owner \notin CanReview[approver.role]

\* The engine's whole verdict: identity first, then authority.
MayApprove(actor, owner, approver) ==
  /\ ~SelfApproval(actor, approver)
  /\ ~SameRole(owner, approver)
  /\ ~ReviewerAuthorityViolation(owner, approver)
===============================================================================
