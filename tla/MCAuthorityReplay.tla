-------------------------- MODULE MCAuthorityReplay --------------------------
(***************************************************************************)
(* AuthorityReplay over the repositories ClaimGovernance commits on small  *)
(* instances, with a wall clock that may step backward.                    *)
(***************************************************************************)
EXTENDS AuthorityReplay

MCProposal ==
    [c \in ClaimIds |->
        [continuity |-> "alpha", subject |-> "eyes", object |-> "blue",
         from |-> Unbounded, to |-> Unbounded]]

MCSpan ==
    [e \in EvidenceIds |->
        [continuity |-> "alpha", inRange |-> TRUE, faithful |-> TRUE]]
=============================================================================
