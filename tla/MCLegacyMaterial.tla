--------------------------- MODULE MCLegacyMaterial ---------------------------
(***************************************************************************)
(* LegacyMaterial, and in it AuthorityReplay and ClaimGovernance, on a     *)
(* small instance with a wall clock that may step backward.                *)
(***************************************************************************)
EXTENDS LegacyMaterial

MCProposal ==
    [c \in ClaimIds |->
        [continuity |-> "alpha", subject |-> "eyes", object |-> "blue",
         from |-> Unbounded, to |-> Unbounded]]

MCSpan ==
    [e \in EvidenceIds |->
        [continuity |-> "alpha", inRange |-> TRUE, faithful |-> TRUE]]

(* References are model values, all alike. *)
MCSymmetry == Permutations(EvidenceIds)
=============================================================================
