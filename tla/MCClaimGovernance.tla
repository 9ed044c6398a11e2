-------------------------- MODULE MCClaimGovernance --------------------------
(***************************************************************************)
(* ClaimGovernance on small instances.  A configuration picks claims and   *)
(* evidence references by name; what they say is fixed here.               *)
(***************************************************************************)
EXTENDS ClaimGovernance, TLC

Fact(object, from, to) ==
    [continuity |-> "alpha", subject |-> "eyes", object |-> object,
     from |-> from, to |-> to]

(* "blue" and "green" contradict each other while both hold.  "blink" is a
   proper interval of half a second that the stored bounds make empty.      *)
MCProposal ==
    [c \in ClaimIds |->
        CASE c = "blue"  -> Fact("blue", Unbounded, 5)
          [] c = "green" -> Fact("green", 2, Unbounded)
          [] c = "blink" -> Fact("brown", 2, 3)]

(* "misquote" can be stored but not relied on; "foreign" belongs to another
   worldline.                                                               *)
MCSpan ==
    [e \in EvidenceIds |->
        [continuity |-> IF e = "foreign" THEN "beta" ELSE "alpha",
         inRange    |-> TRUE,
         faithful   |-> e # "misquote"]]

(* Sessions, and references of which the configuration makes model values, all
   alike.                                                                   *)
MCSymmetry == Permutations(Sessions) \cup Permutations(EvidenceIds)
=============================================================================
