---------------------------- MODULE MCLegacyEvents ----------------------------
(* LegacyEvents on a small instance: sessions, events and references are model
   values; the fit references are all alike, and so are sessions and events.   *)
EXTENDS LegacyEvents

MCSymmetry ==
    Permutations(Sessions) \cup Permutations(EventIds)
        \cup Permutations(EvidenceIds \ Unfit)
=============================================================================
