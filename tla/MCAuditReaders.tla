---------------------------- MODULE MCAuditReaders ----------------------------
(***************************************************************************)
(* AuditReaders, and in it SourceAudit and SourceRevisions, on a small     *)
(* instance.  Sessions, sources and texts are model values, all alike.     *)
(***************************************************************************)
EXTENDS AuditReaders, TLC

MCSymmetry ==
    Permutations(Sessions) \cup Permutations(Keys) \cup Permutations(Texts)
=============================================================================
