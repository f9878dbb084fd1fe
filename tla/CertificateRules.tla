-------------------------- MODULE CertificateRules --------------------------
(***************************************************************************)
(* The lifecycle of an issued certificate                                  *)
(* (packages/shared-types/src/certificate-lifecycle.ts and                 *)
(* certificate-correction.ts): its statuses, the approved transitions and  *)
(* the status each administrative action drives it to.                     *)
(***************************************************************************)
CertificateLifecycleStatus == {"active", "superseded", "expired", "revoked", "corrected"}

CertificateCorrectionAction == {"revoke", "correct", "supersede", "restore"}

\* certificateCorrectionTargetStatus
TargetStatus(action) ==
    CASE action = "revoke"    -> "revoked"
      [] action = "correct"   -> "corrected"
      [] action = "supersede" -> "superseded"
      [] action = "restore"   -> "active"

\* The approved transitions.
Edges ==
    ({"active"} \X {"superseded", "revoked", "corrected", "expired"})
        \cup {<<"revoked", "active">>}
=============================================================================
