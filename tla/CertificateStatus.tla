------------------------- MODULE CertificateStatus -------------------------
(***************************************************************************)
(* What certificate corrections promise: a certificate has a recorded      *)
(* status that moves only along the approved edges, each time by one       *)
(* decision of an administrator, and an idempotency key is spent by at     *)
(* most one decision about a certificate.                                  *)
(***************************************************************************)
EXTENDS CertificateRules

CONSTANTS Certificates, Keys, NoKey

VARIABLES status,    \* [Certificates -> CertificateLifecycleStatus]
          spent      \* [Certificates -> SUBSET Keys]

statusVars == <<status, spent>>

StatusInit ==
    /\ status = [c \in Certificates |-> "active"]
    /\ spent = [c \in Certificates |-> {}]

Decide(c, action, key) ==
    /\ <<status[c], TargetStatus(action)>> \in Edges
    /\ key \notin spent[c]
    /\ status' = [status EXCEPT ![c] = TargetStatus(action)]
    /\ spent' = [spent EXCEPT ![c] = @ \cup ({key} \ {NoKey})]

StatusNext ==
    \E c \in Certificates, action \in CertificateCorrectionAction, key \in Keys \cup {NoKey} :
        Decide(c, action, key)

StatusSpec == StatusInit /\ [][StatusNext]_statusVars
=============================================================================
