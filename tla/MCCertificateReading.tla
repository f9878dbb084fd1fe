------------------------ MODULE MCCertificateReading ------------------------
(* Instances of CertificateReading for TLC. *)
EXTENDS CertificateReading, TLC

CONSTANTS c1, c2, c3, s1, s2, k1, a1, a2

\* The third certificate is somebody else's.
TwoOwners == [c \in Certificates |-> IF c = c3 THEN s2 ELSE s1]

Send(c, action, target, key) ==
    [certificate |-> c, action |-> action, target |-> target, key |-> key]

\* Every correction of the first certificate, a key used again for the same
\* and for other actions, and supersession in both directions.
AllInputs ==
         {Send(c1, "revoke", NoCertificate, key) : key \in {k1, NoKey}}
    \cup {Send(c1, "restore", NoCertificate, NoKey), Send(c1, "correct", NoCertificate, k1)}
    \cup {Send(c1, "supersede", c, k1) : c \in {c2, c3}}
    \cup {Send(c2, "supersede", c1, NoKey)}

\* One view at a time, or none; the presentation loads as the portfolio does.
OneOrNone == {{}} \cup {{v} : v \in Views \ {"presentation"}}

SomeFilters == {NoFilter, "active"}

\* Two administrators race while nobody reads; one works under a reader, who
\* sees nothing of a correction but its commit and so is left to wait for it.
OneUnderReaders ==
    open # {} =>
        /\ req'[a2] = Idle
        /\ req[a1] # Idle => req'[a1] # req[a1]
        /\ req'[a1] # Idle => req'[a1].input \in {Send(c1, "revoke", NoCertificate, NoKey),
                                                  Send(c1, "restore", NoCertificate, NoKey)}

MCSpec == ReadingInit /\ [][ReadingNext /\ OneUnderReaders]_allVars /\ Fairness
=============================================================================
