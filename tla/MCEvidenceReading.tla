------------------------- MODULE MCEvidenceReading -------------------------
(* Instances of EvidenceCorrection and EvidenceReading for TLC. *)
EXTENDS EvidenceReading, TLC

CONSTANTS e1, e2, e3, s1, k1, a1, a2, x1, x2

\* The last record belongs to somebody else.
TwoOwners == [e \in Evidence |-> IF e = e3 THEN k1 ELSE s1]

Send(e, action, expected, target, key) ==
    [evidence |-> e, action |-> action, expected |-> expected,
     target |-> target, key |-> key]

\* Every correction of one record, with the state the administrator would have
\* to have seen for it to make sense, or with a stale expectation; two of them
\* under a key too, so that a key is used again for its own action and for
\* another; and a replacement that is somebody else's.
ReviewInputs ==
         {Send(e1, action, state, NoEvidence, NoKey) :
            action \in {"place_under_review", "confirm", "restore"},
            state \in {"active", "superseded"}}
    \cup {Send(e1, action, "active", NoEvidence, k1) :
            action \in {"place_under_review", "invalidate"}}
    \cup {Send(e1, "invalidate", "active", NoEvidence, NoKey)}
    \cup {Send(e1, "restore", "invalidated", NoEvidence, NoKey)}
    \cup {Send(e1, "supersede", "active", e, NoKey) : e \in {e2, e3}}

\* What is corrected under a reader: two records, one of them back and forth.
ReaderInputs ==
    {Send(e, "invalidate", "active", NoEvidence, NoKey) : e \in {e1, e2}}
        \cup {Send(e1, "restore", "invalidated", NoEvidence, NoKey)}

AllInputs == ReviewInputs \cup ReaderInputs

\* An old and a new version of one competency, and one no course teaches.
Fundamentals(version) == [id |-> "fundamentals", version |-> version]
Subnetting == [id |-> "subnetting", version |-> 1]
AllCompetencies == {Fundamentals(1), Fundamentals(2), Subnetting}
Published == [c \in AllCompetencies |-> "published"]
Courses == [c \in AllCompetencies |-> IF c = Subnetting THEN NoCourse ELSE "course"]

\* The second record is recorded, or linked, only while the page is open.
LinkedTo == [e \in Evidence |-> IF e = e1 THEN {Fundamentals(1), Subnetting} ELSE {Fundamentals(2)}]
Passed == [e \in Evidence |-> "passed"]
Sources == [e \in Evidence |-> "assessment_attempt"]
Openings == {<<e1>>, <<e1, e2>>}

SomeFilters == {NoFilters, [NoFilters EXCEPT !.competency = "subnetting"]}

\* The portfolio alone, two tabs that export, or nobody who reads.
OneOrTwo == {{}, {"portfolio"}, {x1, x2}}

\* Two administrators race while nobody reads; one works under a reader, who
\* sees nothing of a correction but its commit and so is left to wait for it.
\* What a page shows plays no part in what it reads next, nor does what
\* somebody else's record is linked to.
OneUnderReaders ==
    open = {"portfolio"} =>
        /\ \A a \in Admins : req[a] # Idle => req'[a] # req[a] /\ \A b \in Admins \ {a} : req'[b] = Idle
        /\ \A a \in Admins : req'[a] # Idle => req'[a].input \in ReaderInputs
        /\ Len(log'[e1]) + Len(log'[e2]) <= 2
        /\ view["portfolio"].shown # Nothing => view'["portfolio"].loads = <<>>
        /\ e3 \notin linked'

\* Exports race over references, which no correction touches; what becomes of
\* supplementary queries that fail is seen in the portfolio.
ExportsAlone ==
    Panels \cap open # {} =>
        /\ UNCHANGED <<vars, recorded, linked>>
        /\ \A v \in Panels : \A i \in DOMAIN view'[v].loads :
              view'[v].loads[i].unavailable \subseteq {"references"}

NobodyReads ==
    open = {} => /\ \A a \in Admins : req'[a] # Idle => req'[a].input \in ReviewInputs
                 /\ UNCHANGED recorded

\* Nobody reads: all records are there from the start.
MCInit == ReadingInit /\ (open = {} => Len(recorded) = 2)

MCSpec == MCInit /\ [][ReadingNext /\ OneUnderReaders /\ ExportsAlone /\ NobodyReads]_readingVars

Alike == Permutations(Admins) \cup Permutations(Panels)
=============================================================================
