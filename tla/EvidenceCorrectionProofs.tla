---------------------- MODULE EvidenceCorrectionProofs ----------------------
(***************************************************************************)
(* Theorems about EvidenceCorrection, for every set of records, requests   *)
(* and keys and every bound on the histories, and about the readings of    *)
(* EvidenceReading under corrections, for any number of export panels and  *)
(* records.                                                                *)
(***************************************************************************)
EXTENDS EvidenceReading, WellFoundedInduction, FiniteSetTheorems, TLAPS

\* What a request knows when it is about to insert is a fact about a prefix
\* of the history, and prefixes never change.
RequestsKnowAPrefix ==
    \A a \in Admins :
        LET input == req[a].input
            history == log[input.evidence]
            seen == req[a].seen
        IN  req[a].step \in {"guard", "commit"} =>
              /\ seen <= Len(history)
              /\ req[a].state = StateAt(history, seen)
              /\ Permitted(req[a].state, ReviewAt(history, seen), input.action,
                           input.target # NoEvidence)

Inv == TypeOK /\ HistoriesReplay /\ RequestsKnowAPrefix

\* A request that waits for the database carries an input and what it saw.
LEMMA WaitingRequest ==
    ASSUME TypeOK, NEW a \in Admins, req[a].step \in Waiting
    PROVE  req[a] \in InFlight(Waiting)
BY DEF TypeOK, Request, Idle, InFlight, Waiting

\* The parts of an input.
LEMMA InputParts ==
    ASSUME NEW input \in Inputs
    PROVE  /\ input.evidence \in Evidence
           /\ input.action \in CorrectionAction
           /\ input.expected \in EvidenceState
           /\ input.target \in Evidence \cup {NoEvidence}
           /\ input.key \in Keys \cup {NoKey}
BY EvidenceCorrectionAssumption DEF CorrectionInput

LEMMA NextStateType ==
    ASSUME NEW s \in EvidenceState, NEW action \in CorrectionAction
    PROVE  NextState(s, action) \in EvidenceState
BY DEF NextState, EvidenceState, CorrectionAction

LEMMA StateAtType ==
    ASSUME NEW h \in Seq(Event), NEW i \in 0 .. Len(h)
    PROVE  StateAt(h, i) \in EvidenceState
<1>1. CASE i = 0
  BY <1>1 DEF StateAt, EvidenceState
<1>2. CASE i # 0
  <2>1. h[i] \in Event
    BY <1>2
  <2> QED
    BY <1>2, <2>1 DEF StateAt, Event
<1> QED
  BY <1>1, <1>2

\* The two ways a request moves on without touching the log.
LEMMA FinishType ==
    ASSUME TypeOK, NEW a \in Admins, req[a].step \in Waiting,
           NEW outcome \in Outcome, Finish(a, outcome)
    PROVE  TypeOK'
<1>1. req[a].input \in Inputs
  BY WaitingRequest DEF InFlight
<1>2. Answer(req[a].input, outcome) \in Request
  BY <1>1 DEF Answer, Request
<1> QED
  BY <1>2 DEF Finish, TypeOK

LEMMA GotoType ==
    ASSUME TypeOK, NEW a \in Admins, req[a].step \in Waiting,
           NEW step \in Waiting, Goto(a, step)
    PROVE  TypeOK'
<1>1. req[a] \in InFlight(Waiting)
  BY WaitingRequest
<1>2. [req[a] EXCEPT !.step = step] \in Request
  BY <1>1 DEF InFlight, Request
<1> QED
  BY <1>2 DEF Goto, TypeOK

\* What an accepted insert does.
LEMMA CommitFacts ==
    ASSUME TypeOK, NEW a \in Admins, CommitInsert(a)
    PROVE  /\ req[a] \in InFlight(Waiting)
           /\ req[a].input \in Inputs
           /\ req[a].input.evidence \in Evidence
           /\ \E event \in Event :
                /\ event.seq = req[a].seen + 1
                /\ event.action = req[a].input.action
                /\ event.prev = req[a].state
                /\ event.new = NextState(req[a].state, req[a].input.action)
                /\ event.target = req[a].input.target
                /\ event.key = req[a].input.key
                /\ log' = [log EXCEPT ![req[a].input.evidence] = Append(@, event)]
<1>1. req[a] \in InFlight(Waiting)
  BY WaitingRequest DEF CommitInsert, Waiting
<1>2. /\ req[a].input \in Inputs
      /\ req[a].seen \in Nat
      /\ req[a].state \in EvidenceState
  BY <1>1 DEF InFlight
<1> DEFINE input == req[a].input
           event == [seq |-> req[a].seen + 1, action |-> input.action,
                     prev |-> req[a].state,
                     new |-> NextState(req[a].state, input.action),
                     target |-> input.target, key |-> input.key]
<1>3. /\ input.evidence \in Evidence
      /\ input.action \in CorrectionAction
      /\ input.target \in Evidence \cup {NoEvidence}
      /\ input.key \in Keys \cup {NoKey}
  BY <1>2, InputParts
<1>4. event \in Event
  BY <1>2, <1>3, NextStateType DEF Event
<1>5. log' = [log EXCEPT ![input.evidence] = Append(@, event)]
  BY DEF CommitInsert
<1> HIDE DEF input
<1> QED
  BY <1>1, <1>2, <1>3, <1>4, <1>5 DEF input

LEMMA TypeInit == Init => TypeOK
BY DEF Init, TypeOK, Request

LEMMA TypeNext == TypeOK /\ [Next]_vars => TypeOK'
<1> SUFFICES ASSUME TypeOK, [Next]_vars PROVE TypeOK'
  OBVIOUS
<1>1. ASSUME NEW a \in Admins, NEW input \in Inputs, Receive(a, input)
      PROVE  TypeOK'
  <2>1. [step |-> IF input.key = NoKey THEN "load" ELSE "lookup",
         input |-> input, seen |-> 0, state |-> "active"] \in Request
    BY DEF Request, InFlight, Waiting, EvidenceState
  <2> QED
    BY <1>1, <2>1 DEF Receive, TypeOK
<1>2. ASSUME NEW a \in Admins, LookupKey(a)
      PROVE  TypeOK'
  BY <1>2, FinishType, GotoType DEF LookupKey, Waiting, Outcome
<1>3. ASSUME NEW a \in Admins, LoadHistory(a)
      PROVE  TypeOK'
  <2> DEFINE input == req[a].input
             history == log[input.evidence]
  <2>1. req[a] \in InFlight(Waiting)
    BY <1>3, WaitingRequest DEF LoadHistory, Waiting
  <2>2. input \in Inputs /\ input.evidence \in Evidence
    BY <2>1, InputParts DEF InFlight
  <2>3. history \in Seq(Event)
    BY <2>2 DEF TypeOK
  <2>4. Len(history) \in Nat /\ EffectiveState(history) \in EvidenceState
    BY <2>3, StateAtType DEF EffectiveState
  <2>5. CASE \E outcome \in Outcome : Finish(a, outcome)
    BY <1>3, <2>5, FinishType DEF LoadHistory, Waiting
  <2>6. CASE /\ req' = [req EXCEPT ![a].step = "guard",
                                   ![a].seen = Len(history),
                                   ![a].state = EffectiveState(history)]
             /\ UNCHANGED log
    <3>1. [req[a] EXCEPT !.step = "guard", !.seen = Len(history),
                         !.state = EffectiveState(history)] \in Request
      BY <2>1, <2>4 DEF InFlight, Request, Waiting
    <3> QED
      BY <2>6, <3>1 DEF TypeOK
  <2> QED
    BY <1>3, <2>5, <2>6 DEF LoadHistory, Outcome
<1>4. ASSUME NEW a \in Admins, GuardInsert(a)
      PROVE  TypeOK'
  BY <1>4, FinishType, GotoType DEF GuardInsert, Waiting, Outcome
<1>5. ASSUME NEW a \in Admins, CommitInsert(a)
      PROVE  TypeOK'
  <2>1. Answer(req[a].input, "created") \in Request
    BY <1>5, CommitFacts DEF Answer, Request, Outcome
  <2>2. PICK event \in Event :
           log' = [log EXCEPT ![req[a].input.evidence] = Append(@, event)]
    BY <1>5, CommitFacts
  <2>3. log' \in [Evidence -> Seq(Event)]
    BY <1>5, <2>2, CommitFacts DEF TypeOK
  <2> QED
    BY <1>5, <2>1, <2>3 DEF CommitInsert, TypeOK
<1>6. ASSUME NEW a \in Admins, RejectInsert(a)
      PROVE  TypeOK'
  BY <1>6, FinishType, GotoType DEF RejectInsert, Waiting, Outcome
<1>7. ASSUME NEW a \in Admins, LookupKeyAgain(a)
      PROVE  TypeOK'
  BY <1>7, FinishType DEF LookupKeyAgain, Waiting, Outcome
<1>8. ASSUME NEW a \in Admins, Respond(a) \/ Lose(a)
      PROVE  TypeOK'
  BY <1>8 DEF Respond, Lose, TypeOK, Request
<1>9. CASE UNCHANGED vars
  BY <1>9 DEF vars, TypeOK
<1> QED
  BY <1>1, <1>2, <1>3, <1>4, <1>5, <1>6, <1>7, <1>8, <1>9 DEF Next

\* The type invariant of the correction service.
THEOREM TypeCorrect == Spec => []TypeOK
BY TypeInit, TypeNext, PTL DEF Spec

\* One event more at the end of a history.
LEMMA AppendFacts ==
    ASSUME NEW h \in Seq(Event), NEW event \in Event
    PROVE  /\ Len(h) \in Nat
           /\ DOMAIN h = 1 .. Len(h)
           /\ Len(Append(h, event)) = Len(h) + 1
           /\ DOMAIN Append(h, event) = 1 .. Len(h) + 1
           /\ \A i \in 1 .. Len(h) : Append(h, event)[i] = h[i]
           /\ Append(h, event)[Len(h) + 1] = event
OBVIOUS

\* What appending one event does to what a reader derives from a history.
LEMMA AppendEffects ==
    ASSUME NEW h \in Seq(Event), NEW event \in Event
    PROVE  /\ EffectiveState(Append(h, event)) = event.new
           /\ UnderReview(Append(h, event)) = NextReview(event.action)
           /\ KeysOf(Append(h, event)) = KeysOf(h) \cup ({event.key} \ {NoKey})
           /\ Len(Append(h, event)) = Len(h) + 1
<1> DEFINE g == Append(h, event)
<1>1. /\ DOMAIN g = 1 .. Len(h) + 1
      /\ Len(g) = Len(h) + 1
      /\ DOMAIN h = 1 .. Len(h)
      /\ \A i \in 1 .. Len(h) : g[i] = h[i]
      /\ g[Len(h) + 1] = event
      /\ Len(h) \in Nat
  BY AppendFacts
<1> HIDE DEF g
<1>2. Len(g) # 0 /\ g[Len(g)] = event
  BY <1>1
<1>3. EffectiveState(g) = event.new
  BY <1>2 DEF EffectiveState, StateAt
<1>4. UnderReview(g) = NextReview(event.action)
  BY <1>2 DEF UnderReview, ReviewAt, NextReview
<1>5. \A k : k \in {g[i].key : i \in DOMAIN g}
              <=> k \in {h[i].key : i \in DOMAIN h} \/ k = event.key
  <2>1. DOMAIN g = DOMAIN h \cup {Len(h) + 1}
    BY <1>1
  <2> QED
    BY <1>1, <2>1
<1>6. KeysOf(g) = KeysOf(h) \cup ({event.key} \ {NoKey})
  BY <1>5 DEF KeysOf
<1> QED
  BY <1>1, <1>3, <1>4, <1>6 DEF g

-----------------------------------------------------------------------------
\* An event that starts where a replayable history ends extends it.
LEMMA AppendReplays ==
    ASSUME NEW h \in Seq(Event), NEW event \in Event, Replays(h),
           event.seq = Len(h) + 1,
           event.prev = EffectiveState(h),
           Permitted(event.prev, UnderReview(h), event.action, event.target # NoEvidence),
           event.new = NextState(event.prev, event.action)
    PROVE  Replays(Append(h, event))
<1> DEFINE g == Append(h, event)
<1>1. /\ DOMAIN g = 1 .. Len(h) + 1
      /\ \A i \in 1 .. Len(h) : g[i] = h[i]
      /\ g[Len(h) + 1] = event
      /\ Len(h) \in Nat
  BY AppendFacts
<1>2. \A i \in 0 .. Len(h) : /\ StateAt(g, i) = StateAt(h, i)
                             /\ ReviewAt(g, i) = ReviewAt(h, i)
  BY <1>1 DEF StateAt, ReviewAt
<1>3. SUFFICES ASSUME NEW i \in 1 .. Len(h) + 1
               PROVE  /\ g[i].seq = i
                      /\ g[i].prev = StateAt(g, i - 1)
                      /\ Permitted(g[i].prev, ReviewAt(g, i - 1), g[i].action,
                                   g[i].target # NoEvidence)
                      /\ g[i].new = NextState(g[i].prev, g[i].action)
  BY <1>1 DEF Replays
<1> HIDE DEF g
<1>4. CASE i \in 1 .. Len(h)
  <2>1. i - 1 \in 0 .. Len(h) /\ g[i] = h[i] /\ i \in DOMAIN h
    BY <1>1, <1>4
  <2>2. /\ StateAt(g, i - 1) = StateAt(h, i - 1)
        /\ ReviewAt(g, i - 1) = ReviewAt(h, i - 1)
    BY <1>2, <2>1
  <2> QED
    BY <2>1, <2>2 DEF Replays
<1>5. CASE i = Len(h) + 1
  <2>1. i - 1 = Len(h) /\ g[i] = event /\ Len(h) \in 0 .. Len(h)
    BY <1>1, <1>5
  <2> QED
    BY <1>2, <1>5, <2>1 DEF EffectiveState, UnderReview
<1> QED
  BY <1>1, <1>4, <1>5

\* The unique sequence number makes the insert a compare-and-set on the
\* length of the history: if nobody took number seen + 1, nothing was added.
LEMMA NothingAddedSince ==
    ASSUME Inv, NEW a \in Admins, CommitInsert(a)
    PROVE  req[a].seen = Len(log[req[a].input.evidence])
<1> DEFINE h == log[req[a].input.evidence]
<1>1. /\ h \in Seq(Event)
      /\ req[a].seen \in Nat
      /\ Replays(h)
  BY CommitFacts DEF Inv, TypeOK, InFlight, HistoriesReplay
<1>2. req[a].seen <= Len(h)
  BY DEF Inv, RequestsKnowAPrefix, CommitInsert
<1>3. \A i \in DOMAIN h : h[i].seq # req[a].seen + 1
  BY DEF CommitInsert, SequenceTaken
<1>4. ~(req[a].seen + 1 \in DOMAIN h)
  BY <1>1, <1>3 DEF Replays
<1> QED
  BY <1>1, <1>2, <1>4

\* Every committed event is a permitted transition of the state and the
\* review flag in force when it is committed.
LEMMA CommitIsCurrent ==
    ASSUME Inv, NEW a \in Admins, CommitInsert(a)
    PROVE  LET h == log[req[a].input.evidence]
           IN  /\ req[a].state = EffectiveState(h)
               /\ Permitted(req[a].state, UnderReview(h), req[a].input.action,
                            req[a].input.target # NoEvidence)
BY NothingAddedSince DEF Inv, RequestsKnowAPrefix, CommitInsert, EffectiveState, UnderReview

LEMMA HistoriesNext ==
    Inv /\ [Next]_vars => HistoriesReplay'
<1> SUFFICES ASSUME Inv, [Next]_vars PROVE HistoriesReplay'
  OBVIOUS
<1>1. ASSUME NEW a \in Admins, CommitInsert(a)
      PROVE  HistoriesReplay'
  <2> DEFINE f == req[a].input.evidence
             h == log[f]
  <2>1. PICK event \in Event :
          /\ event.seq = req[a].seen + 1
          /\ event.action = req[a].input.action
          /\ event.prev = req[a].state
          /\ event.new = NextState(req[a].state, req[a].input.action)
          /\ event.target = req[a].input.target
          /\ log' = [log EXCEPT ![f] = Append(@, event)]
    BY <1>1, CommitFacts DEF Inv
  <2>2. f \in Evidence /\ h \in Seq(Event) /\ Replays(h)
    BY <1>1, CommitFacts DEF Inv, TypeOK, HistoriesReplay
  <2>3. Replays(Append(h, event))
    BY <1>1, <2>1, <2>2, NothingAddedSince, CommitIsCurrent, AppendReplays
  <2>4. \A e \in Evidence : log'[e] = IF e = f THEN Append(h, event) ELSE log[e]
    BY <2>1, <2>2 DEF Inv, TypeOK
  <2> QED
    BY <2>3, <2>4 DEF Inv, HistoriesReplay
<1>2. CASE UNCHANGED log
  BY <1>2 DEF Inv, HistoriesReplay
<1>3. CASE \E a \in Admins : CommitInsert(a)
  BY <1>1, <1>3
<1> QED
  BY <1>2, <1>3 DEF Next, vars, Receive, LookupKey, LoadHistory, GuardInsert,
     RejectInsert, LookupKeyAgain, Respond, Lose, Finish, Goto

\* Histories only grow, and what a prefix says stays true.
LEMMA PrefixesStay ==
    ASSUME NEW h \in Seq(Event), NEW event \in Event, NEW n \in Nat, n <= Len(h)
    PROVE  /\ n <= Len(Append(h, event))
           /\ StateAt(Append(h, event), n) = StateAt(h, n)
           /\ ReviewAt(Append(h, event), n) = ReviewAt(h, n)
BY DEF StateAt, ReviewAt

LEMMA RequestsNext ==
    Inv /\ [Next]_vars => RequestsKnowAPrefix'
<1> SUFFICES ASSUME Inv, [Next]_vars,
                    NEW b \in Admins, req'[b].step \in {"guard", "commit"}
             PROVE  LET input == req'[b].input
                        history == log'[input.evidence]
                        seen == req'[b].seen
                    IN  /\ seen <= Len(history)
                        /\ req'[b].state = StateAt(history, seen)
                        /\ Permitted(req'[b].state, ReviewAt(history, seen),
                                     input.action, input.target # NoEvidence)
  BY DEF RequestsKnowAPrefix
<1> USE DEF Inv
<1>1. CASE /\ req[b].step \in {"guard", "commit"}
           /\ UNCHANGED log
           /\ req'[b] \in {req[b], [req[b] EXCEPT !.step = "commit"]}
  <2>1. req[b] \in InFlight(Waiting)
    BY <1>1, WaitingRequest DEF Waiting
  <2>2. /\ req'[b].input = req[b].input
        /\ req'[b].seen = req[b].seen
        /\ req'[b].state = req[b].state
    BY <1>1, <2>1 DEF InFlight
  <2> QED
    BY <1>1, <2>2 DEF RequestsKnowAPrefix
<1>2. ASSUME NEW a \in Admins, LoadHistory(a), a = b
      PROVE  /\ req'[b].seen <= Len(log'[req'[b].input.evidence])
             /\ req'[b].state = StateAt(log'[req'[b].input.evidence], req'[b].seen)
             /\ Permitted(req'[b].state,
                          ReviewAt(log'[req'[b].input.evidence], req'[b].seen),
                          req'[b].input.action, req'[b].input.target # NoEvidence)
  <2> DEFINE input == req[b].input
             history == log[input.evidence]
  <2>1. req[b] \in InFlight(Waiting) /\ req \in [Admins -> Request]
    BY <1>2, WaitingRequest DEF LoadHistory, Waiting, TypeOK
  <2>2. input \in Inputs /\ input.evidence \in Evidence
    BY <2>1, InputParts DEF InFlight
  <2>3. history \in Seq(Event)
    BY <2>2 DEF TypeOK
  <2>4. CASE \E outcome \in Outcome : Finish(b, outcome)
    <3>1. req'[b].step = "answered"
      BY <2>1, <2>4 DEF Finish, Answer
    <3> QED
      BY <3>1
  <2>5. CASE /\ Permitted(EffectiveState(history), UnderReview(history), input.action,
                          input.target # NoEvidence)
             /\ req' = [req EXCEPT ![b].step = "guard",
                                   ![b].seen = Len(history),
                                   ![b].state = EffectiveState(history)]
             /\ UNCHANGED log
    <3>1. /\ req'[b].input = input
          /\ req'[b].seen = Len(history)
          /\ req'[b].state = EffectiveState(history)
      BY <2>1, <2>5 DEF InFlight
    <3>2. log'[req'[b].input.evidence] = history
      BY <2>5, <3>1
    <3>3. /\ EffectiveState(history) = StateAt(history, Len(history))
          /\ UnderReview(history) = ReviewAt(history, Len(history))
      BY DEF EffectiveState, UnderReview
    <3>4. Len(history) <= Len(history)
      BY <2>3
    <3>5. Permitted(EffectiveState(history), UnderReview(history), input.action,
                    input.target # NoEvidence)
      BY <2>5
    <3> HIDE DEF history, input
    <3> QED
      BY <3>1, <3>2, <3>3, <3>4, <3>5
  <2> QED
    BY <1>2, <2>4, <2>5 DEF LoadHistory, Outcome
<1>3. ASSUME NEW a \in Admins, CommitInsert(a), a # b
      PROVE  /\ req'[b].seen <= Len(log'[req'[b].input.evidence])
             /\ req'[b].state = StateAt(log'[req'[b].input.evidence], req'[b].seen)
             /\ Permitted(req'[b].state,
                          ReviewAt(log'[req'[b].input.evidence], req'[b].seen),
                          req'[b].input.action, req'[b].input.target # NoEvidence)
  <2>1. req'[b] = req[b]
    BY <1>3 DEF CommitInsert, TypeOK
  <2>2. req[b] \in InFlight(Waiting)
    BY <2>1, WaitingRequest DEF Waiting
  <2>3. /\ req[b].input \in Inputs
        /\ req[b].input.evidence \in Evidence
        /\ req[b].seen \in Nat
    BY <2>2, InputParts DEF InFlight
  <2> DEFINE f == req[a].input.evidence
             g == req[b].input.evidence
  <2>4. PICK event \in Event : log' = [log EXCEPT ![f] = Append(@, event)]
    BY <1>3, CommitFacts
  <2>5. f \in Evidence /\ log[g] \in Seq(Event)
    BY <1>3, <2>3, CommitFacts DEF TypeOK
  <2>6. log'[g] = log[g] \/ log'[g] = Append(log[g], event)
    BY <2>3, <2>4, <2>5 DEF TypeOK
  <2>7. /\ req[b].seen <= Len(log[g])
        /\ req[b].state = StateAt(log[g], req[b].seen)
        /\ Permitted(req[b].state, ReviewAt(log[g], req[b].seen),
                     req[b].input.action, req[b].input.target # NoEvidence)
    BY <2>1 DEF RequestsKnowAPrefix
  <2>8. /\ req[b].seen <= Len(log'[g])
        /\ StateAt(log'[g], req[b].seen) = StateAt(log[g], req[b].seen)
        /\ ReviewAt(log'[g], req[b].seen) = ReviewAt(log[g], req[b].seen)
    <3>1. CASE log'[g] = log[g]
      BY <2>7, <3>1
    <3>2. CASE log'[g] = Append(log[g], event)
      BY <2>3, <2>5, <2>7, <3>2, PrefixesStay
    <3> QED
      BY <2>6, <3>1, <3>2
  <2> QED
    BY <2>1, <2>7, <2>8
<1>4. ASSUME NEW a \in Admins, CommitInsert(a), a = b
      PROVE  FALSE
  BY <1>4 DEF CommitInsert, Answer, TypeOK
<1>5. ASSUME NEW a \in Admins, NEW input \in Inputs, Receive(a, input)
      PROVE  a # b /\ UNCHANGED log /\ req'[b] = req[b]
  BY <1>5 DEF Receive, TypeOK
<1>6. ASSUME NEW a \in Admins, a = b,
             LookupKey(a) \/ RejectInsert(a) \/ LookupKeyAgain(a) \/ Respond(a) \/ Lose(a)
      PROVE  FALSE
  <2>1. CASE \E outcome \in Outcome : Finish(b, outcome)
    BY <2>1 DEF Finish, Answer, TypeOK
  <2>2. CASE req[b].step \in Waiting /\ (Goto(b, "load") \/ Goto(b, "lookupAgain"))
    <3>1. req[b] \in InFlight(Waiting)
      BY <2>2, WaitingRequest
    <3>2. req'[b].step \in {"load", "lookupAgain"}
      BY <2>2, <3>1 DEF Goto, TypeOK, InFlight
    <3> QED
      BY <3>2
  <2>3. CASE Respond(b) \/ Lose(b)
    BY <2>3 DEF Respond, Lose, Idle, TypeOK
  <2> QED
    BY <1>6, <2>1, <2>2, <2>3 DEF LookupKey, RejectInsert, LookupKeyAgain, Outcome, Waiting
<1>7. ASSUME NEW a \in Admins, a = b, GuardInsert(a)
      PROVE  /\ req[b].step \in {"guard", "commit"}
             /\ UNCHANGED log
             /\ req'[b] \in {req[b], [req[b] EXCEPT !.step = "commit"]}
  <2>1. CASE Finish(b, "failed")
    BY <2>1 DEF Finish, Answer, TypeOK
  <2>2. CASE Goto(b, "commit")
    BY <1>7, <2>2 DEF GuardInsert, Goto, TypeOK
  <2> QED
    BY <1>7, <2>1, <2>2 DEF GuardInsert
<1>8. ASSUME NEW a \in Admins, a # b,
             LookupKey(a) \/ LoadHistory(a) \/ GuardInsert(a) \/ RejectInsert(a)
               \/ LookupKeyAgain(a) \/ Respond(a) \/ Lose(a)
      PROVE  UNCHANGED log /\ req'[b] = req[b]
  BY <1>8 DEF LookupKey, LoadHistory, GuardInsert, RejectInsert, LookupKeyAgain,
     Respond, Lose, Finish, Goto, TypeOK
<1>9. CASE UNCHANGED vars
  BY <1>1, <1>9 DEF vars
<1> QED
  BY <1>1, <1>2, <1>3, <1>4, <1>5, <1>6, <1>7, <1>8, <1>9 DEF Next

LEMMA InvInit == Init => Inv
BY TypeInit DEF Init, Inv, HistoriesReplay, Replays, RequestsKnowAPrefix, Idle

LEMMA InvNext == Inv /\ [Next]_vars => Inv'
BY TypeNext, HistoriesNext, RequestsNext DEF Inv

LEMMA Invariance == Spec => []Inv
BY InvInit, InvNext, PTL DEF Spec

\* Whatever administrators send at the same time, the history of every
\* Evidence Record replays.
THEOREM AlwaysReplays == Spec => []HistoriesReplay
BY Invariance, PTL DEF Inv

-----------------------------------------------------------------------------
LEMMA KeysNext ==
    TypeOK /\ OneEventPerKey /\ [Next]_vars => OneEventPerKey'
<1> SUFFICES ASSUME TypeOK, OneEventPerKey, [Next]_vars PROVE OneEventPerKey'
  OBVIOUS
<1>1. ASSUME NEW a \in Admins, CommitInsert(a)
      PROVE  OneEventPerKey'
  <2> DEFINE f == req[a].input.evidence
             h == log[f]
  <2>1. PICK event \in Event :
          /\ event.key = req[a].input.key
          /\ log' = [log EXCEPT ![f] = Append(@, event)]
    BY <1>1, CommitFacts
  <2>2. f \in Evidence /\ h \in Seq(Event)
    BY <1>1, CommitFacts DEF TypeOK
  <2>3. event.key = NoKey \/ \A i \in DOMAIN h : h[i].key # event.key
    BY <1>1, <2>1 DEF CommitInsert, KeyUsed
  <2>4. \A e \in Evidence : log'[e] = IF e = f THEN Append(h, event) ELSE log[e]
    BY <2>1, <2>2 DEF TypeOK
  <2>5. \A i, j \in DOMAIN h : h[i].key = h[j].key /\ h[i].key # NoKey => i = j
    BY <2>2 DEF OneEventPerKey
  <2> DEFINE g == Append(h, event)
  <2> HIDE DEF f, h
  <2>6. \A i, j \in DOMAIN g : g[i].key = g[j].key /\ g[i].key # NoKey => i = j
    <3>1. /\ DOMAIN g = DOMAIN h \cup {Len(h) + 1}
          /\ \A i \in DOMAIN h : g[i] = h[i]
          /\ g[Len(h) + 1] = event
      BY <2>2
    <3> HIDE DEF g
    <3> QED
      BY <2>3, <2>5, <3>1
  <2> QED
    BY <2>4, <2>6 DEF OneEventPerKey, g
<1>2. CASE UNCHANGED log
  BY <1>2 DEF OneEventPerKey
<1> QED
  BY <1>1, <1>2 DEF Next, vars, Receive, LookupKey, LoadHistory, GuardInsert,
     RejectInsert, LookupKeyAgain, Respond, Lose, Finish, Goto

\* A correction request with an idempotency key takes effect at most once,
\* for any number of administrators, retries and lost answers.
THEOREM AtMostOncePerKey == Spec => []OneEventPerKey
<1>1. Init => OneEventPerKey
  BY DEF Init, OneEventPerKey
<1> QED
  BY <1>1, KeysNext, TypeCorrect, PTL DEF Spec

-----------------------------------------------------------------------------
\* How an event changes which record a reader is told supersedes this one: it
\* does so only if it supersedes or restores.
LEMMA AppendReplacement ==
    ASSUME NEW h \in Seq(Event), NEW event \in Event
    PROVE  SupersededBy(Append(h, event)) =
             IF event.action \in {"supersede", "restore"} THEN event.target
                                                          ELSE SupersededBy(h)
<1> DEFINE g == Append(h, event)
           Deciding(s) == {i \in DOMAIN s : s[i].action \in {"supersede", "restore"}}
           Latest(s) == {i \in DOMAIN s :
                         /\ s[i].action \in {"supersede", "restore"}
                         /\ \A j \in DOMAIN s :
                               s[j].action \in {"supersede", "restore"} => j <= i}
<1>1. /\ DOMAIN g = 1 .. Len(h) + 1
      /\ DOMAIN h = 1 .. Len(h)
      /\ \A i \in 1 .. Len(h) : g[i] = h[i]
      /\ g[Len(h) + 1] = event
      /\ Len(h) \in Nat
  BY AppendFacts
<1>2. \A s : SupersededBy(s) = IF Latest(s) = {} THEN NoEvidence
                               ELSE s[CHOOSE i \in Latest(s) : TRUE].target
  BY Zenon DEF SupersededBy
<1> HIDE DEF g
<1>3. CASE event.action \in {"supersede", "restore"}
  <2>1. Latest(g) = {Len(h) + 1}
    BY <1>1, <1>3
  <2>2. (CHOOSE i \in {Len(h) + 1} : TRUE) = Len(h) + 1
    OBVIOUS
  <2>3. SupersededBy(g) = g[Len(h) + 1].target
    <3> HIDE DEF Latest
    <3> QED
      BY <1>2, <2>1, <2>2
  <2> QED
    BY <1>1, <1>3, <2>3 DEF g
<1>4. CASE event.action \notin {"supersede", "restore"}
  <2>1. Latest(g) = Latest(h)
    BY <1>1, <1>4
  <2>2. \A i \in Latest(h) : g[i] = h[i]
    BY <1>1
  <2>3. SupersededBy(g) = SupersededBy(h)
    <3> DEFINE last == CHOOSE i \in Latest(h) : TRUE
    <3>1. Latest(h) # {} => last \in Latest(h)
      OBVIOUS
    <3>2. /\ SupersededBy(h) = IF Latest(h) = {} THEN NoEvidence ELSE h[last].target
          /\ SupersededBy(g) = IF Latest(h) = {} THEN NoEvidence ELSE g[last].target
      <4> HIDE DEF Latest
      <4> QED
        BY <1>2, <2>1
    <3> HIDE DEF last, Latest
    <3> QED
      BY <2>2, <3>1, <3>2
  <2> QED
    BY <1>4, <2>3 DEF g
<1> QED
  BY <1>3, <1>4

LEMMA ReplacementNext ==
    Inv /\ ReplacementMatchesState /\ [Next]_vars => ReplacementMatchesState'
<1> SUFFICES ASSUME Inv, ReplacementMatchesState, [Next]_vars
             PROVE  ReplacementMatchesState'
  OBVIOUS
<1>1. ASSUME NEW a \in Admins, CommitInsert(a)
      PROVE  ReplacementMatchesState'
  <2> DEFINE f == req[a].input.evidence
             h == log[f]
             state == EffectiveState(h)
  <2>1. PICK event \in Event :
          /\ event.action = req[a].input.action
          /\ event.new = NextState(req[a].state, req[a].input.action)
          /\ event.target = req[a].input.target
          /\ log' = [log EXCEPT ![f] = Append(@, event)]
    BY <1>1, CommitFacts DEF Inv
  <2>2. f \in Evidence /\ h \in Seq(Event)
    BY <1>1, CommitFacts DEF Inv, TypeOK
  <2>3. /\ event.new = NextState(state, event.action)
        /\ \E review : Permitted(state, review, event.action, event.target # NoEvidence)
    BY <1>1, <2>1, CommitIsCurrent
  <2>4. \A e \in Evidence : log'[e] = IF e = f THEN Append(h, event) ELSE log[e]
    BY <2>1, <2>2 DEF Inv, TypeOK
  <2>5. /\ state = "superseded" <=> SupersededBy(h) # NoEvidence
        /\ state \in EvidenceState
        /\ event.action \in CorrectionAction
    <3>1. state = "superseded" <=> SupersededBy(h) # NoEvidence
      BY <2>2 DEF ReplacementMatchesState
    <3>2. state \in EvidenceState
      <4>1. Len(h) \in 0 .. Len(h)
        BY <2>2
      <4> QED
        BY <2>2, <4>1, StateAtType DEF EffectiveState
    <3> QED
      BY <3>1, <3>2 DEF Event
  <2>6. EffectiveState(Append(h, event)) = event.new
    BY <2>2, AppendEffects
  <2> HIDE DEF f, h, state
  <2>7. event.new = "superseded"
          <=> (IF event.action \in {"supersede", "restore"} THEN event.target
                                                            ELSE SupersededBy(h)) # NoEvidence
    BY <2>3, <2>5 DEF NextState, Permitted, EvidenceState, CorrectionAction
  <2>8. EffectiveState(Append(h, event)) = "superseded"
          <=> SupersededBy(Append(h, event)) # NoEvidence
    BY <2>2, <2>6, <2>7, AppendReplacement
  <2> QED
    BY <2>4, <2>8 DEF ReplacementMatchesState
<1>2. CASE UNCHANGED log
  BY <1>2 DEF ReplacementMatchesState
<1> QED
  BY <1>1, <1>2 DEF Next, vars, Receive, LookupKey, LoadHistory, GuardInsert,
     RejectInsert, LookupKeyAgain, Respond, Lose, Finish, Goto

\* However reviews, supersessions and restores race, a record names a
\* replacement exactly while it is superseded.
THEOREM ReplacementIsShown == Spec => []ReplacementMatchesState
<1>1. Init => ReplacementMatchesState
  <2>1. EffectiveState(<<>>) = "active" /\ SupersededBy(<<>>) = NoEvidence
    BY DEF EffectiveState, StateAt, SupersededBy
  <2> QED
    BY <2>1 DEF Init, ReplacementMatchesState
<1> QED
  BY <1>1, ReplacementNext, Invariance, PTL DEF Spec

-----------------------------------------------------------------------------
\* The event that backs a success answer given to an input.
Backed(input, outcome, history) ==
    \E i \in DOMAIN history :
        /\ history[i].key = input.key
        /\ outcome = "created" => history[i].action = input.action

\* An answer stays backed, since histories only grow; a new one is given on a
\* key that was found or for the event just written.
LEMMA AnswersNext ==
    TypeOK /\ AnswersAreBacked /\ [Next]_vars => AnswersAreBacked'
<1> SUFFICES ASSUME TypeOK, AnswersAreBacked, [Next]_vars,
                    NEW b \in Admins, req'[b].step = "answered",
                    req'[b].outcome \in {"created", "existing"}
             PROVE  Backed(req'[b].input, req'[b].outcome, log'[req'[b].input.evidence])
  BY DEF AnswersAreBacked, Backed
<1>1. ASSUME NEW a \in Admins, CommitInsert(a)
      PROVE  Backed(req'[b].input, req'[b].outcome, log'[req'[b].input.evidence])
  <2> DEFINE f == req[a].input.evidence
             h == log[f]
  <2>1. PICK event \in Event :
          /\ event.action = req[a].input.action
          /\ event.key = req[a].input.key
          /\ log' = [log EXCEPT ![f] = Append(@, event)]
    BY <1>1, CommitFacts
  <2>2. f \in Evidence /\ h \in Seq(Event) /\ log \in [Evidence -> Seq(Event)]
    BY <1>1, CommitFacts DEF TypeOK
  <2>3. /\ Len(h) + 1 \in DOMAIN Append(h, event)
        /\ Append(h, event)[Len(h) + 1] = event
        /\ \A i \in DOMAIN h : i \in DOMAIN Append(h, event) /\ Append(h, event)[i] = h[i]
    <3> HIDE DEF f, h
    <3>1. /\ Len(h) \in Nat
          /\ DOMAIN h = 1 .. Len(h)
          /\ DOMAIN Append(h, event) = 1 .. Len(h) + 1
          /\ \A i \in 1 .. Len(h) : Append(h, event)[i] = h[i]
          /\ Append(h, event)[Len(h) + 1] = event
      BY <2>2, AppendFacts
    <3> QED
      BY <3>1
  <2>4. log'[f] = Append(h, event) /\ \A e \in Evidence \ {f} : log'[e] = log[e]
    BY <2>1, <2>2
  <2>5. CASE a = b
    <3>1. req'[b] = Answer(req[a].input, "created")
      BY <1>1, <2>5 DEF CommitInsert, TypeOK
    <3>2. req'[b].input = req[a].input
      BY <3>1 DEF Answer
    <3> QED
      BY <2>1, <2>3, <2>4, <3>2 DEF Backed
  <2>6. CASE a # b
    <3>1. req'[b] = req[b]
      BY <1>1, <2>6 DEF CommitInsert, TypeOK
    <3>2. Backed(req[b].input, req[b].outcome, log[req[b].input.evidence])
      BY <3>1 DEF AnswersAreBacked, Backed
    <3>3. req[b].input.evidence \in Evidence
      BY <3>1, InputParts DEF TypeOK, Request, Idle, InFlight, Waiting
    <3>4. CASE req[b].input.evidence = f
      <4>1. Backed(req[b].input, req[b].outcome, h)
        BY <3>2, <3>4
      <4> HIDE DEF h
      <4>2. Backed(req[b].input, req[b].outcome, Append(h, event))
        BY <2>3, <4>1 DEF Backed
      <4> QED
        BY <2>4, <3>1, <3>4, <4>2
    <3>5. CASE req[b].input.evidence # f
      BY <2>4, <3>1, <3>2, <3>3, <3>5
    <3> QED
      BY <3>4, <3>5
  <2> QED
    BY <2>5, <2>6
<1>2. ASSUME NEW a \in Admins, a # b, UNCHANGED log, req'[b] = req[b]
      PROVE  Backed(req'[b].input, req'[b].outcome, log'[req'[b].input.evidence])
  BY <1>2 DEF AnswersAreBacked, Backed
<1>3. ASSUME NEW outcome \in {"failed", "stale", "denied", "conflict"}, Finish(b, outcome)
      PROVE  FALSE
  BY <1>3 DEF Finish, Answer, TypeOK
<1>4. ASSUME Finish(b, "existing"), KeyUsed(req[b].input.evidence, req[b].input.key)
      PROVE  Backed(req'[b].input, req'[b].outcome, log'[req'[b].input.evidence])
  <2>1. req'[b] = Answer(req[b].input, "existing") /\ log' = log
    BY <1>4 DEF Finish, TypeOK
  <2>2. req'[b].input = req[b].input /\ req'[b].outcome = "existing"
    BY <2>1 DEF Answer
  <2> QED
    BY <1>4, <2>1, <2>2 DEF KeyUsed, Backed
<1>5. ASSUME NEW step \in Waiting, Goto(b, step), req[b].step \in Waiting
      PROVE  FALSE
  <2>1. req[b] \in InFlight(Waiting)
    BY <1>5, WaitingRequest
  <2>2. req'[b].step = step
    BY <1>5, <2>1 DEF Goto, TypeOK, InFlight
  <2> QED
    BY <1>5, <2>2 DEF Waiting
<1>6. CASE LookupKey(b)
  BY <1>4, <1>5, <1>6 DEF LookupKey, Waiting
<1>7. CASE LoadHistory(b)
  <2>1. req[b] \in InFlight(Waiting)
    BY <1>7, WaitingRequest DEF LoadHistory, Waiting
  <2>2. \/ \E outcome \in {"failed", "stale", "denied"} : Finish(b, outcome)
        \/ req' = [req EXCEPT ![b].step = "guard",
                              ![b].seen = Len(log[req[b].input.evidence]),
                              ![b].state = EffectiveState(log[req[b].input.evidence])]
    BY <1>7 DEF LoadHistory
  <2>3. CASE req' = [req EXCEPT ![b].step = "guard",
                                ![b].seen = Len(log[req[b].input.evidence]),
                                ![b].state = EffectiveState(log[req[b].input.evidence])]
    BY <2>1, <2>3 DEF TypeOK, InFlight
  <2> QED
    BY <1>3, <2>2, <2>3
<1>8. CASE GuardInsert(b)
  BY <1>3, <1>5, <1>8 DEF GuardInsert, Waiting
<1>9. CASE RejectInsert(b)
  BY <1>3, <1>5, <1>9 DEF RejectInsert, Waiting
<1>10. CASE LookupKeyAgain(b)
  BY <1>3, <1>4, <1>10 DEF LookupKeyAgain
<1>11. CASE Respond(b) \/ Lose(b) \/ \E input \in Inputs : Receive(b, input)
  BY <1>11 DEF Respond, Lose, Receive, Idle, TypeOK
<1>12. ASSUME NEW a \in Admins, a # b,
              \/ LookupKey(a) \/ LoadHistory(a) \/ GuardInsert(a) \/ RejectInsert(a)
              \/ LookupKeyAgain(a) \/ Respond(a) \/ Lose(a)
              \/ \E input \in Inputs : Receive(a, input)
       PROVE  UNCHANGED log /\ req'[b] = req[b]
  BY <1>12 DEF LookupKey, LoadHistory, GuardInsert, RejectInsert, LookupKeyAgain,
     Respond, Lose, Receive, Finish, Goto, TypeOK
<1>13. CASE UNCHANGED vars
  BY <1>13 DEF vars, AnswersAreBacked, Backed
<1> QED
  BY <1>1, <1>2, <1>6, <1>7, <1>8, <1>9, <1>10, <1>11, <1>12, <1>13 DEF Next

\* An administrator who is told that a correction was made, or had been made,
\* finds it in the history, whatever was retried, rejected or lost.
THEOREM SuccessIsBacked == Spec => []AnswersAreBacked
<1>1. Init => AnswersAreBacked
  BY DEF Init, AnswersAreBacked, Idle
<1> QED
  BY <1>1, AnswersNext, TypeCorrect, PTL DEF Spec

-----------------------------------------------------------------------------
LEMMA InitRefines == Init => Abs!AbsInit
<1> SUFFICES ASSUME Init PROVE Abs!AbsInit
  OBVIOUS
<1>1. \A e \in Evidence : log[e] = <<>>
  BY DEF Init
<1>2. /\ EffectiveState(<<>>) = "active" /\ UnderReview(<<>>) = FALSE
      /\ KeysOf(<<>>) = {} /\ Len(<<>>) = 0
  BY DEF EffectiveState, StateAt, UnderReview, ReviewAt, KeysOf
<1> QED
  BY <1>1, <1>2 DEF Abs!AbsInit

\* A committed insert is a step of EvidenceTrust.
LEMMA CommitRefines ==
    ASSUME Inv, NEW a \in Admins, CommitInsert(a)
    PROVE  Abs!Correct(req[a].input.evidence, req[a].input.action, req[a].input.key)
<1> DEFINE f == req[a].input.evidence
           h == log[f]
           action == req[a].input.action
           key == req[a].input.key
<1>1. PICK event \in Event :
        /\ event.action = action
        /\ event.new = NextState(req[a].state, action)
        /\ event.key = key
        /\ log' = [log EXCEPT ![f] = Append(@, event)]
  BY CommitFacts DEF Inv
<1>2. /\ f \in Evidence
      /\ log \in [Evidence -> Seq(Event)]
      /\ h \in Seq(Event)
  BY CommitFacts DEF Inv, TypeOK
<1>3. \A e \in Evidence : log'[e] = IF e = f THEN Append(h, event) ELSE log[e]
  BY <1>1, <1>2
<1>4. /\ req[a].state = EffectiveState(h)
      /\ Permitted(EffectiveState(h), UnderReview(h), action, action = "supersede")
  BY CommitIsCurrent DEF Permitted
<1>5. key \notin KeysOf(h)
  BY DEF CommitInsert, KeyUsed, KeysOf
<1> HIDE DEF f, h, action, key
<1>6. /\ EffectiveState(Append(h, event)) = NextState(EffectiveState(h), action)
      /\ UnderReview(Append(h, event)) = NextReview(action)
      /\ KeysOf(Append(h, event)) = KeysOf(h) \cup ({key} \ {NoKey})
      /\ Len(Append(h, event)) = Len(h) + 1
  BY <1>1, <1>2, <1>4, AppendEffects
<1>7. [e \in Evidence |-> EffectiveState(log'[e])]
        = [[e \in Evidence |-> EffectiveState(log[e])]
             EXCEPT ![f] = NextState(@, action)]
  BY <1>2, <1>3, <1>6 DEF h
<1>8. [e \in Evidence |-> UnderReview(log'[e])]
        = [[e \in Evidence |-> UnderReview(log[e])] EXCEPT ![f] = NextReview(action)]
  BY <1>2, <1>3, <1>6 DEF h
<1>9. [e \in Evidence |-> KeysOf(log'[e])]
        = [[e \in Evidence |-> KeysOf(log[e])] EXCEPT ![f] = @ \cup ({key} \ {NoKey})]
  BY <1>2, <1>3, <1>6 DEF h
<1>10. [e \in Evidence |-> Len(log'[e])]
         = [[e \in Evidence |-> Len(log[e])] EXCEPT ![f] = @ + 1]
  BY <1>2, <1>3, <1>6 DEF h
<1>11. Abs!Correct(f, action, key)
  <2>1. Abs!Permitted([e \in Evidence |-> EffectiveState(log[e])][f],
                      [e \in Evidence |-> UnderReview(log[e])][f],
                      action, action = "supersede")
    BY <1>2, <1>4 DEF Abs!Permitted, Permitted, h
  <2>2. key \notin [e \in Evidence |-> KeysOf(log[e])][f]
    BY <1>2, <1>5 DEF h
  <2>3. \A s : Abs!NextState(s, action) = NextState(s, action)
    BY DEF Abs!NextState, NextState
  <2>4. Abs!NextReview(action) = NextReview(action)
    BY DEF Abs!NextReview, NextReview
  <2> QED
    BY <1>7, <1>8, <1>9, <1>10, <2>1, <2>2, <2>3, <2>4 DEF Abs!Correct
<1> QED
  BY <1>11 DEF f, action, key

LEMMA StepRefines == Inv /\ [Next]_vars => [Abs!AbsNext]_(Abs!absVars)
<1> SUFFICES ASSUME Inv, [Next]_vars PROVE [Abs!AbsNext]_(Abs!absVars)
  OBVIOUS
<1>1. ASSUME NEW a \in Admins, CommitInsert(a)
      PROVE  Abs!AbsNext
  <2>1. /\ req[a].input.evidence \in Evidence
        /\ req[a].input.action \in Abs!CorrectionAction
        /\ req[a].input.key \in Keys \cup {NoKey}
    BY <1>1, CommitFacts, InputParts DEF Inv, Abs!CorrectionAction, CorrectionAction
  <2>2. Abs!Correct(req[a].input.evidence, req[a].input.action, req[a].input.key)
    BY <1>1, CommitRefines
  <2> QED
    BY <2>1, <2>2 DEF Abs!AbsNext, Abs!Correct
<1>2. CASE UNCHANGED log
  BY <1>2 DEF Abs!absVars
<1> QED
  BY <1>1, <1>2 DEF Next, vars, Receive, LookupKey, LoadHistory, GuardInsert,
     RejectInsert, LookupKeyAgain, Respond, Lose, Finish, Goto

\* The racing, retried, multi-step requests implement indivisible corrections.
THEOREM Implements == Spec => ImplementsTrust
<1>1. Spec => Abs!AbsSpec
  BY InitRefines, StepRefines, Invariance, PTL DEF Spec, Abs!AbsSpec
<1> QED
  BY <1>1 DEF ImplementsTrust

-----------------------------------------------------------------------------
(* What Picked makes of a list *)

\* Induction over the numbers, for a set: what the numbers without the property
\* would be has a least element.
LEMMA NumberInduction ==
    ASSUME NEW T, 0 \in T, \A n \in Nat : n \in T => n + 1 \in T
    PROVE  Nat \subseteq T
<1> SUFFICES ASSUME Nat \ T # {}
             PROVE  FALSE
  OBVIOUS
<1>1. PICK x \in Nat \ T : \A y \in Nat \ T : <<y, x>> \notin OpToRel(<, Nat)
  BY NatLessThanWellFounded, WFMin
<1>2. \A y \in Nat \ T : ~(y < x)
  BY <1>1, Zenon DEF OpToRel
<1> HIDE <1>1
<1>3. x - 1 \in Nat /\ x - 1 < x
  OBVIOUS
<1>4. x - 1 \in T
  BY <1>2, <1>3
<1> QED BY <1>3, <1>4

\* g[i] is what is picked of the first i entries.
PickedSoFar(entries, keep, n, g) ==
    g = [i \in 0..n |->
            IF i = 0 THEN <<>>
            ELSE IF i \in keep THEN Append(g[i - 1], entries[i]) ELSE g[i - 1]]

\* The recursive function of Picked exists, whatever the list.
LEMMA PickedDefined ==
    ASSUME NEW entries, NEW keep, NEW n \in Nat
    PROVE  \E g : PickedSoFar(entries, keep, n, g)
<1> DEFINE T == {k \in Nat : \E g : PickedSoFar(entries, keep, k, g)}
<1>1. 0 \in T
  <2> DEFINE g == [i \in 0..0 |-> <<>>]
  <2>1. PickedSoFar(entries, keep, 0, g)
    BY DEF PickedSoFar
  <2> QED BY <2>1
<1>2. ASSUME NEW k \in Nat, k \in T
      PROVE  k + 1 \in T
  <2>1. PICK g : PickedSoFar(entries, keep, k, g)
    BY <1>2
  <2> DEFINE last == IF k + 1 \in keep THEN Append(g[k], entries[k + 1]) ELSE g[k]
             h == [i \in 0..(k + 1) |-> IF i = k + 1 THEN last ELSE g[i]]
  <2>2. \A i \in 0..k :
           g[i] = IF i = 0 THEN <<>>
                  ELSE IF i \in keep THEN Append(g[i - 1], entries[i]) ELSE g[i - 1]
    BY <2>1 DEF PickedSoFar
  <2> HIDE DEF last
  <2>3. h[k + 1] = last /\ \A i \in 0..k : h[i] = g[i]
    OBVIOUS
  <2>4. h = [i \in 0..(k + 1) |-> h[i]]
    OBVIOUS
  <2> HIDE DEF h
  <2>5. ASSUME NEW i \in 0..(k + 1)
        PROVE  h[i] = IF i = 0 THEN <<>>
                      ELSE IF i \in keep THEN Append(h[i - 1], entries[i]) ELSE h[i - 1]
    <3>1. CASE i = k + 1
      <4>1. h[k] = g[k] /\ k + 1 # 0 /\ (k + 1) - 1 = k
        BY <2>3
      <4> QED BY <2>3, <3>1, <4>1 DEF last
    <3>2. CASE i # k + 1
      BY <2>2, <2>3, <3>2
    <3> QED BY <3>1, <3>2
  <2>6. PickedSoFar(entries, keep, k + 1, h)
    BY <2>4, <2>5 DEF PickedSoFar
  <2> QED BY <2>6
<1> HIDE DEF T
<1>3. n \in T
  BY <1>1, <1>2, NumberInduction
<1> QED BY <1>3 DEF T

LEMMA PickedUnfolds ==
    ASSUME NEW entries, NEW keep
    PROVE  Picked(entries, keep)
             = (CHOOSE g : PickedSoFar(entries, keep, Len(entries), g))[Len(entries)]
BY DEF Picked, PickedSoFar

\* The list picked holds the entries at the first n positions to keep and
\* nothing else, in their order: the j-th comes from position at[j].
PickedFrom(entries, keep, n, list) ==
    /\ Len(list) <= n
    /\ \E at :
          /\ \A j \in 1..Len(list) : at[j] \in 1..n /\ at[j] \in keep /\ list[j] = entries[at[j]]
          /\ \A j, k \in 1..Len(list) : j < k => at[j] < at[k]
          /\ \A i \in 1..n : i \in keep => \E j \in 1..Len(list) : at[j] = i

LEMMA PickedInOrder ==
    ASSUME NEW S, NEW entries \in Seq(S), NEW keep
    PROVE  /\ Picked(entries, keep) \in Seq(S)
           /\ PickedFrom(entries, keep, Len(entries), Picked(entries, keep))
<1> DEFINE g == CHOOSE h : PickedSoFar(entries, keep, Len(entries), h)
<1>1. Len(entries) \in Nat /\ \A i \in 1..Len(entries) : entries[i] \in S
  OBVIOUS
<1>2. PickedSoFar(entries, keep, Len(entries), g)
  BY <1>1, PickedDefined
<1>3. Picked(entries, keep) = g[Len(entries)]
  BY PickedUnfolds
<1> HIDE DEF g
<1>4. \A i \in 0..Len(entries) :
         g[i] = IF i = 0 THEN <<>>
                ELSE IF i \in keep THEN Append(g[i - 1], entries[i]) ELSE g[i - 1]
  BY <1>2 DEF PickedSoFar
<1> DEFINE Good(n) == g[n] \in Seq(S) /\ PickedFrom(entries, keep, n, g[n])
           T == {n \in Nat : n <= Len(entries) => Good(n)}
<1>5. 0 \in T
  <2>1. g[0] = <<>>
    BY <1>1, <1>4
  <2>2. PickedFrom(entries, keep, 0, <<>>)
    <3>1. Len(<<>>) <= 0 /\ 1..Len(<<>>) = {} /\ 1..0 = {}
      OBVIOUS
    <3> QED BY <3>1 DEF PickedFrom
  <2>3. <<>> \in Seq(S)
    OBVIOUS
  <2>4. Good(0)
    BY <2>1, <2>2, <2>3
  <2> HIDE DEF Good
  <2> QED BY <2>4
<1>6. ASSUME NEW n \in Nat, n \in T
      PROVE  n + 1 \in T
  <2>1. SUFFICES ASSUME n + 1 <= Len(entries)
                 PROVE  Good(n + 1)
    OBVIOUS
  <2>2. g[n] \in Seq(S) /\ PickedFrom(entries, keep, n, g[n])
    BY <1>1, <1>6, <2>1
  <2>3. entries[n + 1] \in S
    BY <1>1, <2>1
  <2>4. g[n + 1] = IF n + 1 \in keep THEN Append(g[n], entries[n + 1]) ELSE g[n]
    <3>1. n + 1 \in 0..Len(entries) /\ n + 1 # 0 /\ (n + 1) - 1 = n
      BY <1>1, <2>1
    <3> QED BY <1>4, <3>1
  <2> DEFINE list == g[n]
             m == Len(list)
  <2>5. PICK at :
          /\ \A j \in 1..m : at[j] \in 1..n /\ at[j] \in keep /\ list[j] = entries[at[j]]
          /\ \A j, k \in 1..m : j < k => at[j] < at[k]
          /\ \A i \in 1..n : i \in keep => \E j \in 1..m : at[j] = i
    BY <2>2 DEF PickedFrom
  <2>6. m \in Nat /\ m <= n
    BY <2>2 DEF PickedFrom
  <2>7. CASE n + 1 \in keep
    <3> DEFINE more == Append(list, entries[n + 1])
               to == [j \in 1..(m + 1) |-> IF j = m + 1 THEN n + 1 ELSE at[j]]
    <3>1. /\ more \in Seq(S) /\ Len(more) = m + 1 /\ more[m + 1] = entries[n + 1]
          /\ \A j \in 1..m : more[j] = list[j]
      BY <2>2, <2>3
    <3>2. g[n + 1] = more
      BY <2>4, <2>7
    <3> HIDE DEF more, m
    <3>5. to[m + 1] = n + 1 /\ \A j \in 1..m : to[j] = at[j]
      BY <2>6
    <3> HIDE DEF to
    <3>6. \A j \in 1..(m + 1) :
             to[j] \in 1..(n + 1) /\ to[j] \in keep /\ more[j] = entries[to[j]]
      <4>1. \A j \in 1..m : at[j] \in 1..(n + 1)
        BY <2>5
      <4> QED BY <2>5, <2>6, <2>7, <3>1, <3>5, <4>1
    <3>7. ASSUME NEW j \in 1..(m + 1), NEW k \in 1..(m + 1), j < k
          PROVE  to[j] < to[k]
      <4>1. j \in 1..m /\ to[j] = at[j] /\ at[j] \in 1..n
        BY <2>5, <2>6, <3>5, <3>7
      <4>2. CASE k = m + 1
        BY <3>5, <4>1, <4>2
      <4>3. CASE k # m + 1
        <5>1. k \in 1..m /\ to[k] = at[k]
          BY <2>6, <3>5, <4>3
        <5> QED BY <2>5, <3>7, <4>1, <5>1
      <4> QED BY <4>2, <4>3
    <3>8. ASSUME NEW i \in 1..(n + 1), i \in keep
          PROVE  \E j \in 1..(m + 1) : to[j] = i
      <4>1. CASE i = n + 1
        BY <2>6, <3>5, <4>1
      <4>2. CASE i # n + 1
        <5>1. i \in 1..n /\ i \in keep
          BY <3>8, <4>2
        <5>2. PICK j \in 1..m : at[j] = i
          BY <2>5, <5>1
        <5> QED BY <2>6, <3>5, <5>2
      <4> QED BY <4>1, <4>2
    <3>9. PickedFrom(entries, keep, n + 1, more)
      <4>1. Len(more) <= n + 1 /\ m + 1 = Len(more)
        BY <2>6, <3>1
      <4> HIDE DEF list
      <4>2. /\ \A j \in 1..Len(more) :
                  to[j] \in 1..(n + 1) /\ to[j] \in keep /\ more[j] = entries[to[j]]
            /\ \A j, k \in 1..Len(more) : j < k => to[j] < to[k]
            /\ \A i \in 1..(n + 1) : i \in keep => \E j \in 1..Len(more) : to[j] = i
        BY <3>6, <3>7, <3>8, <4>1
      <4> QED BY <4>1, <4>2 DEF PickedFrom
    <3> QED BY <3>1, <3>2, <3>9
  <2>8. CASE n + 1 \notin keep
    <3>1. g[n + 1] = list
      BY <2>4, <2>8
    <3>2. \A j \in 1..m : at[j] \in 1..(n + 1)
      BY <2>5
    <3>3. \A i \in 1..(n + 1) : i \in keep => i \in 1..n
      BY <2>8
    <3>4. m <= n + 1
      BY <2>6
    <3>5. PickedFrom(entries, keep, n + 1, list)
      BY <2>5, <3>2, <3>3, <3>4, Zenon DEF PickedFrom
    <3> QED BY <2>2, <3>1, <3>5
  <2> QED BY <2>7, <2>8
<1> HIDE DEF Good
<1>7. Good(Len(entries))
  <2> HIDE DEF T
  <2>1. Len(entries) \in T
    BY <1>1, <1>5, <1>6, NumberInduction
  <2> QED BY <1>1, <2>1 DEF T
<1> QED BY <1>3, <1>7 DEF Good

\* What the readers rely on: nothing is picked that is not to be kept, and
\* nothing that is, is left out.
LEMMA PickedEntries ==
    ASSUME NEW S, NEW entries \in Seq(S), NEW keep
    PROVE  /\ Picked(entries, keep) \in Seq(S)
           /\ Len(Picked(entries, keep)) \in Nat
           /\ Len(Picked(entries, keep)) <= Len(entries)
           /\ DOMAIN Picked(entries, keep) = 1..Len(Picked(entries, keep))
           /\ \A j \in DOMAIN Picked(entries, keep) : \E i \in DOMAIN entries :
                 i \in keep /\ Picked(entries, keep)[j] = entries[i]
           /\ \A i \in DOMAIN entries : i \in keep =>
                 \E j \in DOMAIN Picked(entries, keep) : Picked(entries, keep)[j] = entries[i]
<1> DEFINE list == Picked(entries, keep)
<1>1. list \in Seq(S) /\ PickedFrom(entries, keep, Len(entries), list)
  BY PickedInOrder
<1> HIDE DEF list
<1>2. DOMAIN list = 1..Len(list) /\ DOMAIN entries = 1..Len(entries) /\ Len(list) \in Nat
  BY <1>1
<1>3. PICK at :
          /\ \A j \in 1..Len(list) :
                at[j] \in 1..Len(entries) /\ at[j] \in keep /\ list[j] = entries[at[j]]
          /\ \A i \in 1..Len(entries) : i \in keep => \E j \in 1..Len(list) : at[j] = i
  BY <1>1, Zenon DEF PickedFrom
<1>4. \A j \in DOMAIN list : \E i \in DOMAIN entries : i \in keep /\ list[j] = entries[i]
  BY <1>2, <1>3
<1>5. \A i \in DOMAIN entries : i \in keep => \E j \in DOMAIN list : list[j] = entries[i]
  BY <1>2, <1>3
<1> QED BY <1>1, <1>2, <1>4, <1>5 DEF PickedFrom, list

LEMMA PickedCovers ==
    ASSUME NEW S, NEW entries, entries \in Seq(S), NEW keep
    PROVE  \A i \in DOMAIN entries : i \in keep =>
              \E j \in DOMAIN Picked(entries, keep) : Picked(entries, keep)[j] = entries[i]
BY PickedEntries

\* What stands in a list once stands once in what is picked of it.
LEMMA PickedOnce ==
    ASSUME NEW S, NEW entries \in Seq(S), NEW keep, IsInjective(entries)
    PROVE  IsInjective(Picked(entries, keep))
<1> DEFINE list == Picked(entries, keep)
<1>1. list \in Seq(S) /\ PickedFrom(entries, keep, Len(entries), list)
  BY PickedInOrder
<1> HIDE DEF list
<1>2. DOMAIN list = 1..Len(list) /\ DOMAIN entries = 1..Len(entries) /\ Len(list) \in Nat
      /\ Len(entries) \in Nat
  BY <1>1
<1>3. PICK at :
          /\ \A j \in 1..Len(list) :
                at[j] \in 1..Len(entries) /\ at[j] \in keep /\ list[j] = entries[at[j]]
          /\ \A j, k \in 1..Len(list) : j < k => at[j] < at[k]
  BY <1>1, Zenon DEF PickedFrom
<1>4. ASSUME NEW j \in DOMAIN list, NEW k \in DOMAIN list, list[j] = list[k]
      PROVE  j = k
  <2>1. at[j] \in DOMAIN entries /\ at[k] \in DOMAIN entries
    BY <1>2, <1>3
  <2>2. at[j] = at[k]
    BY <1>2, <1>3, <1>4, <2>1 DEF IsInjective
  <2>3. at[j] \in Nat /\ ~(j < k) /\ ~(k < j)
    BY <1>2, <1>3, <2>1, <2>2
  <2> QED BY <1>2, <2>3
<1>5. IsInjective(list)
  BY <1>4 DEF IsInjective
<1> QED BY <1>5 DEF list

-----------------------------------------------------------------------------
(* Readings under corrections: what holds of a request at each of its steps *)

Own == {e \in Evidence : Owner[e] = Student}

\* The student's records fit in one portfolio.
FewEnough == IsFiniteSet(Own) /\ Cardinality(Own) <= Limit

LoadShape(load) ==
    load = [step |-> load.step, filters |-> load.filters, rows |-> load.rows,
            read |-> load.read, linked |-> load.linked, missing |-> load.missing,
            unavailable |-> load.unavailable, portfolio |-> load.portfolio,
            answer |-> load.answer, had |-> load.had, began |-> load.began]

\* The references told are those the records have, now and from now on.
ForGood(answer) ==
    answer.outcome = "answered" =>
        \A k \in DOMAIN answer.items :
            /\ answer.items[k].about \in Evidence
            /\ reference[answer.items[k].about] # NoReference
            /\ answer.items[k].reference = reference[answer.items[k].about]

\* The items tell the states the records had together at some moment.
OneMoment(items, had) ==
    \E states \in had : \A k \in DOMAIN items : items[k].state = states[items[k].evidence]

\* What the records' histories said comes from one moment too.
ReadTogether(load) ==
    \E states \in load.had : \A e \in Range(load.rows) : load.read[e].state = states[e]

\* A portfolio an export goes on from.
PortfolioFit(portfolio, had) ==
    /\ portfolio.items \in Seq(Range(portfolio.items))
    /\ \A k \in DOMAIN portfolio.items : portfolio.items[k].evidence \in Evidence
    /\ OneMoment(portfolio.items, had)

ToldStates(v, load) ==
    \E states \in load.had : \A k \in DOMAIN load.answer.items :
        IF v = "portfolio"
        THEN load.answer.items[k].state = states[load.answer.items[k].evidence]
        ELSE load.answer.items[k].status
               = VerificationStatus(states[load.answer.items[k].about])

AnswerFit(v, load) ==
    load.answer.outcome = "answered" =>
        /\ ToldStates(v, load)
        /\ v \in Panels => ForGood(load.answer)
        /\ v = "portfolio" /\ load.filters = NoFilters /\ FewEnough =>
              load.began \subseteq Presented(load.answer)

LoadBase(load) ==
    /\ LoadShape(load)
    /\ load.rows \in Seq(Own) /\ IsInjective(load.rows)
    /\ StatesNow \in load.had

LoadFit(v, load) ==
    /\ LoadBase(load)
    /\ load.step = "records" =>
          load.rows = <<>> /\ load.began \subseteq Range(recorded) \cap Own
    /\ load.step \in {"histories", "links", "context"} => load.began \subseteq Range(load.rows)
    /\ load.step \in {"links", "context"} => ReadTogether(load)
    /\ load.step \in {"references", "mint", "readBack"} =>
          v \in Panels /\ PortfolioFit(load.portfolio, load.had)
    /\ load.step = "answered" => AnswerFit(v, load)

\* Whoever reloads a view aborts what it had under way: there is one request,
\* or none.
ViewFit(v, w) ==
    /\ w = [loads |-> w.loads, aborted |-> w.aborted, loading |-> w.loading,
            failed |-> w.failed, shown |-> w.shown]
    /\ w.loads = <<>> \/ \E load : w.loads = <<load>> /\ LoadFit(v, load)
    /\ v \in Panels /\ w.shown # Nothing => ForGood(w.shown)

ReadInv ==
    /\ recorded \in Seq(Evidence) /\ IsInjective(recorded)
    /\ reference = [e \in Evidence |-> reference[e]]
    /\ view = [v \in ReadViews |-> view[v]]
    /\ \A v \in ReadViews : ViewFit(v, view[v])

\* A view has no request but the first.
LEMMA TheRequest ==
    ASSUME ReadInv, NEW v \in ReadViews, NEW i \in DOMAIN view[v].loads
    PROVE  /\ i = 1 /\ view[v].loads = <<view[v].loads[i]>>
           /\ LoadFit(v, view[v].loads[i])
<1>1. PICK load : view[v].loads = <<load>> /\ LoadFit(v, load)
  BY DEF ReadInv, ViewFit
<1>2. i = 1 /\ view[v].loads[i] = load
  BY <1>1
<1> QED BY <1>1, <1>2

LEMMA OnlyOneRemoved == ASSUME NEW x PROVE RemoveAt(<<x>>, 1) = <<>>
BY DEF RemoveAt

\* What holds of a request and of an answer is not touched by what goes on in
\* the views.
LEMMA WorldStands ==
    ASSUME UNCHANGED <<vars, tables>>, NEW v, NEW w, ViewFit(v, w)
    PROVE  ViewFit(v, w)'
BY DEF vars, tables, ViewFit, LoadFit, LoadBase, StatesNow, AnswerFit, ForGood

\* One view changes and nothing else does.
LEMMA OneViewChanges ==
    ASSUME ReadInv, NEW v \in ReadViews, NEW new, UNCHANGED <<vars, tables>>,
           view' = [view EXCEPT ![v] = new], ViewFit(v, new)
    PROVE  ReadInv'
<1>1. \A u \in ReadViews : view'[u] = IF u = v THEN new ELSE view[u]
  BY DEF ReadInv
<1>2. view' = [u \in ReadViews |-> view'[u]]
  BY DEF ReadInv
<1>3. ASSUME NEW u \in ReadViews
      PROVE  ViewFit(u, view[u])' 
  <2>1. PICK w : w = view'[u]
    OBVIOUS
  <2>2. ViewFit(u, w)
    BY <1>1, <2>1 DEF ReadInv
  <2>3. ViewFit(u, w)'
    BY <2>2, WorldStands
  <2> QED BY <2>1, <2>3 DEF ViewFit
<1>4. recorded' = recorded /\ reference' = reference
  BY DEF tables
<1> QED BY <1>2, <1>3, <1>4 DEF ReadInv

\* A request goes on.
LEMMA LoadGoes ==
    ASSUME ReadInv, NEW v \in ReadViews, NEW i \in DOMAIN view[v].loads, NEW load,
           Goes(v, i, load), LoadFit(v, load)
    PROVE  ReadInv'
<1>1. i = 1 /\ view[v].loads = <<view[v].loads[i]>>
  BY TheRequest
<1>2. ViewFit(v, view[v])
  BY DEF ReadInv
<1> DEFINE next == [view[v] EXCEPT !.loads[i] = load]
<1>3. PICK new : new = next
  OBVIOUS
<1>4. [view[v].loads EXCEPT ![i] = load] = <<load>>
  BY <1>1
<1>5. new = [loads |-> <<load>>, aborted |-> view[v].aborted, loading |-> view[v].loading,
             failed |-> view[v].failed, shown |-> view[v].shown]
  BY <1>2, <1>3, <1>4 DEF ViewFit
<1>6. ViewFit(v, new)
  BY <1>2, <1>5 DEF ViewFit
<1>7. UNCHANGED <<vars, tables>> /\ view' = [view EXCEPT ![v] = new]
  BY <1>3 DEF Goes, ViewBecomes
<1> QED BY <1>6, <1>7, OneViewChanges

-----------------------------------------------------------------------------
(* Portfolios and exports *)

\* The student's records fit in one portfolio however they are listed.
LEMMA ListFits ==
    ASSUME NEW rows \in Seq(Own), IsInjective(rows), FewEnough
    PROVE  Len(rows) <= Limit
<1>1. Len(rows) \in Nat /\ rows \in [1..Len(rows) -> Own]
  OBVIOUS
<1>2. rows \in Injection(1..Len(rows), Own)
  BY <1>1 DEF Injection
<1>3. Cardinality(1..Len(rows)) <= Cardinality(Own)
  BY <1>2, FS_Injection DEF FewEnough
<1>4. Cardinality(1..Len(rows)) = Len(rows)
  BY <1>1, FS_Interval
<1>5. IsFiniteSet(Own) => Cardinality(Own) \in Nat
  BY FS_CardinalityType
<1> QED BY <1>1, <1>3, <1>4, <1>5, EvidenceReadingAssumption DEF FewEnough

\* Items are made for all rows, with the states read.
LEMMA ItemsFacts ==
    ASSUME NEW load, load.rows \in Seq(Own)
    PROVE  /\ Items(load) \in Seq(Range(Items(load)))
           /\ Len(Items(load)) = Len(load.rows) /\ DOMAIN Items(load) = DOMAIN load.rows
           /\ \A k \in DOMAIN load.rows : /\ Items(load)[k].evidence = load.rows[k]
                                          /\ Items(load)[k].evidence \in Evidence
                                          /\ Items(load)[k].state = load.read[load.rows[k]].state
<1> DEFINE items == Items(load)
<1>1. Len(load.rows) \in Nat /\ DOMAIN load.rows = 1..Len(load.rows)
      /\ \A k \in DOMAIN load.rows : load.rows[k] \in Evidence
  BY DEF Own
<1>2. DOMAIN items = DOMAIN load.rows /\ items = [k \in DOMAIN load.rows |-> items[k]]
  BY DEF Items
<1>3. \A k \in DOMAIN load.rows : /\ items[k].evidence = load.rows[k]
                                  /\ items[k].state = load.read[load.rows[k]].state
  BY DEF Items, Item
<1> HIDE DEF items
<1>4. items \in Seq(Range(items)) /\ Len(items) = Len(load.rows)
  BY <1>1, <1>2 DEF Range
<1> QED BY <1>1, <1>2, <1>3, <1>4 DEF items

\* The first entries of a list.
LEMMA FirstEntries ==
    ASSUME NEW S, NEW list \in Seq(S), NEW n \in Nat, n <= Len(list)
    PROVE  /\ SubSeq(list, 1, n) \in Seq(S)
           /\ DOMAIN SubSeq(list, 1, n) = 1..n
           /\ \A k \in 1..n : SubSeq(list, 1, n)[k] = list[k]
OBVIOUS

\* Without filters every item is let through.
LEMMA NothingFiltered == ASSUME NEW item PROVE LetThrough(item, NoFilters)
BY DEF LetThrough, NoFilters

\* A portfolio shows items there are, and all of them when nothing is filtered
\* and the limit does not cut.
LEMMA PortfolioShows ==
    ASSUME NEW items, items \in Seq(Range(items)), NEW f, NEW unavailable,
           NEW answer, answer = Portfolio(items, f, unavailable)
    PROVE  /\ answer.items \in Seq(Range(items))
           /\ answer.items \in Seq(Range(answer.items))
           /\ \A k \in DOMAIN answer.items : \E i \in DOMAIN items : answer.items[k] = items[i]
           /\ f = NoFilters /\ Len(items) <= Limit =>
                 \A i \in DOMAIN items : \E k \in DOMAIN answer.items : answer.items[k] = items[i]
<1> DEFINE keep == {i \in DOMAIN items : LetThrough(items[i], f)}
           filtered == Picked(items, keep)
           n == IF Len(filtered) > Limit THEN Limit ELSE Len(filtered)
           shown == SubSeq(filtered, 1, n)
<1>1. /\ filtered \in Seq(Range(items)) /\ Len(filtered) \in Nat
      /\ Len(filtered) <= Len(items)
      /\ DOMAIN filtered = 1..Len(filtered)
      /\ \A j \in DOMAIN filtered : \E i \in DOMAIN items : i \in keep /\ filtered[j] = items[i]
      /\ \A i \in DOMAIN items : i \in keep => \E j \in DOMAIN filtered : filtered[j] = items[i]
  <2> HIDE DEF keep
  <2>1. items \in Seq(Range(items))
    OBVIOUS
  <2> QED BY <2>1, PickedEntries, PickedCovers
<1>2. f = NoFilters => \A i \in DOMAIN items : i \in keep
  BY NothingFiltered
<1>3. answer.items = shown
  BY DEF Portfolio
<1> HIDE DEF filtered, keep
<1>4. Limit \in Nat /\ Len(items) \in Nat
  BY EvidenceReadingAssumption
<1>5. n \in Nat /\ n <= Len(filtered)
  BY <1>1, <1>4
<1>6. Len(items) <= Limit => n = Len(filtered)
  <2>1. Len(filtered) \in Nat /\ Len(filtered) <= Len(items)
    BY <1>1
  <2>2. Len(items) <= Limit => ~(Len(filtered) > Limit)
    BY <1>4, <2>1
  <2> QED BY <2>2
<1> HIDE DEF n
<1>7. shown \in Seq(Range(items)) /\ DOMAIN shown = 1..n /\ \A k \in 1..n : shown[k] = filtered[k]
  BY <1>1, <1>5, FirstEntries
<1> HIDE DEF shown
<1>8. 1..n \subseteq DOMAIN filtered
  BY <1>1, <1>5
<1>9. \A k \in DOMAIN shown : \E i \in DOMAIN items : shown[k] = items[i]
  BY <1>1, <1>7, <1>8
<1>10. f = NoFilters /\ Len(items) <= Limit =>
          \A i \in DOMAIN items : \E k \in DOMAIN shown : shown[k] = items[i]
  BY <1>1, <1>2, <1>6, <1>7
<1>11. shown \in Seq(Range(shown))
  BY <1>5, <1>7 DEF Range
<1> QED BY <1>3, <1>7, <1>9, <1>10, <1>11

\* What a portfolio shows is presented in a group or beside them.
LEMMA ShownIsPresented ==
    ASSUME NEW items, items \in Seq(Range(items)), NEW f, NEW unavailable,
           NEW k \in DOMAIN Portfolio(items, f, unavailable).items
    PROVE  Portfolio(items, f, unavailable).items[k].evidence
             \in Presented(Portfolio(items, f, unavailable))
<1> DEFINE answer == Portfolio(items, f, unavailable)
           shown == answer.items
           S == Range(items)
<1>1. /\ answer.groups = Groups(shown) /\ answer.ungrouped = UngroupedItems(shown)
  BY DEF Portfolio
<1>2. shown \in Seq(S) /\ k \in DOMAIN shown
  BY PortfolioShows
<1> HIDE DEF answer, S
<1>3. CASE DOMAIN shown[k].competencies = {}
  <2> DEFINE keep == {i \in DOMAIN shown : DOMAIN shown[i].competencies = {}}
  <2>1. k \in keep
    BY <1>2, <1>3
  <2> HIDE DEF keep, shown
  <2>2. PICK j \in DOMAIN Picked(shown, keep) : Picked(shown, keep)[j] = shown[k]
    <3>1. \A i \in DOMAIN shown : i \in keep =>
             \E j \in DOMAIN Picked(shown, keep) : Picked(shown, keep)[j] = shown[i]
      BY <1>2, PickedCovers
    <3> QED BY <1>2, <2>1, <3>1
  <2>3. answer.ungrouped = Picked(shown, keep)
    BY <1>1 DEF UngroupedItems, keep
  <2>4. shown[k].evidence \in {answer.ungrouped[m].evidence : m \in DOMAIN answer.ungrouped}
    BY <2>2, <2>3
  <2> QED BY <2>4 DEF Presented, answer, shown
<1>4. CASE DOMAIN shown[k].competencies # {}
  <2>1. PICK c : c \in DOMAIN shown[k].competencies
    BY <1>4
  <2> DEFINE keep == {i \in DOMAIN shown : c \in DOMAIN shown[i].competencies}
  <2>2. k \in keep
    BY <1>2, <2>1
  <2> HIDE DEF keep, shown
  <2>3. PICK j \in DOMAIN Picked(shown, keep) : Picked(shown, keep)[j] = shown[k]
    <3>1. \A i \in DOMAIN shown : i \in keep =>
             \E j \in DOMAIN Picked(shown, keep) : Picked(shown, keep)[j] = shown[i]
      BY <1>2, PickedCovers
    <3> QED BY <1>2, <2>2, <3>1
  <2>4. c \in DOMAIN Groups(shown) /\ Groups(shown)[c].items = Picked(shown, keep)
    <3>1. c \in UNION {DOMAIN shown[i].competencies : i \in DOMAIN shown}
      BY <1>2, <2>1
    <3> QED BY <3>1 DEF Groups, keep
  <2>5. shown[k].evidence \in {answer.groups[c].items[m].evidence : m \in DOMAIN answer.groups[c].items}
    BY <1>1, <2>3, <2>4
  <2>6. c \in DOMAIN answer.groups
    BY <1>1, <2>4
  <2>7. shown[k].evidence \in
          UNION {{answer.groups[d].items[m].evidence : m \in DOMAIN answer.groups[d].items} :
                    d \in DOMAIN answer.groups}
    BY <2>5, <2>6
  <2> QED BY <2>7 DEF Presented, answer, shown
<1> QED BY <1>3, <1>4 DEF answer

\* What an export says of its items, when each reference it was given is the
\* record's.
LEMMA ExportSays ==
    ASSUME NEW portfolio, NEW references, NEW unavailable, NEW had,
           PortfolioFit(portfolio, had),
           \A e \in DOMAIN references : /\ e \in Evidence /\ reference[e] # NoReference
                                        /\ references[e] = reference[e]
    PROVE  LET answer == Export(portfolio, references, unavailable)
           IN  /\ answer.outcome = "answered"
               /\ ForGood(answer)
               /\ \E states \in had : \A k \in DOMAIN answer.items :
                     answer.items[k].status = VerificationStatus(states[answer.items[k].about])
<1> DEFINE all == portfolio.items
           keep == {i \in DOMAIN all : all[i].evidence \in DOMAIN references}
           named == Picked(all, keep)
           answer == Export(portfolio, references, unavailable)
<1>1. /\ DOMAIN named = 1..Len(named)
      /\ \A j \in DOMAIN named : \E i \in DOMAIN all : i \in keep /\ named[j] = all[i]
  <2> HIDE DEF keep
  <2> QED BY PickedEntries DEF PortfolioFit
<1>2. \A j \in DOMAIN named : /\ named[j].evidence \in DOMAIN references
                              /\ \E i \in DOMAIN all : named[j] = all[i]
  <2> HIDE DEF named
  <2> QED BY <1>1
<1>3. /\ answer.outcome = "answered"
      /\ answer.items = [j \in DOMAIN named |-> ExportedItem(named[j], references[named[j].evidence])]
  BY DEF Export
<1> HIDE DEF named, keep, answer
<1>4. \A j \in DOMAIN answer.items :
         /\ j \in DOMAIN named
         /\ answer.items[j].about = named[j].evidence
         /\ answer.items[j].reference = references[named[j].evidence]
         /\ answer.items[j].status = VerificationStatus(named[j].state)
  BY <1>3 DEF ExportedItem
<1>5. ForGood(answer)
  BY <1>2, <1>4 DEF ForGood
<1>6. PICK states \in had : \A k \in DOMAIN all : all[k].state = states[all[k].evidence]
  BY DEF PortfolioFit, OneMoment
<1>7. \A k \in DOMAIN answer.items :
         answer.items[k].status = VerificationStatus(states[answer.items[k].about])
  BY <1>2, <1>4, <1>6
<1> QED BY <1>3, <1>5, <1>7 DEF answer

-----------------------------------------------------------------------------
(* Every step of a reading *)

\* A request about to be completed.
LoadReady(load) ==
    /\ LoadBase(load)
    /\ load.began \subseteq Range(load.rows)
    /\ ReadTogether(load)

\* The portfolio of such a request.
LEMMA PortfolioOfReady ==
    ASSUME NEW load, LoadReady(load)
    PROVE  LET portfolio == Portfolio(Items(load), load.filters, load.unavailable)
           IN  /\ portfolio.outcome = "answered"
               /\ PortfolioFit(portfolio, load.had)
               /\ load.filters = NoFilters /\ FewEnough => load.began \subseteq Presented(portfolio)
<1>0. PICK f, u : f = load.filters /\ u = load.unavailable
  OBVIOUS
<1> DEFINE items == Items(load)
           portfolio == Portfolio(items, f, u)
           shown == portfolio.items
<1>1. load.rows \in Seq(Own) /\ IsInjective(load.rows) /\ load.began \subseteq Range(load.rows)
  BY DEF LoadReady, LoadBase
<1>2. /\ items \in Seq(Range(items)) /\ Len(items) = Len(load.rows)
      /\ DOMAIN items = DOMAIN load.rows
      /\ \A k \in DOMAIN load.rows : /\ items[k].evidence = load.rows[k]
                                     /\ items[k].evidence \in Evidence
                                     /\ items[k].state = load.read[load.rows[k]].state
  BY <1>1, ItemsFacts
<1>3. PICK states \in load.had : \A e \in Range(load.rows) : load.read[e].state = states[e]
  BY DEF LoadReady, ReadTogether
<1> HIDE DEF items
<1>4. /\ shown \in Seq(Range(items)) /\ shown \in Seq(Range(shown))
      /\ \A k \in DOMAIN shown : \E i \in DOMAIN items : shown[k] = items[i]
      /\ f = NoFilters /\ Len(items) <= Limit =>
            \A i \in DOMAIN items : \E k \in DOMAIN shown : shown[k] = items[i]
  BY <1>2, PortfolioShows
<1>5. portfolio.outcome = "answered"
  BY DEF Portfolio
<1>6. \A k \in DOMAIN shown : shown[k].evidence \in Presented(portfolio)
  BY <1>2, ShownIsPresented
<1> HIDE DEF portfolio
<1>7. \A k \in DOMAIN shown : shown[k].evidence \in Evidence
  BY <1>2, <1>4
<1>8. \A k \in DOMAIN shown : shown[k].state = states[shown[k].evidence]
  <2>1. \A i \in DOMAIN items : items[i].state = states[items[i].evidence]
    BY <1>2, <1>3 DEF Range
  <2> QED BY <1>4, <2>1
<1>9. PortfolioFit(portfolio, load.had)
  BY <1>4, <1>7, <1>8 DEF PortfolioFit, OneMoment
<1>10. ASSUME f = NoFilters, FewEnough, NEW e \in load.began
       PROVE  e \in Presented(portfolio)
  <2>1. PICK i \in DOMAIN load.rows : load.rows[i] = e
    BY <1>1 DEF Range
  <2>2. Len(items) <= Limit
    BY <1>1, <1>2, <1>10, ListFits
  <2>3. PICK k \in DOMAIN shown : shown[k] = items[i]
    BY <1>2, <1>4, <1>10, <2>1, <2>2
  <2> QED BY <1>2, <1>6, <2>1, <2>3
<1>11. f = NoFilters /\ FewEnough => load.began \subseteq Presented(portfolio)
  BY <1>10
<1>12. portfolio = Portfolio(Items(load), load.filters, load.unavailable)
  BY <1>0 DEF portfolio, items
<1> QED BY <1>0, <1>5, <1>9, <1>11, <1>12

\* The parts of a request that is answered.
WithAnswer(load, answer) == [load EXCEPT !.step = "answered", !.answer = answer]

LEMMA AnswerGiven ==
    ASSUME NEW load, LoadShape(load), NEW answer, NEW next, next = WithAnswer(load, answer)
    PROVE  /\ LoadShape(next) /\ next.step = "answered" /\ next.filters = load.filters
           /\ next.rows = load.rows /\ next.answer = answer
           /\ next.had = load.had /\ next.began = load.began
<1>1. /\ DOMAIN load = {"step", "filters", "rows", "read", "linked", "missing", "unavailable",
                        "portfolio", "answer", "had", "began"}
      /\ load = [x \in DOMAIN load |-> load[x]]
  BY DEF LoadShape
<1> USE DEF WithAnswer
<1>2. DOMAIN next = DOMAIN load /\ next = [x \in DOMAIN load |-> next[x]]
  BY <1>1
<1>3. next.step = "answered" /\ next.answer = answer
  BY <1>1
<1>4. /\ next.filters = load.filters /\ next.rows = load.rows
      /\ next.had = load.had /\ next.began = load.began
  BY <1>1
<1>5. LoadShape(next)
  BY <1>1, <1>2 DEF LoadShape
<1> QED BY <1>3, <1>4, <1>5

\* An answer is given.
LEMMA GivesAnswer ==
    ASSUME ReadInv, NEW v \in ReadViews, NEW i \in DOMAIN view[v].loads, NEW load,
           LoadBase(load), NEW answer,
           Goes(v, i, WithAnswer(load, answer)),
           AnswerFit(v, WithAnswer(load, answer))
    PROVE  ReadInv'
<1>1. PICK next : next = WithAnswer(load, answer)
  OBVIOUS
<1>2. /\ LoadShape(next) /\ next.step = "answered"
      /\ next.rows = load.rows /\ next.answer = answer
      /\ next.had = load.had /\ next.began = load.began
  <2>1. LoadShape(load)
    BY DEF LoadBase
  <2> QED BY <1>1, <2>1, AnswerGiven
<1>3. AnswerFit(v, next)
  BY <1>1
<1>4. LoadFit(v, next)
  BY <1>2, <1>3 DEF LoadFit, LoadBase
<1>5. Goes(v, i, next)
  BY <1>1
<1> QED BY <1>4, <1>5, LoadGoes

\* An export's answer, with references that are the records'.
LEMMA GivesExport ==
    ASSUME ReadInv, NEW v \in Panels, NEW i \in DOMAIN view[v].loads, NEW load,
           LoadBase(load), NEW portfolio, PortfolioFit(portfolio, load.had),
           NEW references, NEW unavailable,
           \A e \in DOMAIN references : /\ e \in Evidence /\ reference[e] # NoReference
                                        /\ references[e] = reference[e],
           Goes(v, i, WithAnswer(load, Export(portfolio, references, unavailable)))
    PROVE  ReadInv'
<1>1. PICK answer : answer = Export(portfolio, references, unavailable)
  OBVIOUS
<1>2. /\ answer.outcome = "answered" /\ ForGood(answer)
      /\ \E states \in load.had : \A k \in DOMAIN answer.items :
            answer.items[k].status = VerificationStatus(states[answer.items[k].about])
  BY <1>1, ExportSays
<1>3. PICK next : next = WithAnswer(load, answer)
  OBVIOUS
<1>4. next.answer = answer /\ next.had = load.had
  <2>1. LoadShape(load)
    BY DEF LoadBase
  <2> QED BY <1>3, <2>1, AnswerGiven
<1>5. v # "portfolio" /\ v \in ReadViews
  BY EvidenceReadingAssumption DEF ReadViews
<1>6. AnswerFit(v, next)
  BY <1>2, <1>4, <1>5 DEF AnswerFit, ToldStates
<1> QED BY <1>1, <1>3, <1>5, <1>6, GivesAnswer

\* The portfolio is complete.
LEMMA CompletesWell ==
    ASSUME ReadInv, NEW v \in ReadViews, NEW i \in DOMAIN view[v].loads, NEW load,
           LoadReady(load), Complete(v, i, load)
    PROVE  ReadInv'
<1> DEFINE portfolio == Portfolio(Items(load), load.filters, load.unavailable)
<1>1. PICK p : p = portfolio
  OBVIOUS
<1>2. /\ p.outcome = "answered" /\ PortfolioFit(p, load.had)
      /\ load.filters = NoFilters /\ FewEnough => load.began \subseteq Presented(p)
  BY <1>1, PortfolioOfReady
<1>3. LoadBase(load)
  BY DEF LoadReady
<1>4. Goes(v, i,
          IF v = "portfolio" THEN WithAnswer(load, p)
          ELSE IF p.items = <<>>
          THEN WithAnswer(load, Export(p, <<>>, load.unavailable))
          ELSE [load EXCEPT !.step = "references", !.portfolio = p])
  BY <1>1 DEF Complete, WithAnswer
<1> HIDE DEF portfolio
<1>5. CASE v = "portfolio"
  <2>1. Goes(v, i, WithAnswer(load, p))
    BY <1>4, <1>5
  <2>2. PICK next : next = WithAnswer(load, p)
    OBVIOUS
  <2>3. /\ next.answer = p /\ next.had = load.had /\ next.began = load.began
        /\ next.filters = load.filters
    <3>1. LoadShape(load)
      BY <1>3 DEF LoadBase
    <3> QED BY <2>2, <3>1, AnswerGiven
  <2>4. v \notin Panels
    BY <1>5, EvidenceReadingAssumption
  <2>5. ToldStates(v, next)
    BY <1>2, <1>5, <2>3 DEF ToldStates, PortfolioFit, OneMoment
  <2>6. AnswerFit(v, next)
    BY <1>2, <2>3, <2>4, <2>5 DEF AnswerFit
  <2> QED BY <1>3, <2>1, <2>2, <2>6, GivesAnswer
<1>6. CASE v # "portfolio" /\ p.items = <<>>
  <2>1. Goes(v, i, WithAnswer(load, Export(p, <<>>, load.unavailable)))
    BY <1>4, <1>6
  <2>2. v \in Panels /\ DOMAIN <<>> = {}
    BY <1>6 DEF ReadViews
  <2> QED BY <1>2, <1>3, <2>1, <2>2, GivesExport
<1>7. CASE v # "portfolio" /\ p.items # <<>>
  <2>1. PICK next : next = [load EXCEPT !.step = "references", !.portfolio = p]
    OBVIOUS
  <2>2. /\ LoadShape(next) /\ next.step = "references" /\ next.portfolio = p
        /\ next.rows = load.rows /\ next.had = load.had
    BY <1>3, <2>1 DEF LoadBase, LoadShape
  <2>3. v \in Panels
    BY <1>7 DEF ReadViews
  <2>4. LoadFit(v, next)
    BY <1>2, <1>3, <2>2, <2>3 DEF LoadFit, LoadBase
  <2>5. Goes(v, i, next)
    BY <1>4, <1>7, <2>1
  <2> QED BY <2>4, <2>5, LoadGoes
<1> QED BY <1>5, <1>6, <1>7

\* What is reversed is the same entries, each once if it was there once.
LEMMA ReversedFacts ==
    ASSUME NEW S, NEW list \in Seq(S)
    PROVE  /\ Reverse(list) \in Seq(S) /\ Range(Reverse(list)) = Range(list)
           /\ IsInjective(list) => IsInjective(Reverse(list))
<1> DEFINE back == Reverse(list)
<1>1. Len(list) \in Nat /\ DOMAIN list = 1..Len(list) /\ \A k \in 1..Len(list) : list[k] \in S
  OBVIOUS
<1>2. back \in Seq(S) /\ DOMAIN back = 1..Len(list)
  BY <1>1 DEF Reverse
<1>3. \A k \in 1..Len(list) : back[k] = list[(Len(list) - k) + 1]
  BY DEF Reverse
<1> HIDE DEF back
<1>4. \A k \in 1..Len(list) : (Len(list) - k) + 1 \in 1..Len(list)
  BY <1>1
<1>5. \A k \in 1..Len(list) : list[k] = back[(Len(list) - k) + 1]
  BY <1>1, <1>3, <1>4
<1>6. Range(back) = Range(list)
  BY <1>1, <1>2, <1>3, <1>4, <1>5 DEF Range
<1>7. ASSUME IsInjective(list), NEW j \in DOMAIN back, NEW k \in DOMAIN back, back[j] = back[k]
      PROVE  j = k
  <2>1. (Len(list) - j) + 1 = (Len(list) - k) + 1
    BY <1>1, <1>2, <1>3, <1>4, <1>7 DEF IsInjective
  <2> QED BY <1>1, <1>2, <2>1
<1>8. IsInjective(list) => IsInjective(back)
  BY <1>7 DEF IsInjective
<1> QED BY <1>2, <1>6, <1>8 DEF back

\* The student's records, listed.
LEMMA OwnListed ==
    ASSUME recorded \in Seq(Evidence), IsInjective(recorded),
           NEW own, own = Reverse(Picked(recorded,
                              {k \in DOMAIN recorded : Owner[recorded[k]] = Student}))
    PROVE  /\ own \in Seq(Own) /\ IsInjective(own)
           /\ Range(recorded) \cap Own \subseteq Range(own)
<1> DEFINE keep == {k \in DOMAIN recorded : Owner[recorded[k]] = Student}
           list == Picked(recorded, keep)
<1>1. /\ list \in Seq(Evidence) /\ IsInjective(list)
      /\ \A j \in DOMAIN list : \E i \in DOMAIN recorded : i \in keep /\ list[j] = recorded[i]
      /\ \A i \in DOMAIN recorded : i \in keep => \E j \in DOMAIN list : list[j] = recorded[i]
  <2> HIDE DEF keep
  <2> QED BY PickedEntries, PickedOnce
<1>2. \A i \in DOMAIN recorded : i \in keep <=> recorded[i] \in Own
  BY DEF Own
<1> HIDE DEF keep, list
<1>3. \A j \in DOMAIN list : list[j] \in Own
  BY <1>1, <1>2
<1>4. list \in Seq(Own)
  BY <1>1, <1>3
<1>5. Range(recorded) \cap Own \subseteq Range(list)
  BY <1>1, <1>2 DEF Range
<1>6. own \in Seq(Own) /\ Range(own) = Range(list) /\ IsInjective(own)
  BY <1>1, <1>4, ReversedFacts DEF keep, list
<1> QED BY <1>5, <1>6

\* A request after its next query, which brought it something.
WithStep(load, step, part, value) == [load EXCEPT !.step = step, ![part] = value]

LEMMA StepTaken ==
    ASSUME NEW load, LoadShape(load), NEW step, NEW value,
           NEW part \in {"rows", "read", "linked", "missing", "portfolio"},
           NEW next, next = WithStep(load, step, part, value)
    PROVE  /\ LoadShape(next) /\ next.step = step /\ next[part] = value
           /\ next.had = load.had /\ next.began = load.began
           /\ part # "rows" => next.rows = load.rows
           /\ part # "read" => next.read = load.read
           /\ part # "portfolio" => next.portfolio = load.portfolio
<1>1. /\ DOMAIN load = {"step", "filters", "rows", "read", "linked", "missing", "unavailable",
                        "portfolio", "answer", "had", "began"}
      /\ load = [x \in DOMAIN load |-> load[x]]
  BY DEF LoadShape
<1> USE DEF WithStep
<1>2. DOMAIN next = DOMAIN load /\ next = [x \in DOMAIN load |-> next[x]]
  BY <1>1
<1>3. next.step = step /\ next[part] = value
  BY <1>1
<1>4. /\ next.had = load.had /\ next.began = load.began
      /\ part # "rows" => next.rows = load.rows
      /\ part # "read" => next.read = load.read
      /\ part # "portfolio" => next.portfolio = load.portfolio
  BY <1>1
<1>5. LoadShape(next)
  BY <1>1, <1>2 DEF LoadShape
<1> QED BY <1>3, <1>4, <1>5

\* A supplementary query that failed, on record.
LEMMA NotedUnavailable ==
    ASSUME NEW load, LoadReady(load), NEW unavailable, NEW next,
           next = [load EXCEPT !.unavailable = unavailable]
    PROVE  LoadReady(next)
<1>1. LoadShape(load)
  BY DEF LoadReady, LoadBase
<1>2. /\ DOMAIN load = {"step", "filters", "rows", "read", "linked", "missing", "unavailable",
                        "portfolio", "answer", "had", "began"}
      /\ load = [x \in DOMAIN load |-> load[x]]
  BY <1>1 DEF LoadShape
<1>3. DOMAIN next = DOMAIN load /\ next = [x \in DOMAIN load |-> next[x]]
  BY <1>2
<1>4. /\ next.rows = load.rows /\ next.read = load.read /\ next.had = load.had
      /\ next.began = load.began
  BY <1>2
<1>5. LoadShape(next)
  BY <1>2, <1>3 DEF LoadShape
<1> QED BY <1>4, <1>5 DEF LoadReady, LoadBase, ReadTogether

\* The records are listed.
LEMMA ReadRecordsKeeps ==
    ASSUME ReadInv, NEW v \in ReadViews, NEW i \in DOMAIN view[v].loads, ReadRecords(v, i)
    PROVE  ReadInv'
<1>1. PICK load : load = view[v].loads[i]
  OBVIOUS
<1>2. PICK own : own = Reverse(Picked(recorded,
                           {k \in DOMAIN recorded : Owner[recorded[k]] = Student}))
  OBVIOUS
<1>3. /\ load.step = "records"
      /\ \/ own = <<>> /\ Complete(v, i, load)
         \/ own # <<>> /\ Goes(v, i, WithStep(load, "histories", "rows", own))
  BY <1>1, <1>2 DEF ReadRecords, WithStep
<1>4. /\ LoadBase(load) /\ load.rows = <<>>
      /\ load.began \subseteq Range(recorded) \cap Own
  BY <1>1, <1>3, TheRequest DEF LoadFit
<1>5. /\ own \in Seq(Own) /\ IsInjective(own)
      /\ Range(recorded) \cap Own \subseteq Range(own)
  BY <1>2, OwnListed DEF ReadInv
<1>6. CASE own = <<>> /\ Complete(v, i, load)
  <2>1. Range(<<>>) = {}
    BY DEF Range
  <2>2. LoadReady(load)
    BY <1>4, <1>5, <1>6, <2>1 DEF LoadReady, LoadBase, ReadTogether
  <2> QED BY <1>6, <2>2, CompletesWell
<1>7. CASE Goes(v, i, WithStep(load, "histories", "rows", own))
  <2>1. PICK next : next = WithStep(load, "histories", "rows", own)
    OBVIOUS
  <2>2. LoadShape(load)
    BY <1>4 DEF LoadBase
  <2>3. /\ LoadShape(next) /\ next.step = "histories" /\ next.rows = own
        /\ next.had = load.had /\ next.began = load.began
    BY <2>1, <2>2, StepTaken
  <2>4. LoadFit(v, next)
    BY <1>4, <1>5, <2>3 DEF LoadFit, LoadBase
  <2> QED BY <1>7, <2>1, <2>4, LoadGoes
<1> QED BY <1>3, <1>6, <1>7

\* All histories are read in one query, so at one moment.
LEMMA ReadHistoriesKeeps ==
    ASSUME ReadInv, NEW v \in ReadViews, NEW i \in DOMAIN view[v].loads, ReadHistories(v, i)
    PROVE  ReadInv'
<1>1. PICK load : load = view[v].loads[i]
  OBVIOUS
<1>2. PICK read : read = [e \in Range(load.rows) |-> StateRead(log[e])]
  OBVIOUS
<1>3. load.step = "histories" /\ Goes(v, i, WithStep(load, "links", "read", read))
  BY <1>1, <1>2 DEF ReadHistories, WithStep
<1>4. LoadBase(load) /\ load.began \subseteq Range(load.rows)
  BY <1>1, <1>3, TheRequest DEF LoadFit
<1>5. PICK next : next = WithStep(load, "links", "read", read)
  OBVIOUS
<1>6. /\ LoadShape(next) /\ next.step = "links" /\ next.rows = load.rows
      /\ next.read = read /\ next.had = load.had /\ next.began = load.began
  <2>1. LoadShape(load)
    BY <1>4 DEF LoadBase
  <2> QED BY <1>5, <2>1, StepTaken
<1>7. \A e \in Range(load.rows) : e \in Evidence
  BY <1>4 DEF LoadBase, Own, Range
<1>8. \A e \in Range(load.rows) : read[e].state = StatesNow[e]
  BY <1>2, <1>7 DEF StateRead, StatesNow
<1>9. StatesNow \in load.had
  BY <1>4 DEF LoadBase
<1>10. ReadTogether(next)
  BY <1>6, <1>8, <1>9 DEF ReadTogether
<1>11. LoadFit(v, next)
  BY <1>4, <1>6, <1>10 DEF LoadFit, LoadBase
<1> QED BY <1>3, <1>5, <1>11, LoadGoes

\* Links and context: read or not, the portfolio is complete in the end.
LEMMA SupplementKeeps ==
    ASSUME ReadInv, NEW v \in ReadViews, NEW i \in DOMAIN view[v].loads,
           ReadLinks(v, i) \/ LinksFail(v, i) \/ ResolveContext(v, i) \/ ContextFails(v, i)
    PROVE  ReadInv'
<1>1. PICK load : load = view[v].loads[i]
  OBVIOUS
<1>2. load.step \in {"links", "context"}
  BY <1>1 DEF ReadLinks, LinksFail, ResolveContext, ContextFails
<1>3. LoadBase(load) /\ load.began \subseteq Range(load.rows) /\ ReadTogether(load)
  BY <1>1, <1>2, TheRequest DEF LoadFit
<1>4. LoadReady(load) /\ LoadShape(load)
  BY <1>3 DEF LoadReady, LoadBase
<1>5. CASE Complete(v, i, load)
  BY <1>4, <1>5, CompletesWell
<1>6. ASSUME NEW unavailable, Complete(v, i, [load EXCEPT !.unavailable = unavailable])
      PROVE  ReadInv'
  <2>1. PICK next : next = [load EXCEPT !.unavailable = unavailable]
    OBVIOUS
  <2>2. LoadReady(next)
    BY <1>4, <2>1, NotedUnavailable
  <2> QED BY <1>6, <2>1, <2>2, CompletesWell
<1>7. ASSUME NEW found, Goes(v, i, WithStep(load, "context", "linked", found))
      PROVE  ReadInv'
  <2>1. PICK next : next = WithStep(load, "context", "linked", found)
    OBVIOUS
  <2>2. /\ LoadShape(next) /\ next.step = "context" /\ next.rows = load.rows
        /\ next.read = load.read /\ next.had = load.had /\ next.began = load.began
    BY <1>4, <2>1, StepTaken
  <2>3. LoadFit(v, next)
    BY <1>3, <2>2 DEF LoadFit, LoadBase, ReadTogether
  <2> QED BY <1>7, <2>1, <2>3, LoadGoes
<1>8. \/ Complete(v, i, load)
      \/ Complete(v, i, [load EXCEPT !.unavailable = load.unavailable \cup {"links"}])
      \/ Complete(v, i, [load EXCEPT !.unavailable = load.unavailable \cup {"context"}])
      \/ \E found : Goes(v, i, WithStep(load, "context", "linked", found))
  BY <1>1 DEF ReadLinks, LinksFail, ResolveContext, ContextFails, WithStep
<1> QED BY <1>5, <1>6, <1>7, <1>8

\* An export that asks for references, and what it goes on with.
LEMMA ExportUnderWay ==
    ASSUME ReadInv, NEW v \in ReadViews, NEW i \in DOMAIN view[v].loads,
           view[v].loads[i].step \in {"references", "mint", "readBack"}
    PROVE  /\ v \in Panels /\ LoadBase(view[v].loads[i])
           /\ PortfolioFit(view[v].loads[i].portfolio, view[v].loads[i].had)
BY TheRequest DEF LoadFit

\* The references there are, for the records exported.
LEMMA ReferencesFacts ==
    ASSUME ReadInv, NEW load, PortfolioFit(load.portfolio, load.had), NEW references,
           references = ReferencesOf(Exported(load))
    PROVE  \A e \in DOMAIN references : /\ e \in Evidence /\ reference[e] # NoReference
                                        /\ references[e] = reference[e]
<1>1. Exported(load) \subseteq Evidence
  BY DEF Exported, PortfolioFit
<1> QED BY <1>1 DEF ReferencesOf

LEMMA ReferencesKeep ==
    ASSUME ReadInv, NEW v \in ReadViews, NEW i \in DOMAIN view[v].loads,
           LoadReferences(v, i) \/ ReadBack(v, i) \/ ReferencesFail(v, i)
    PROVE  ReadInv'
<1>1. PICK load : load = view[v].loads[i]
  OBVIOUS
<1>2. load.step \in {"references", "mint", "readBack"}
  BY <1>1 DEF LoadReferences, ReadBack, ReferencesFail
<1>3. v \in Panels /\ LoadBase(load) /\ PortfolioFit(load.portfolio, load.had)
  BY <1>1, <1>2, ExportUnderWay
<1>4. ASSUME NEW references, NEW unavailable,
             references = ReferencesOf(Exported(load)) \/ references = <<>>,
             Answers(v, i, Export(load.portfolio, references, unavailable))
      PROVE  ReadInv'
  <2>1. \A e \in DOMAIN references : /\ e \in Evidence /\ reference[e] # NoReference
                                     /\ references[e] = reference[e]
    BY <1>3, <1>4, ReferencesFacts
  <2>2. Goes(v, i, WithAnswer(load, Export(load.portfolio, references, unavailable)))
    BY <1>1, <1>4 DEF Answers, WithAnswer
  <2>3. PICK portfolio : portfolio = load.portfolio
    OBVIOUS
  <2> QED BY <1>3, <2>1, <2>2, <2>3, GivesExport
<1>5. ASSUME NEW missing, Goes(v, i, WithStep(load, "mint", "missing", missing))
      PROVE  ReadInv'
  <2>1. PICK next : next = WithStep(load, "mint", "missing", missing)
    OBVIOUS
  <2>2. LoadShape(load)
    BY <1>3 DEF LoadBase
  <2>3. /\ LoadShape(next) /\ next.step = "mint" /\ next.rows = load.rows
        /\ next.had = load.had /\ next.portfolio = load.portfolio
    BY <2>1, <2>2, StepTaken
  <2>4. LoadFit(v, next)
    BY <1>3, <2>3 DEF LoadFit, LoadBase
  <2> QED BY <1>5, <2>1, <2>4, LoadGoes
<1>6. \/ \E references, unavailable :
            /\ references = ReferencesOf(Exported(load)) \/ references = <<>>
            /\ Answers(v, i, Export(load.portfolio, references, unavailable))
      \/ \E missing : Goes(v, i, WithStep(load, "mint", "missing", missing))
  <2>1. CASE LoadReferences(v, i)
    BY <1>1, <2>1 DEF LoadReferences, WithStep
  <2>2. CASE ReadBack(v, i)
    BY <1>1, <2>2 DEF ReadBack
  <2>3. CASE ReferencesFail(v, i)
    BY <1>1, <2>3 DEF ReferencesFail
  <2> QED BY <2>1, <2>2, <2>3
<1> QED BY <1>4, <1>5, <1>6

LEMMA ListingFailsKeeps ==
    ASSUME ReadInv, NEW v \in ReadViews, NEW i \in DOMAIN view[v].loads, ListingFails(v, i)
    PROVE  ReadInv'
<1>1. PICK load : load = view[v].loads[i]
  OBVIOUS
<1>2. PICK answer : answer = [outcome |-> "error"]
  OBVIOUS
<1>3. Goes(v, i, WithAnswer(load, answer))
  BY <1>1, <1>2 DEF ListingFails, Answers, WithAnswer
<1>4. LoadBase(load) /\ LoadShape(load)
  BY <1>1, TheRequest DEF LoadFit, LoadBase
<1>5. PICK next : next = WithAnswer(load, answer)
  OBVIOUS
<1>6. next.answer = answer
  BY <1>4, <1>5, AnswerGiven
<1>7. AnswerFit(v, next)
  BY <1>2, <1>6 DEF AnswerFit
<1> QED BY <1>3, <1>4, <1>5, <1>7, GivesAnswer

\* Records may be added and references given, never taken back.
WorldGrows ==
    /\ log' = log
    /\ Range(recorded) \subseteq Range(recorded')
    /\ \A e \in Evidence : reference[e] # NoReference => reference'[e] = reference[e]

LEMMA GoodStaysGood ==
    ASSUME \A e \in Evidence : reference[e] # NoReference => reference'[e] = reference[e],
           NEW answer, ForGood(answer)
    PROVE  ForGood(answer)'
BY DEF ForGood

LEMMA LoadStaysFit ==
    ASSUME WorldGrows, NEW v, NEW load, LoadFit(v, load)
    PROVE  LoadFit(v, load)'
<1>1. StatesNow' = StatesNow
  BY DEF WorldGrows, StatesNow
<1>2. LoadBase(load) => LoadBase(load)'
  BY <1>1 DEF LoadBase
<1>3. AnswerFit(v, load) => AnswerFit(v, load)'
  BY GoodStaysGood DEF WorldGrows, AnswerFit
<1>4. Range(recorded) \subseteq Range(recorded)'
  BY DEF WorldGrows, Range
<1> QED BY <1>2, <1>3, <1>4 DEF LoadFit

LEMMA ViewStaysFit ==
    ASSUME WorldGrows, NEW v, NEW w, ViewFit(v, w)
    PROVE  ViewFit(v, w)'
<1>1. w.loads = <<>> \/ \E load : w.loads = <<load>> /\ LoadFit(v, load)'
  BY LoadStaysFit DEF ViewFit
<1>2. v \in Panels /\ w.shown # Nothing => ForGood(w.shown)'
  BY GoodStaysGood DEF WorldGrows, ViewFit
<1> QED BY <1>1, <1>2 DEF ViewFit

\* Evidence is recorded or linked.
LEMMA IntakeKeeps ==
    ASSUME ReadInv, NEW e \in Evidence, RecordEvidence(e) \/ LinkEvidence(e)
    PROVE  ReadInv'
<1>1. /\ log' = log /\ reference' = reference /\ view' = view
      /\ \/ recorded' = recorded
         \/ recorded' = Append(recorded, e) /\ e \notin Range(recorded)
  BY DEF RecordEvidence, LinkEvidence, vars
<1>2. Len(recorded) \in Nat /\ DOMAIN recorded = 1..Len(recorded) /\ recorded \in Seq(Evidence)
  BY DEF ReadInv
<1>3. recorded' \in Seq(Evidence) /\ IsInjective(recorded') /\ Range(recorded) \subseteq Range(recorded')
  <2>1. CASE recorded' = recorded
    BY <2>1 DEF ReadInv
  <2>2. CASE recorded' = Append(recorded, e) /\ e \notin Range(recorded)
    <3>1. /\ recorded' \in Seq(Evidence)
          /\ DOMAIN recorded' = 1..(Len(recorded) + 1)
          /\ \A k \in 1..Len(recorded) : recorded'[k] = recorded[k]
          /\ recorded'[Len(recorded) + 1] = e
      BY <1>2, <2>2
    <3>2. \A k \in 1..Len(recorded) : recorded[k] # e
      BY <1>2, <2>2 DEF Range
    <3>3. \A j, k \in 1..Len(recorded) : recorded[j] = recorded[k] => j = k
      BY <1>2 DEF ReadInv, IsInjective
    <3>4. ASSUME NEW j \in DOMAIN recorded', NEW k \in DOMAIN recorded',
                 recorded'[j] = recorded'[k]
          PROVE  j = k
      <4>1. j \in 1..Len(recorded) \/ j = Len(recorded) + 1
        BY <1>2, <3>1
      <4>2. k \in 1..Len(recorded) \/ k = Len(recorded) + 1
        BY <1>2, <3>1
      <4> QED BY <3>1, <3>2, <3>3, <3>4, <4>1, <4>2
    <3>5. Range(recorded) \subseteq Range(recorded')
      BY <1>2, <3>1 DEF Range
    <3> QED BY <3>1, <3>4, <3>5 DEF IsInjective
  <2> QED BY <1>1, <2>1, <2>2
<1>4. WorldGrows
  BY <1>1, <1>3 DEF WorldGrows
<1>5. ASSUME NEW v \in ReadViews
      PROVE  ViewFit(v, view[v])'
  <2>1. PICK w : w = view[v]
    OBVIOUS
  <2>2. ViewFit(v, w)'
    BY <1>4, <2>1, ViewStaysFit DEF ReadInv
  <2> QED BY <1>1, <2>1, <2>2 DEF ViewFit
<1> QED BY <1>1, <1>3, <1>5 DEF ReadInv

\* References are minted for records that have none; a reference there is
\* already stays.
LEMMA MintKeeps ==
    ASSUME ReadInv, NEW v \in ReadViews, NEW i \in DOMAIN view[v].loads, MintReferences(v, i)
    PROVE  ReadInv'
<1>1. PICK load : load = view[v].loads[i]
  OBVIOUS
<1>2. /\ load.step = "mint" /\ UNCHANGED <<vars, recorded>>
      /\ reference' = [e \in Evidence |-> IF e \in load.missing /\ reference[e] = NoReference
                                          THEN MintedBy(v, e) ELSE reference[e]]
      /\ view' = [view EXCEPT ![v].loads[i].step = "readBack"]
  BY <1>1 DEF MintReferences
<1>3. WorldGrows
  BY <1>2 DEF WorldGrows, vars
<1>4. i = 1 /\ view[v].loads = <<load>> /\ LoadFit(v, load)
  BY <1>1, TheRequest
<1>5. v \in Panels /\ LoadBase(load) /\ PortfolioFit(load.portfolio, load.had)
  BY <1>1, <1>2, ExportUnderWay
<1>6. PICK next : next = [load EXCEPT !.step = "readBack"]
  OBVIOUS
<1>7. /\ LoadShape(next) /\ next.step = "readBack" /\ next.rows = load.rows
      /\ next.had = load.had /\ next.portfolio = load.portfolio
  <2>1. LoadShape(load)
    BY <1>5 DEF LoadBase
  <2> QED BY <1>6, <2>1 DEF LoadShape
<1>8. LoadFit(v, next)
  BY <1>5, <1>7 DEF LoadFit, LoadBase
<1>9. PICK new : new = [view[v] EXCEPT !.loads[i].step = "readBack"]
  OBVIOUS
<1>10. [view[v].loads EXCEPT ![i].step = "readBack"] = <<next>>
  BY <1>4, <1>6
<1>11. ViewFit(v, view[v])
  BY DEF ReadInv
<1>12. new = [loads |-> <<next>>, aborted |-> view[v].aborted, loading |-> view[v].loading,
              failed |-> view[v].failed, shown |-> view[v].shown]
  BY <1>9, <1>10, <1>11 DEF ViewFit
<1>13. ViewFit(v, new)
  BY <1>8, <1>11, <1>12 DEF ViewFit
<1>14. view' = [view EXCEPT ![v] = new]
  BY <1>2, <1>9
<1>15. \A u \in ReadViews : view'[u] = IF u = v THEN new ELSE view[u]
  BY <1>14 DEF ReadInv
<1>16. view' = [u \in ReadViews |-> view'[u]]
  BY <1>14 DEF ReadInv
<1>17. ASSUME NEW u \in ReadViews
       PROVE  ViewFit(u, view[u])'
  <2>1. PICK w : w = view'[u]
    OBVIOUS
  <2>2. ViewFit(u, w)
    BY <1>13, <1>15, <2>1 DEF ReadInv
  <2>3. ViewFit(u, w)'
    BY <1>3, <2>2, ViewStaysFit
  <2> QED BY <2>1, <2>3 DEF ViewFit
<1>18. recorded' = recorded /\ reference' = [e \in Evidence |-> reference'[e]]
  BY <1>2
<1> QED BY <1>16, <1>17, <1>18 DEF ReadInv

\* A correction: every request may have seen one moment more.
LEMMA CorrectionsKeep ==
    ASSUME ReadInv, Corrections
    PROVE  ReadInv'
<1>1. recorded' = recorded /\ reference' = reference
  BY DEF Corrections, tables
<1>2. PICK now : now = StatesNow'
  OBVIOUS
<1> DEFINE More(loads) ==
               [i \in DOMAIN loads |-> [loads[i] EXCEPT !.had = loads[i].had \cup {now}]]
<1>3. view' = [v \in ReadViews |-> [view[v] EXCEPT !.loads = More(view[v].loads)]]
  <2>1. view' = [v \in ReadViews |->
                   [view[v] EXCEPT !.loads = [i \in DOMAIN view[v].loads |->
                       [view[v].loads[i] EXCEPT !.had = view[v].loads[i].had \cup {StatesNow'}]]]]
    BY DEF Corrections
  <2> QED BY <1>2, <2>1
<1> HIDE DEF More
<1>4. ASSUME NEW v \in ReadViews
      PROVE  ViewFit(v, view[v])'
  <2>1. PICK w, new : w = view[v] /\ new = view'[v]
    OBVIOUS
  <2>2. ViewFit(v, w)
    BY <2>1 DEF ReadInv
  <2>3. new = [loads |-> More(w.loads), aborted |-> w.aborted, loading |-> w.loading,
               failed |-> w.failed, shown |-> w.shown]
    BY <1>3, <2>1, <2>2 DEF ViewFit
  <2>4. v \in Panels /\ new.shown # Nothing => ForGood(new.shown)'
    BY <1>1, <2>2, <2>3 DEF ViewFit, ForGood
  <2>5. CASE w.loads = <<>>
    <3>1. More(w.loads) = <<>>
      BY <2>5 DEF More
    <3>2. ViewFit(v, new)'
      BY <2>3, <2>4, <3>1 DEF ViewFit
    <3> QED BY <2>1, <3>2 DEF ViewFit
  <2>6. CASE \E load : w.loads = <<load>> /\ LoadFit(v, load)
    <3>1. PICK load : w.loads = <<load>> /\ LoadFit(v, load)
      BY <2>6
    <3>2. PICK next : next = [load EXCEPT !.had = load.had \cup {now}]
      OBVIOUS
    <3>3. More(w.loads) = <<next>>
      BY <3>1, <3>2 DEF More
    <3>4. next = [step |-> load.step, filters |-> load.filters, rows |-> load.rows,
                  read |-> load.read, linked |-> load.linked, missing |-> load.missing,
                  unavailable |-> load.unavailable, portfolio |-> load.portfolio,
                  answer |-> load.answer, had |-> load.had \cup {now}, began |-> load.began]
      BY <3>1, <3>2 DEF LoadFit, LoadBase, LoadShape
    <3>5. LoadBase(next)'
      BY <1>2, <3>1, <3>4 DEF LoadFit, LoadBase, LoadShape
    <3>6. ReadTogether(load) => ReadTogether(next)
      BY <3>4 DEF ReadTogether
    <3>7. PortfolioFit(load.portfolio, load.had) => PortfolioFit(next.portfolio, next.had)
      BY <3>4 DEF PortfolioFit, OneMoment
    <3>8. ToldStates(v, load) => ToldStates(v, next)
      BY <3>4 DEF ToldStates
    <3>9. AnswerFit(v, load) => AnswerFit(v, next)'
      <4>1. next.answer = load.answer /\ next.filters = load.filters /\ next.began = load.began
        BY <3>4
      <4>2. ForGood(load.answer) => ForGood(load.answer)'
        BY <1>1 DEF ForGood
      <4>3. ToldStates(v, next) => ToldStates(v, next)'
        BY DEF ToldStates
      <4> QED BY <3>8, <4>1, <4>2, <4>3 DEF AnswerFit
    <3>10. LoadFit(v, next)'
      BY <1>1, <3>1, <3>4, <3>5, <3>6, <3>7, <3>9 DEF LoadFit
    <3>11. ViewFit(v, new)'
      BY <2>3, <2>4, <3>3, <3>10 DEF ViewFit
    <3> QED BY <2>1, <3>11 DEF ViewFit
  <2> QED BY <2>2, <2>5, <2>6 DEF ViewFit
<1>5. view' = [v \in ReadViews |-> view'[v]]
  BY <1>3
<1> QED BY <1>1, <1>4, <1>5 DEF ReadInv

\* What a request starts from.
LEMMA BegunFits ==
    ASSUME ReadInv, NEW v, NEW f, NEW load, load = Begun(f)
    PROVE  LoadFit(v, load)
<1>1. /\ load.step = "records" /\ load.rows = <<>> /\ load.had = {StatesNow}
      /\ load.began = {e \in Range(recorded) : Owner[e] = Student} /\ LoadShape(load)
  BY DEF Begun, LoadShape
<1>2. Range(recorded) \subseteq Evidence
  BY DEF ReadInv, Range
<1>3. <<>> \in Seq(Own) /\ IsInjective(<<>>)
  BY DEF IsInjective
<1> QED BY <1>1, <1>2, <1>3 DEF LoadFit, LoadBase, Own

\* A view that loads (again).
LEMMA ReloadedFits ==
    ASSUME ReadInv, NEW v, NEW w, ViewFit(v, w), NEW load, LoadFit(v, load),
           NEW new, new = Reloaded(w, load)
    PROVE  ViewFit(v, new)
<1>1. new = [loads |-> <<load>>, aborted |-> w.aborted + Len(w.loads), loading |-> TRUE,
             failed |-> FALSE, shown |-> w.shown]
  BY DEF Reloaded, ViewFit
<1> QED BY <1>1 DEF ViewFit

\* Answers that arrive, errors, and requests aborted before that end.
LEMMA EndingKeeps ==
    ASSUME ReadInv, NEW v \in ReadViews,
           \/ \E i \in DOMAIN view[v].loads : Arrive(v, i) \/ NetworkFails(v, i)
           \/ AbortSettles(v)
    PROVE  ReadInv'
<1>1. PICK w : w = view[v] /\ ViewFit(v, w)
  BY DEF ReadInv
<1>2. ASSUME NEW new, ViewBecomes(v, new), ViewFit(v, new)
      PROVE  ReadInv'
  BY <1>2, OneViewChanges DEF ViewBecomes
<1>3. ASSUME NEW i \in DOMAIN view[v].loads, NEW new, new = FailedLoad(w, i)
      PROVE  ViewFit(v, new)
  <2>1. RemoveAt(w.loads, i) = <<>>
    BY <1>1, TheRequest, OnlyOneRemoved
  <2>2. new = [loads |-> <<>>, aborted |-> w.aborted, loading |-> FALSE, failed |-> TRUE,
               shown |-> w.shown]
    BY <1>1, <1>3, <2>1 DEF FailedLoad, ViewFit
  <2> QED BY <1>1, <2>2 DEF ViewFit
<1>4. ASSUME NEW i \in DOMAIN view[v].loads, Arrive(v, i)
      PROVE  ReadInv'
  <2>1. PICK load, answer : load = view[v].loads[i] /\ answer = load.answer
    OBVIOUS
  <2>2. /\ load.step = "answered"
        /\ ViewBecomes(v, IF answer.outcome = "error" THEN FailedLoad(w, i)
                          ELSE Landed(w, i, answer))
    BY <1>1, <1>4, <2>1 DEF Arrive
  <2>3. CASE answer.outcome = "error"
    <3>1. PICK new : new = FailedLoad(w, i)
      OBVIOUS
    <3> QED BY <1>2, <1>3, <2>2, <2>3, <3>1
  <2>4. CASE answer.outcome # "error"
    <3>1. PICK new : new = Landed(w, i, answer)
      OBVIOUS
    <3>2. RemoveAt(w.loads, i) = <<>>
      BY <1>1, TheRequest, OnlyOneRemoved
    <3>3. new = [loads |-> <<>>, aborted |-> w.aborted, loading |-> FALSE, failed |-> w.failed,
                 shown |-> answer]
      BY <1>1, <3>1, <3>2 DEF Landed, ViewFit
    <3>4. AnswerFit(v, load)
      BY <2>1, <2>2, TheRequest DEF LoadFit
    <3>5. v \in Panels => ForGood(answer)
      BY <2>1, <3>4 DEF AnswerFit, ForGood
    <3>6. ViewFit(v, new)
      BY <3>3, <3>5 DEF ViewFit
    <3> QED BY <1>2, <2>2, <2>4, <3>1, <3>6
  <2> QED BY <2>3, <2>4
<1>5. ASSUME NEW i \in DOMAIN view[v].loads, NetworkFails(v, i)
      PROVE  ReadInv'
  <2>1. PICK new : new = FailedLoad(w, i)
    OBVIOUS
  <2>2. ViewBecomes(v, new)
    BY <1>1, <1>5, <2>1 DEF NetworkFails
  <2> QED BY <1>2, <1>3, <2>1, <2>2
<1>6. ASSUME AbortSettles(v)
      PROVE  ReadInv'
  <2>1. PICK new : new = Settled(w)
    OBVIOUS
  <2>2. new = [loads |-> w.loads, aborted |-> w.aborted - 1, loading |-> FALSE,
               failed |-> w.failed, shown |-> w.shown]
    BY <1>1, <2>1 DEF Settled, ViewFit
  <2>3. ViewFit(v, new)
    BY <1>1, <2>2 DEF ViewFit
  <2> QED BY <1>1, <1>2, <1>6, <2>1, <2>3 DEF AbortSettles
<1> QED BY <1>4, <1>5, <1>6

\* A view asks.
LEMMA AskingKeeps ==
    ASSUME ReadInv, NEW f, SetFilters(f) \/ \E v \in ReadViews : RequestExport(v, f)
    PROVE  ReadInv'
<1>1. PICK v \in ReadViews :
          /\ UNCHANGED <<vars, tables>>
          /\ view' = [view EXCEPT ![v] = Reloaded(view[v], Begun(f))]
  <2>1. "portfolio" \in ReadViews
    BY DEF ReadViews
  <2> QED BY <2>1 DEF SetFilters, RequestExport, ViewBecomes
<1>2. PICK load, new : load = Begun(f) /\ new = Reloaded(view[v], load)
  OBVIOUS
<1>3. LoadFit(v, load)
  BY <1>2, BegunFits
<1>4. PICK w : w = view[v] /\ ViewFit(v, w)
  BY DEF ReadInv
<1>5. ViewFit(v, new)
  BY <1>2, <1>3, <1>4, ReloadedFits
<1> QED BY <1>1, <1>2, <1>5, OneViewChanges

LEMMA ReadInvInit == ReadingInit => ReadInv
<1> SUFFICES ASSUME ReadingInit PROVE ReadInv
  OBVIOUS
<1>1. recorded \in Seq(Evidence) /\ IsInjective(recorded)
  BY EvidenceReadingAssumption DEF ReadingInit
<1>2. PICK load, other : load = Begun(NoFilters) /\ other = Unused
  OBVIOUS
<1>3. other = [loads |-> <<>>, aborted |-> 0, loading |-> FALSE, failed |-> FALSE, shown |-> Nothing]
  BY <1>2 DEF Unused
<1>4. PICK new : new = Reloaded(other, load)
  OBVIOUS
<1>5. new = [loads |-> <<load>>, aborted |-> 0 + Len(<<>>), loading |-> TRUE, failed |-> FALSE,
             shown |-> Nothing]
  BY <1>3, <1>4 DEF Reloaded
<1>6. ASSUME NEW v
      PROVE  ViewFit(v, other) /\ ViewFit(v, new)
  <2>1. LoadShape(load) /\ load.step = "records" /\ load.rows = <<>> /\ load.had = {StatesNow}
        /\ load.began = {e \in Range(recorded) : Owner[e] = Student}
    BY <1>2 DEF Begun, LoadShape
  <2>2. Range(recorded) \subseteq Evidence
    BY <1>1 DEF Range
  <2>3. <<>> \in Seq(Own) /\ IsInjective(<<>>)
    BY DEF IsInjective
  <2>4. LoadFit(v, load)
    BY <2>1, <2>2, <2>3 DEF LoadFit, LoadBase, Own
  <2> QED BY <1>3, <1>5, <2>4 DEF ViewFit
<1>7. view = [v \in ReadViews |-> IF v = "portfolio" /\ v \in open THEN new ELSE other]
  BY <1>2, <1>4 DEF ReadingInit
<1>8. reference = [e \in Evidence |-> reference[e]]
  BY DEF ReadingInit
<1> QED BY <1>1, <1>6, <1>7, <1>8 DEF ReadInv

LEMMA ReadInvNext == ReadInv /\ [ReadingNext]_readingVars => ReadInv'
<1> SUFFICES ASSUME ReadInv, [ReadingNext]_readingVars PROVE ReadInv'
  OBVIOUS
<1>1. CASE UNCHANGED readingVars
  <2>1. UNCHANGED <<vars, tables>> /\ view' = view
    BY <1>1 DEF readingVars, readVars
  <2>2. recorded' = recorded /\ reference' = reference
    BY <2>1 DEF tables
  <2>3. ASSUME NEW v \in ReadViews
        PROVE  ViewFit(v, view[v])'
    <3>1. PICK w : w = view[v]
      OBVIOUS
    <3>2. ViewFit(v, w)'
      BY <2>1, <3>1, WorldStands DEF ReadInv
    <3> QED BY <2>1, <3>1, <3>2 DEF ViewFit
  <2> QED BY <2>1, <2>2, <2>3 DEF ReadInv
<1>2. CASE ReadingNext
  <2>1. ASSUME NEW v \in ReadViews, NEW i \in DOMAIN view[v].loads,
               \/ ReadRecords(v, i) \/ ReadHistories(v, i) \/ ListingFails(v, i)
               \/ ReadLinks(v, i) \/ LinksFail(v, i)
               \/ ResolveContext(v, i) \/ ContextFails(v, i)
               \/ LoadReferences(v, i) \/ MintReferences(v, i) \/ ReadBack(v, i)
               \/ ReferencesFail(v, i)
        PROVE  ReadInv'
    BY <2>1, ReadRecordsKeeps, ReadHistoriesKeeps, ListingFailsKeeps, SupplementKeeps,
       ReferencesKeep, MintKeeps
  <2> QED BY <1>2, <2>1, CorrectionsKeep, EndingKeeps, AskingKeeps, IntakeKeeps DEF ReadingNext
<1> QED BY <1>1, <1>2

LEMMA ReadInvariance == ReadingSpec => []ReadInv
BY ReadInvInit, ReadInvNext, PTL DEF ReadingSpec

\* A reference that was ever told stays the record's, whatever exports race to
\* mint it: ensureVerificationReferences reads back what it has inserted.
THEOREM ReferencesStay == ReadingSpec => []ReferencesAreForGood
<1>1. ReadInv => ReferencesAreForGood
  <2> SUFFICES ASSUME ReadInv, NEW v \in Panels, NEW answer \in Told(v)
               PROVE  ForGood(answer)
    BY DEF ReferencesAreForGood, ForGood
  <2>1. v \in ReadViews
    BY DEF ReadViews
  <2>2. CASE answer = view[v].shown /\ answer # Nothing
    BY <2>1, <2>2 DEF ReadInv, ViewFit
  <2>3. ASSUME NEW i \in DOMAIN view[v].loads, view[v].loads[i].step = "answered",
               answer = view[v].loads[i].answer
        PROVE  ForGood(answer)
    <3>1. AnswerFit(v, view[v].loads[i])
      BY <2>1, <2>3, TheRequest DEF LoadFit
    <3> QED BY <2>3, <3>1 DEF AnswerFit, ForGood
  <2> QED BY <2>2, <2>3 DEF Told
<1> QED BY <1>1, ReadInvariance, PTL

\* All histories come from one query, so what a portfolio or an export tells
\* was all so together: loadCorrectionEventsByEvidence.
THEOREM ToldFromOneMoment == ReadingSpec => []ToldTogether
<1>1. ReadInv => ToldTogether
  <2> SUFFICES ASSUME ReadInv, NEW v \in ReadViews, NEW i \in DOMAIN view[v].loads,
                      NEW load, load = view[v].loads[i],
                      load.step = "answered", load.answer.outcome = "answered"
               PROVE  ToldStates(v, load)
    BY DEF ToldTogether, ToldStates
  <2> QED BY TheRequest DEF LoadFit, AnswerFit
<1> QED BY <1>1, ReadInvariance, PTL

\* A student whose records fit in one portfolio finds all of them there.
THEOREM AllIsPresented == ASSUME FewEnough PROVE ReadingSpec => []NothingWithheld
<1>1. ReadInv => NothingWithheld
  <2> SUFFICES ASSUME ReadInv, NEW i \in DOMAIN view["portfolio"].loads,
                      NEW load, load = view["portfolio"].loads[i], load.step = "answered",
                      load.answer.outcome = "answered", load.filters = NoFilters
               PROVE  load.began \subseteq Presented(load.answer)
    BY DEF NothingWithheld
  <2>1. "portfolio" \in ReadViews
    BY DEF ReadViews
  <2>2. LoadFit("portfolio", load)
    BY <2>1, TheRequest
  <2> QED BY <2>2 DEF LoadFit, AnswerFit
<1> QED BY <1>1, ReadInvariance, PTL

\* Readers only look on: whatever holds of every correction holds under them.
LEMMA ReadersLookOn == ReadingSpec => Spec
<1>1. ReadingInit => Init
  BY DEF ReadingInit
<1>2. ReadingNext => Next \/ UNCHANGED vars
  <2>1. ASSUME NEW v, NEW i, NEW load, Goes(v, i, load) \/ Complete(v, i, load)
        PROVE  UNCHANGED vars
    BY Zenon, <2>1 DEF Complete, Goes, ViewBecomes
  <2>2. ASSUME NEW v, NEW i,
               \/ ReadRecords(v, i) \/ ReadHistories(v, i) \/ ListingFails(v, i)
               \/ ReadLinks(v, i) \/ LinksFail(v, i)
               \/ ResolveContext(v, i) \/ ContextFails(v, i)
        PROVE  UNCHANGED vars
    BY Zenon, <2>1, <2>2 DEF ReadRecords, ReadHistories, ListingFails, ReadLinks, LinksFail,
       ResolveContext, ContextFails, Answers
  <2>3. ASSUME NEW v, NEW i,
               \/ LoadReferences(v, i) \/ MintReferences(v, i) \/ ReadBack(v, i)
               \/ ReferencesFail(v, i)
        PROVE  UNCHANGED vars
    BY Zenon, <2>1, <2>3 DEF LoadReferences, MintReferences, ReadBack, ReferencesFail, Answers
  <2>4. ASSUME NEW v,
               \/ \E i \in DOMAIN view[v].loads : Arrive(v, i) \/ NetworkFails(v, i)
               \/ AbortSettles(v) \/ \E f \in FilterChoices : RequestExport(v, f)
        PROVE  UNCHANGED vars
    BY Zenon, <2>4 DEF Arrive, NetworkFails, AbortSettles, RequestExport, ViewBecomes
  <2>5. ASSUME \/ \E f \in FilterChoices : SetFilters(f)
               \/ \E e \in Evidence : RecordEvidence(e) \/ LinkEvidence(e)
        PROVE  UNCHANGED vars
    BY Zenon, <2>5 DEF SetFilters, RecordEvidence, LinkEvidence
  <2>6. Corrections => Next
    BY DEF Corrections
  <2> QED BY Zenon, <2>2, <2>3, <2>4, <2>5, <2>6 DEF ReadingNext
<1>3. [ReadingNext]_readingVars => [Next]_vars
  BY <1>2 DEF readingVars
<1> QED BY <1>1, <1>3, PTL DEF ReadingSpec, Spec

\* The indivisible corrections are what happens under readers too.
THEOREM ImplementsUnderReaders == ReadingSpec => ImplementsTrust
BY ReadersLookOn, Implements
=============================================================================
