---------------------- MODULE EventStoreDomainRepoProofs ----------------------
(* Proofs about EventStoreDomainRepo, for any sessions, expectations and     *)
(* bounds.                                                                   *)
EXTENDS EventStoreDomainRepo, TLAPS

-----------------------------------------------------------------------------
(* Types                                                                     *)

\* The empty server and idle sessions are well typed.
LEMMA InitTyping == Init => TypeOK
  BY GesAssumption DEF Init, TypeOK

\* What an event, an aggregate and a request are made of.
LEMMA EventFields ==
    \A e \in Event : e.by \in Sessions /\ e.no \in 1..MaxRaised /\ e.seen \in Nat
  BY DEF Event

\* The types of the fields of an aggregate ...
LEMMA AggregateFields ==
    \A a \in Aggregate : /\ a.version \in Nat /\ a.applied \in Seq(Stored)
                         /\ a.changes \in Seq(Event)
  BY DEF Aggregate

\* ... and of a request that may still arrive.
LEMMA RequestFields ==
    \A q \in Request : q.expected \in SUBSET Int /\ q.events \in Seq(Event)
  BY DEF Request

\* The expected version is one number or none.
LEMMA Expectation ==
    ASSUME NEW s \in Sessions, NEW a \in Aggregate
    PROVE  ExpectedVersion(s, a) = {} \/ \E v \in Int : ExpectedVersion(s, a) = {v}
  <1>1. a.version \in Int /\ a.version - 1 \in Int
    BY AggregateFields
  <1> QED
    BY <1>1 DEF ExpectedVersion, OriginalVersion

\* A new aggregate is an aggregate.
LEMMA NewAggregateTyping == NewAggregateBase \in Aggregate
  BY DEF NewAggregateBase, Aggregate

\* The versions Save publishes are numbers, of events it stores.
LEMMA VersionsTyping ==
    ASSUME NEW s \in Sessions, NEW a \in Aggregate,
           NEW events \in Seq(Event)
    PROVE  Versions(ExpectedVersion(s, a), events)
              \in Seq(Publication)
  <1> DEFINE expected == ExpectedVersion(s, a)
  <1>1. expected = {} \/ \E v \in Int : expected = {v}
    BY Expectation
  <1>2. expected # {} => (CHOOSE v \in expected : TRUE) \in Int
    BY <1>1
  <1> HIDE DEF expected
  <1>3. \A k \in 1..Len(events) : events[k] \in Event /\ events[k].seen \in Nat
    BY EventFields
  <1>4. \A k \in 1..Len(events) :
            [event |-> events[k],
             version |-> IF expected = {} THEN events[k].seen
                         ELSE (CHOOSE v \in expected : TRUE) + k]
                \in Publication
    BY <1>2, <1>3 DEF Publication
  <1>5. DOMAIN events = 1..Len(events) /\ Len(events) \in Nat
    OBVIOUS
  <1>6. Versions(expected, events) \in [1..Len(events) -> Publication]
    BY <1>4, <1>5 DEF Versions
  <1> QED
    BY <1>5, <1>6 DEF expected

\* What Save sends is a request.
LEMMA RequestTyping ==
    ASSUME NEW s \in Sessions, NEW a \in Aggregate
    PROVE  [expected |-> ExpectedVersion(s, a), events |-> a.changes] \in Request
  BY Expectation, AggregateFields DEF Request

\* A sequence longer than n has an element after its first n.
LEMMA NextElement ==
    ASSUME NEW S, NEW q \in Seq(S), NEW n \in Nat, n < Len(q)
    PROVE  n + 1 \in 1..Len(q) /\ q[n + 1] \in S
  OBVIOUS

\* The head of a sequence is its first element, the tail the others.
LEMMA HeadAndTail ==
    ASSUME NEW S, NEW q \in Seq(S), q # <<>>
    PROVE  /\ Head(q) = q[1] /\ 1 \in 1..Len(q)
           /\ \A k \in 1..Len(Tail(q)) :
                k + 1 \in 1..Len(q) /\ Tail(q)[k] = q[k + 1]
  OBVIOUS

\* A step that fails stays within the bound on failures.
LEMMA OneMoreFailure ==
    ASSUME TypeOK, failures < MaxFailures, failures' = failures + 1
    PROVE  failures' \in 0..MaxFailures
  <1>1. failures \in 0..MaxFailures
    BY DEF TypeOK
  <1> QED
    BY <1>1, GesAssumption

\* Every step keeps the types.
LEMMA StepTyping == TypeOK /\ [Next]_vars => TypeOK'
  <1> SUFFICES ASSUME TypeOK, [Next]_vars PROVE TypeOK'
    OBVIOUS
  <1>1. ASSUME NEW s \in Sessions, NewAggregate(s) PROVE TypeOK'
    BY <1>1, NewAggregateTyping DEF NewAggregate, TypeOK, Goes, Becomes
  <1>2. ASSUME NEW s \in Sessions, Load(s) PROVE TypeOK'
    BY <1>2 DEF Load, TypeOK, Goes
  <1>3. ASSUME NEW s \in Sessions, LoadNext(s) PROVE TypeOK'
    <2>1. PICK a \in agg[s] :
            /\ Len(a.applied) < Len(stream)
            /\ Becomes(s, Applied(a, stream[Len(a.applied) + 1]))
      BY <1>3 DEF LoadNext
    <2>2. a \in Aggregate
      BY <2>1 DEF TypeOK
    <2>3. stream[Len(a.applied) + 1] \in Stored
      <3>1. a.applied \in Seq(Stored)
        BY <2>2, AggregateFields
      <3>2. Len(a.applied) \in Nat
        BY <3>1
      <3>3. stream \in Seq(Stored)
        BY DEF TypeOK
      <3> QED
        BY <2>1, <3>2, <3>3, NextElement
    <2>4. Applied(a, stream[Len(a.applied) + 1]) \in Aggregate
      BY <2>2, <2>3 DEF Applied, Aggregate
    <2> QED
      BY <1>3, <2>1, <2>4 DEF LoadNext, TypeOK, Becomes
  <1>4. ASSUME NEW s \in Sessions, LoadEnds(s) PROVE TypeOK'
    <2>1. PICK a \in agg[s] :
            IF stream = <<>>
            THEN agg' = [agg EXCEPT ![s] = {}] /\ Goes(s, "idle", "not found")
            ELSE Becomes(s, Loaded(a)) /\ Goes(s, "idle", "ok")
      BY <1>4 DEF LoadEnds, NoAggregate
    <2>2. a \in Aggregate
      BY DEF TypeOK
    <2>3. Loaded(a) \in Aggregate
      BY <2>2 DEF Aggregate, Loaded
    <2>4. /\ agg' \in [Sessions -> SUBSET Aggregate]
          /\ pc' \in [Sessions -> {"idle", "loading", "publishing"}]
          /\ outcome' \in [Sessions -> {"none", "ok", "not found", "refused",
                                        "error"}]
      <3>1. CASE stream = <<>>
        BY <2>1, <3>1 DEF TypeOK, Goes
      <3>2. CASE stream # <<>>
        <4>1. agg' = [agg EXCEPT ![s] = {Loaded(a)}] /\ Goes(s, "idle", "ok")
          BY <2>1, <3>2 DEF Becomes
        <4> QED
          BY <2>3, <4>1 DEF TypeOK, Goes
      <3> QED
        BY <3>1, <3>2
    <2> QED
      BY <1>4, <2>4 DEF LoadEnds, NoAggregate, TypeOK
  <1>5. ASSUME NEW s \in Sessions, LoadUnknown(s) PROVE TypeOK'
    BY <1>5 DEF LoadUnknown, TypeOK, Goes
  <1>6. ASSUME NEW s \in Sessions, LoadFails(s) PROVE TypeOK'
    <2>1. failures' \in 0..MaxFailures
      BY <1>6, OneMoreFailure DEF LoadFails
    <2> QED
      BY <1>6, <2>1 DEF LoadFails, TypeOK, Goes
  <1>7. ASSUME NEW s \in Sessions, TrackChange(s) PROVE TypeOK'
    <2>1. raised[s] < MaxRaised /\ raised[s] \in 0..MaxRaised
      BY <1>7 DEF TrackChange, TypeOK
    <2>2. raised[s] + 1 \in 1..MaxRaised /\ raised[s] + 1 \in 0..MaxRaised
      BY <2>1, GesAssumption
    <2>3. PICK a \in agg[s] : Becomes(s, Raised(s, a))
      BY <1>7 DEF TrackChange
    <2>4. a \in Aggregate
      BY DEF TypeOK
    <2>5. CurrentVersion(a) \in Nat
      BY <2>4, AggregateFields DEF CurrentVersion
    <2>6. NextEvent(s, a) \in Event
      BY <2>2, <2>5 DEF NextEvent, Event
    <2>7. Raised(s, a) \in Aggregate
      BY <2>4, <2>6 DEF Raised, Aggregate
    <2> QED
      BY <1>7, <2>2, <2>3, <2>7 DEF TrackChange, TypeOK, Becomes
  <1>8. ASSUME NEW s \in Sessions, Save(s) PROVE TypeOK'
    <2>1. PICK a \in agg[s] :
            /\ stream' = stream \o a.changes
            /\ outbox' = [outbox EXCEPT ![s] =
                            Versions(ExpectedVersion(s, a), a.changes)]
            /\ Becomes(s, ClearChanges(a))
      BY <1>8 DEF Save
    <2>2. a \in Aggregate
      BY DEF TypeOK
    <2>3. a.changes \in Seq(Event)
      BY <2>2, AggregateFields
    <2>4. ClearChanges(a) \in Aggregate
      BY <2>2 DEF ClearChanges, Aggregate
    <2>5. Versions(ExpectedVersion(s, a), a.changes) \in Seq(Publication)
      BY <2>2, <2>3, VersionsTyping
    <2>6. a.changes \in Seq(Stored)
      BY <2>3 DEF Stored
    <2>7. stream' \in Seq(Stored)
      <3>1. stream \in Seq(Stored)
        BY DEF TypeOK
      <3> QED
        BY <2>1, <2>6, <3>1
    <2> QED
      BY <1>8, <2>1, <2>4, <2>5, <2>7 DEF Save, TypeOK, Goes, Becomes
  <1>9. ASSUME NEW s \in Sessions, SaveRefused(s) PROVE TypeOK'
    BY <1>9 DEF SaveRefused, TypeOK, Goes
  <1>10. ASSUME NEW s \in Sessions, SaveFails(s) PROVE TypeOK'
    <2>1. PICK a \in agg[s] :
            late' = late \cup {[expected |-> ExpectedVersion(s, a),
                                events |-> a.changes]}
      BY <1>10 DEF SaveFails
    <2>2. [expected |-> ExpectedVersion(s, a), events |-> a.changes] \in Request
      BY RequestTyping DEF TypeOK
    <2>3. failures' \in 0..MaxFailures
      BY <1>10, OneMoreFailure DEF SaveFails
    <2>4. late' \subseteq Request
      BY <2>1, <2>2 DEF TypeOK
    <2> QED
      BY <1>10, <2>3, <2>4 DEF SaveFails, TypeOK, Goes
  <1>11. ASSUME NEW s \in Sessions, PublishNext(s) PROVE TypeOK'
    <2>1. CASE outbox[s] = <<>>
      BY <1>11, <2>1 DEF PublishNext, TypeOK, Goes
    <2>2. CASE outbox[s] # <<>>
      <3>1. outbox[s] \in Seq(Publication)
        BY DEF TypeOK
      <3>2. Head(outbox[s]) \in Publication /\ Tail(outbox[s]) \in Seq(Publication)
        BY <2>2, <3>1
      <3> QED
        BY <1>11, <2>2, <3>2 DEF PublishNext, TypeOK
    <2> QED
      BY <2>1, <2>2
  <1>12. CASE ForeignAppend
    <2>1. stream \in Seq(Stored) /\ Foreign \in Stored
      BY DEF TypeOK, Stored
    <2>2. Append(stream, Foreign) \in Seq(Stored)
      BY <2>1
    <2> QED
      BY <1>12, <2>2 DEF ForeignAppend, TypeOK
  <1>13. CASE LateAppend
    <2>1. PICK request \in late : /\ stream' = stream \o request.events
                                  /\ late' = late \ {request}
      BY <1>13 DEF LateAppend
    <2>2. request.events \in Seq(Event)
      BY RequestFields DEF TypeOK
    <2>3. request.events \in Seq(Stored)
      BY <2>2 DEF Stored
    <2>4. stream' \in Seq(Stored) /\ late' \subseteq Request
      <3>1. stream \in Seq(Stored) /\ late \subseteq Request
        BY DEF TypeOK
      <3> QED
        BY <2>1, <2>3, <3>1
    <2> QED
      BY <1>13, <2>4 DEF LateAppend, TypeOK
  <1>14. CASE Crash
    <2>1. failures' \in 0..MaxFailures
      BY <1>14, OneMoreFailure DEF Crash
    <2>2. /\ agg' \in [Sessions -> SUBSET Aggregate]
          /\ pc' \in [Sessions -> {"idle", "loading", "publishing"}]
          /\ outcome' \in [Sessions -> {"none", "ok", "not found", "refused",
                                        "error"}]
          /\ outbox' \in [Sessions -> Seq(Publication)]
      BY <1>14 DEF Crash
    <2> QED
      BY <1>14, <2>1, <2>2 DEF Crash, TypeOK
  <1>15. CASE UNCHANGED vars
    BY <1>15 DEF vars, TypeOK
  <1> QED
    BY <1>1, <1>2, <1>3, <1>4, <1>5, <1>6, <1>7, <1>8, <1>9, <1>10, <1>11,
       <1>12, <1>13, <1>14, <1>15 DEF Next

\* Every variable keeps its type, for any sessions and bounds.
THEOREM Typing == Spec => []TypeOK
  <1>1. Init => TypeOK
    BY InitTyping
  <1>2. TypeOK /\ [Next]_vars => TypeOK'
    BY StepTyping
  <1> QED
    BY <1>1, <1>2, PTL DEF Spec

-----------------------------------------------------------------------------
(* What an aggregate has applied                                           *)

\* AggregateIsLoadedPrefix, element by element.
LoadedPrefix ==
    \A s \in Sessions : \A a \in agg[s] :
        /\ a.version = Len(a.applied)
        /\ Len(a.applied) <= Len(stream)
        /\ \A i \in 1..Len(a.applied) : a.applied[i] = stream[i]

\* The stream only grows.
LEMMA StreamGrows ==
    ASSUME TypeOK, [Next]_vars
    PROVE  /\ Len(stream) <= Len(stream')
           /\ \A i \in 1..Len(stream) : stream'[i] = stream[i]
  <1>1. stream \in Seq(Stored)
    BY DEF TypeOK
  <1> DEFINE Grows == \E q \in Seq(Stored) : stream' = stream \o q
  <1>2. stream' = stream \/ Grows
    <2>1. ASSUME NEW s \in Sessions, Save(s)
          PROVE  Grows
      <3>1. PICK a \in agg[s] : stream' = stream \o a.changes
        BY <2>1 DEF Save
      <3>2. a.changes \in Seq(Event)
        BY AggregateFields DEF TypeOK
      <3>3. a.changes \in Seq(Stored)
        BY <3>2 DEF Stored
      <3> QED
        BY <3>1, <3>3
    <2>2. ASSUME LateAppend
          PROVE  Grows
      <3>1. PICK request \in late : stream' = stream \o request.events
        BY <2>2 DEF LateAppend
      <3>2. request.events \in Seq(Event)
        BY RequestFields DEF TypeOK
      <3>3. request.events \in Seq(Stored)
        BY <3>2 DEF Stored
      <3> QED
        BY <3>1, <3>3
    <2>3. ASSUME ForeignAppend
          PROVE  Grows
      <3>1. stream' = stream \o <<Foreign>> /\ <<Foreign>> \in Seq(Stored)
        BY <1>1, <2>3 DEF ForeignAppend, Stored
      <3> QED
        BY <3>1
    <2>4. ASSUME NEW s \in Sessions,
                 \/ NewAggregate(s) \/ Load(s) \/ LoadNext(s) \/ LoadEnds(s)
                 \/ LoadUnknown(s) \/ LoadFails(s) \/ TrackChange(s)
                 \/ SaveRefused(s) \/ SaveFails(s) \/ PublishNext(s)
          PROVE  stream' = stream
      BY <2>4 DEF NewAggregate, Load, LoadNext, LoadEnds, NoAggregate, LoadUnknown, LoadFails,
                  TrackChange, SaveRefused, SaveFails, PublishNext
    <2>5. Crash \/ UNCHANGED vars => stream' = stream
      BY DEF Crash, vars
    <2> HIDE DEF Grows
    <2>6. CASE ForeignAppend \/ LateAppend \/ Crash \/ UNCHANGED vars
      BY <2>2, <2>3, <2>5, <2>6
    <2>7. CASE \E s \in Sessions :
                 \/ NewAggregate(s) \/ Load(s) \/ LoadNext(s) \/ LoadEnds(s)
                 \/ LoadUnknown(s) \/ LoadFails(s)
                 \/ TrackChange(s) \/ Save(s) \/ SaveRefused(s) \/ SaveFails(s)
                 \/ PublishNext(s)
      BY <2>1, <2>4, <2>7
    <2> QED
      BY <2>6, <2>7 DEF Next
  <1> QED
    BY <1>1, <1>2

\* An aggregate a step leaves alone still holds a beginning of the stream.
LEMMA PrefixStays ==
    ASSUME TypeOK, [Next]_vars, NEW a \in Aggregate,
           a.version = Len(a.applied), Len(a.applied) <= Len(stream),
           \A i \in 1..Len(a.applied) : a.applied[i] = stream[i]
    PROVE  /\ Len(a.applied) <= Len(stream')
           /\ \A i \in 1..Len(a.applied) : a.applied[i] = stream'[i]
  <1>1. Len(stream) \in Nat /\ Len(stream') \in Nat
    <2>1. TypeOK'
      BY StepTyping
    <2>2. stream \in Seq(Stored) /\ stream' \in Seq(Stored)
      BY <2>1 DEF TypeOK
    <2> QED
      BY <2>2
  <1>2. a.applied \in Seq(Stored)
    BY AggregateFields
  <1>3. Len(a.applied) \in Nat
    BY <1>2
  <1> QED
    BY <1>1, <1>3, StreamGrows

\* What Load has applied stays the beginning of the stream.
LEMMA StepPrefix == TypeOK /\ LoadedPrefix /\ [Next]_vars => LoadedPrefix'
  <1> SUFFICES ASSUME TypeOK, LoadedPrefix, [Next]_vars,
                      NEW s \in Sessions, NEW a \in agg'[s]
               PROVE  /\ a.version = Len(a.applied)
                      /\ Len(a.applied) <= Len(stream')
                      /\ \A i \in 1..Len(a.applied) : a.applied[i] = stream'[i]
    BY DEF LoadedPrefix
  <1> DEFINE Holds(b) ==
        /\ b.version = Len(b.applied)
        /\ Len(b.applied) <= Len(stream')
        /\ \A i \in 1..Len(b.applied) : b.applied[i] = stream'[i]
  <1>1. \A c \in Sessions : \A b \in agg[c] : b \in Aggregate /\ Holds(b)
    <2>1. \A c \in Sessions : \A b \in agg[c] : b \in Aggregate
      BY DEF TypeOK
    <2>2. \A c \in Sessions : \A b \in agg[c] :
            /\ b.version = Len(b.applied)
            /\ Len(b.applied) <= Len(stream)
            /\ \A i \in 1..Len(b.applied) : b.applied[i] = stream[i]
      BY DEF LoadedPrefix
    <2> QED
      BY <2>1, <2>2, PrefixStays
  <1>2. Holds(NewAggregateBase)
    <2>1. TypeOK'
      BY StepTyping
    <2>2. stream' \in Seq(Stored)
      BY <2>1 DEF TypeOK
    <2>3. Len(stream') \in Nat
      BY <2>2
    <2> QED
      BY <2>3 DEF NewAggregateBase
  <1>3. \A c \in Sessions : \A b \in agg[c] :
            /\ Holds(b) <=> Holds(Loaded(b))
            /\ Holds(b) <=> Holds(Raised(c, b))
            /\ Holds(b) <=> Holds(ClearChanges(b))
    BY DEF Loaded, Raised, ClearChanges
  <1>4. ASSUME NEW c \in Sessions, NEW b \in agg[c], Len(b.applied) < Len(stream), stream' = stream
        PROVE  Holds(Applied(b, stream[Len(b.applied) + 1]))
    <2>1. b \in Aggregate /\ Holds(b)
      BY <1>1
    <2>2. b.applied \in Seq(Stored)
      BY <2>1, AggregateFields
    <2>3. stream \in Seq(Stored)
      BY DEF TypeOK
    <2> DEFINE q == Append(b.applied, stream[Len(b.applied) + 1])
    <2>4. stream[Len(b.applied) + 1] \in Stored
      BY <1>4, <2>2, <2>3, NextElement
    <2>5. /\ Len(q) = Len(b.applied) + 1
          /\ \A i \in 1..Len(b.applied) : q[i] = b.applied[i]
          /\ q[Len(b.applied) + 1] = stream[Len(b.applied) + 1]
      BY <2>2, <2>4
    <2>6. Len(q) <= Len(stream) /\ \A i \in 1..Len(q) : q[i] = stream[i]
      BY <1>4, <2>1, <2>2, <2>3, <2>5
    <2>7. Applied(b, stream[Len(b.applied) + 1]).applied = q
          /\ Applied(b, stream[Len(b.applied) + 1]).version = b.version + 1
      BY DEF Applied
    <2> HIDE DEF q
    <2> QED
      BY <1>4, <2>1, <2>5, <2>6, <2>7
  <1> SUFFICES Holds(a)
    OBVIOUS
  <1> HIDE DEF Holds
  <1>5. ASSUME NEW c \in Sessions, NEW b, Becomes(c, b), Holds(b)
        PROVE  Holds(a)
    BY <1>1, <1>5 DEF Becomes, TypeOK
  <1>6. ASSUME agg' = agg PROVE Holds(a)
    BY <1>1, <1>6
  <1>7. ASSUME NEW c \in Sessions, NewAggregate(c) PROVE Holds(a)
    BY <1>2, <1>5, <1>7 DEF NewAggregate
  <1>8. ASSUME NEW c \in Sessions, LoadNext(c) PROVE Holds(a)
    <2>1. PICK b \in agg[c] : /\ Len(b.applied) < Len(stream)
                              /\ Becomes(c, Applied(b, stream[Len(b.applied) + 1]))
      BY <1>8 DEF LoadNext
    <2>2. stream' = stream
      BY <1>8 DEF LoadNext
    <2> QED
      BY <1>4, <1>5, <2>1, <2>2
  <1>9. ASSUME NEW c \in Sessions, LoadEnds(c) PROVE Holds(a)
    <2>1. PICK b \in agg[c] : \/ agg' = [agg EXCEPT ![c] = {}]
                              \/ Becomes(c, Loaded(b))
      BY <1>9 DEF LoadEnds, NoAggregate
    <2>2. CASE agg' = [agg EXCEPT ![c] = {}]
      BY <1>1, <2>2 DEF TypeOK
    <2> QED
      BY <1>1, <1>3, <1>5, <2>1, <2>2
  <1>10. ASSUME NEW c \in Sessions, TrackChange(c) PROVE Holds(a)
    <2>1. PICK b \in agg[c] : Becomes(c, Raised(c, b))
      BY <1>10 DEF TrackChange
    <2> QED
      BY <1>1, <1>3, <1>5, <2>1
  <1>11. ASSUME NEW c \in Sessions, Save(c) PROVE Holds(a)
    <2>1. PICK b \in agg[c] : Becomes(c, ClearChanges(b))
      BY <1>11 DEF Save
    <2> QED
      BY <1>1, <1>3, <1>5, <2>1
  <1>12. ASSUME NEW c \in Sessions,
                \/ Load(c) \/ LoadUnknown(c) \/ LoadFails(c) \/ SaveRefused(c)
                \/ SaveFails(c) \/ PublishNext(c)
         PROVE  Holds(a)
    BY <1>6, <1>12 DEF Load, LoadUnknown, LoadFails, SaveRefused, SaveFails,
                       PublishNext
  <1>13. CASE ForeignAppend \/ LateAppend \/ UNCHANGED vars
    <2>1. agg' = agg
      BY <1>13 DEF ForeignAppend, LateAppend, vars
    <2> QED
      BY <1>6, <2>1
  <1>14. CASE Crash
    BY <1>14 DEF Crash
  <1>15. CASE \E c \in Sessions :
                 \/ NewAggregate(c) \/ Load(c) \/ LoadNext(c) \/ LoadEnds(c)
                 \/ LoadUnknown(c) \/ LoadFails(c)
                 \/ TrackChange(c) \/ Save(c) \/ SaveRefused(c) \/ SaveFails(c)
                 \/ PublishNext(c)
    BY <1>7, <1>8, <1>9, <1>10, <1>11, <1>12, <1>15
  <1> QED
    BY <1>13, <1>14, <1>15 DEF Next

\* A Load never leaves an aggregate with anything but the beginning of the
\* stream and as many events as its version says, however it ended.
THEOREM PrefixLoaded == Spec => []AggregateIsLoadedPrefix
  <1>1. Init => LoadedPrefix
    BY DEF Init, LoadedPrefix
  <1>2. TypeOK /\ LoadedPrefix /\ [Next]_vars => LoadedPrefix'
    BY StepPrefix
  <1>3. TypeOK /\ LoadedPrefix => AggregateIsLoadedPrefix
    <2> SUFFICES ASSUME TypeOK, LoadedPrefix, NEW s \in Sessions, NEW a \in agg[s]
                 PROVE  IsPrefix(a.applied, stream) /\ a.version = Len(a.applied)
      BY DEF AggregateIsLoadedPrefix
    <2>1. a \in Aggregate /\ stream \in Seq(Stored)
      BY DEF TypeOK
    <2>2. a.applied \in Seq(Stored)
      BY <2>1, AggregateFields
    <2>3. /\ a.version = Len(a.applied)
          /\ Len(a.applied) <= Len(stream)
          /\ \A i \in 1..Len(a.applied) : a.applied[i] = stream[i]
      BY DEF LoadedPrefix
    <2>4. SubSeq(a.applied, 1, Len(a.applied)) = SubSeq(stream, 1, Len(a.applied))
      BY <2>1, <2>2, <2>3
    <2> QED
      BY <2>3, <2>4 DEF IsPrefix
  <1> QED
    BY Typing, <1>1, <1>2, <1>3, PTL DEF Spec

-----------------------------------------------------------------------------
(* Numbers decided on and numbers given                                    *)
(*                                                                         *)
(* What is stored was raised by an aggregate whose version is part of what *)
(* the server was asked to expect: the events an aggregate keeps, those of *)
(* an append that may still arrive and those in the stream are numbered on *)
(* from one version, and none is raised while a Load changes it.           *)

\* An aggregate that is being loaded has raised nothing.
LoadsUnchanged ==
    \A s \in Sessions : pc[s] = "loading" => \A a \in agg[s] : a.changes = <<>>

\* es are events of s, raised one after the other by an aggregate at version base.
SeenInOrder(s, base, es) ==
    \A k \in 1..Len(es) : es[k].by = s /\ es[k].seen = base + k - 1

ChangesInOrder ==
    \A s \in Sessions : \A a \in agg[s] : SeenInOrder(s, a.version, a.changes)

\* What Save makes of the version of the aggregate.
Guard(s, base) == IF Passing[s] = "nil" THEN {}
                  ELSE IF Passing[s] = "original" THEN {base} ELSE {base - 1}

RequestsInOrder ==
    \A q \in late : \E s \in Sessions, base \in Nat :
        SeenInOrder(s, base, q.events) /\ q.expected = Guard(s, base)

InPlace(q) ==
    \A i \in 1..Len(q) : q[i] # Foreign =>
        /\ Passing[q[i].by] = "number" => q[i].seen = i - 1
        /\ Passing[q[i].by] = "original" => q[i].seen = i - 2

StreamInPlace == InPlace(stream)

\* The publication p names the place of its event in q.
Points(p, q) == Passing[p.event.by] # "nil" =>
                   p.version + 1 \in 1..Len(q) /\ q[p.version + 1] = p.event

PublicationsInPlace ==
    /\ \A p \in published : Points(p, stream)
    /\ \A s \in Sessions : \A k \in 1..Len(outbox[s]) :
          Points(outbox[s][k], stream)

\* Where an aggregate a session has after a step comes from.
LEMMA AggregateSteps ==
    ASSUME TypeOK, [Next]_vars, NEW s \in Sessions, NEW a \in agg'[s]
    PROVE  \/ a \in agg[s]
           \/ a = NewAggregateBase
           \/ \E b \in agg[s] :
                \/ pc[s] = "loading" /\ \E e \in Stored : a = Applied(b, e)
                \/ a = Loaded(b) \/ a = Raised(s, b) \/ a = ClearChanges(b)
  <1> DEFINE Comes(c, b) ==
        \/ b = NewAggregateBase
        \/ \E d \in agg[c] :
             \/ pc[c] = "loading" /\ \E e \in Stored : b = Applied(d, e)
             \/ b = Loaded(d) \/ b = Raised(c, d) \/ b = ClearChanges(d)
  <1> SUFFICES a \in agg[s] \/ Comes(s, a)
    OBVIOUS
  <1>1. ASSUME NEW c \in Sessions, NEW b, Becomes(c, b), Comes(c, b)
        PROVE  a \in agg[s] \/ Comes(s, a)
    <2> HIDE DEF Comes
    <2>1. (a = b /\ s = c) \/ a \in agg[s]
      BY <1>1 DEF Becomes, TypeOK
    <2> QED
      BY <1>1, <2>1
  <1>2. ASSUME NEW c \in Sessions, NewAggregate(c)
        PROVE  a \in agg[s] \/ Comes(s, a)
    BY <1>1, <1>2 DEF NewAggregate
  <1>3. ASSUME NEW c \in Sessions, LoadNext(c) PROVE a \in agg[s] \/ Comes(s, a)
    <2>1. PICK b \in agg[c] : /\ Len(b.applied) < Len(stream)
                              /\ Becomes(c, Applied(b, stream[Len(b.applied) + 1]))
      BY <1>3 DEF LoadNext
    <2>2. b \in Aggregate /\ stream \in Seq(Stored)
      BY DEF TypeOK
    <2>3. Len(b.applied) \in Nat
      <3>1. b.applied \in Seq(Stored)
        BY <2>2, AggregateFields
      <3> QED
        BY <3>1
    <2>4. stream[Len(b.applied) + 1] \in Stored
      BY <2>1, <2>2, <2>3, NextElement
    <2>5. pc[c] = "loading"
      BY <1>3 DEF LoadNext
    <2>6. Comes(c, Applied(b, stream[Len(b.applied) + 1]))
      BY <2>4, <2>5
    <2> QED
      BY <1>1, <2>1, <2>6
  <1>4. ASSUME NEW c \in Sessions, LoadEnds(c) PROVE a \in agg[s] \/ Comes(s, a)
    <2>1. PICK b \in agg[c] : \/ agg' = [agg EXCEPT ![c] = {}]
                              \/ Becomes(c, Loaded(b))
      BY <1>4 DEF LoadEnds, NoAggregate
    <2>2. CASE agg' = [agg EXCEPT ![c] = {}]
      BY <2>2 DEF TypeOK
    <2>3. CASE Becomes(c, Loaded(b))
      BY <1>1, <2>3
    <2> QED
      BY <2>1, <2>2, <2>3
  <1>5. ASSUME NEW c \in Sessions, TrackChange(c)
        PROVE  a \in agg[s] \/ Comes(s, a)
    <2>1. PICK b \in agg[c] : Becomes(c, Raised(c, b))
      BY <1>5 DEF TrackChange
    <2> QED
      BY <1>1, <2>1
  <1>6. ASSUME NEW c \in Sessions, Save(c) PROVE a \in agg[s] \/ Comes(s, a)
    <2>1. PICK b \in agg[c] : Becomes(c, ClearChanges(b))
      BY <1>6 DEF Save
    <2> QED
      BY <1>1, <2>1
  <1>7. ASSUME NEW c \in Sessions,
               \/ Load(c) \/ LoadUnknown(c) \/ LoadFails(c) \/ SaveRefused(c)
               \/ SaveFails(c) \/ PublishNext(c)
        PROVE  a \in agg[s]
    BY <1>7 DEF Load, LoadUnknown, LoadFails, SaveRefused, SaveFails, PublishNext
  <1>8. CASE ForeignAppend \/ LateAppend \/ UNCHANGED vars
    <2>1. agg' = agg
      BY <1>8 DEF ForeignAppend, LateAppend, vars
    <2> QED
      BY <2>1
  <1>9. CASE Crash
    BY <1>9 DEF Crash
  <1>10. CASE \E c \in Sessions :
                 \/ NewAggregate(c) \/ Load(c) \/ LoadNext(c) \/ LoadEnds(c)
                 \/ LoadUnknown(c) \/ LoadFails(c)
                 \/ TrackChange(c) \/ Save(c) \/ SaveRefused(c) \/ SaveFails(c)
                 \/ PublishNext(c)
    <2> HIDE DEF Comes
    <2> QED
      BY <1>2, <1>3, <1>4, <1>5, <1>6, <1>7, <1>10
  <1> QED
    BY <1>8, <1>9, <1>10 DEF Next

\* Only an aggregate without changes is loaded, and nothing is raised meanwhile.
LEMMA StepLoads == TypeOK /\ LoadsUnchanged /\ [Next]_vars => LoadsUnchanged'
  <1> SUFFICES ASSUME TypeOK, LoadsUnchanged, [Next]_vars,
                      NEW s \in Sessions, pc'[s] = "loading", NEW a \in agg'[s]
               PROVE  a.changes = <<>>
    BY DEF LoadsUnchanged
  <1>1. CASE \E c \in Sessions : Load(c)
    <2>1. PICK c \in Sessions : Load(c)
      BY <1>1
    <2>2. agg' = agg /\ agg[c] = {NewAggregateBase}
      BY <2>1 DEF Load
    <2>3. s # c => pc[s] = "loading"
      BY <2>1 DEF Load, Goes, TypeOK
    <2> QED
      BY <2>2, <2>3 DEF LoadsUnchanged, NewAggregateBase
  <1>2. CASE \E c \in Sessions : LoadNext(c)
    <2>1. PICK c \in Sessions : LoadNext(c)
      BY <1>2
    <2>2. PICK b \in agg[c] : Becomes(c, Applied(b, stream[Len(b.applied) + 1]))
      BY <2>1 DEF LoadNext
    <2>3. pc' = pc /\ pc[c] = "loading"
      BY <2>1 DEF LoadNext
    <2>4. a \in agg[s] \/ (s = c /\ a = Applied(b, stream[Len(b.applied) + 1]))
      BY <2>2 DEF Becomes, TypeOK
    <2> QED
      BY <2>3, <2>4 DEF LoadsUnchanged, Applied
  <1>3. ASSUME NEW c \in Sessions, \/ LoadEnds(c) \/ NewAggregate(c)
                                   \/ TrackChange(c) \/ Save(c)
        PROVE  a.changes = <<>>
    <2>1. pc'[c] # "loading"
      BY <1>3 DEF LoadEnds, NoAggregate, NewAggregate, TrackChange, Save, Goes, TypeOK
    <2>2. s # c
      BY <2>1
    <2>3. pc'[s] = pc[s]
      BY <1>3, <2>2 DEF LoadEnds, NoAggregate, NewAggregate, TrackChange, Save, Goes, TypeOK
    <2>4. agg'[s] = agg[s]
      BY <1>3, <2>2 DEF LoadEnds, NoAggregate, NewAggregate, TrackChange, Save, Becomes, TypeOK
    <2> QED
      BY <2>3, <2>4 DEF LoadsUnchanged
  <1>4. ASSUME NEW c \in Sessions, \/ LoadUnknown(c) \/ LoadFails(c)
                                   \/ SaveRefused(c) \/ SaveFails(c)
                                   \/ PublishNext(c)
        PROVE  a.changes = <<>>
    <2>1. agg' = agg
      BY <1>4 DEF LoadUnknown, LoadFails, SaveRefused, SaveFails, PublishNext
    <2>2. pc[s] = "loading"
      BY <1>4 DEF LoadUnknown, LoadFails, SaveRefused, SaveFails, PublishNext,
                  Goes, TypeOK
    <2> QED
      BY <2>1, <2>2 DEF LoadsUnchanged
  <1>5. CASE ForeignAppend \/ LateAppend \/ UNCHANGED vars
    <2>1. agg' = agg /\ pc' = pc
      BY <1>5 DEF ForeignAppend, LateAppend, vars
    <2> QED
      BY <2>1 DEF LoadsUnchanged
  <1>6. CASE Crash
    BY <1>6 DEF Crash
  <1>7. CASE \E c \in Sessions :
                 \/ NewAggregate(c) \/ Load(c) \/ LoadNext(c) \/ LoadEnds(c)
                 \/ LoadUnknown(c) \/ LoadFails(c)
                 \/ TrackChange(c) \/ Save(c) \/ SaveRefused(c) \/ SaveFails(c)
                 \/ PublishNext(c)
    BY <1>1, <1>2, <1>3, <1>4, <1>7
  <1> QED
    BY <1>5, <1>6, <1>7 DEF Next

\* The changes of an aggregate stay numbered on from its version.
LEMMA StepChanges ==
    TypeOK /\ LoadsUnchanged /\ ChangesInOrder /\ [Next]_vars => ChangesInOrder'
  <1> SUFFICES ASSUME TypeOK, LoadsUnchanged, ChangesInOrder, [Next]_vars,
                      NEW s \in Sessions, NEW a \in agg'[s]
               PROVE  SeenInOrder(s, a.version, a.changes)
    BY DEF ChangesInOrder
  <1>1. \A b \in agg[s] : /\ b \in Aggregate
                          /\ SeenInOrder(s, b.version, b.changes)
    BY DEF ChangesInOrder, TypeOK
  <1>2. CASE a \in agg[s]
    BY <1>1, <1>2
  <1>3. CASE a = NewAggregateBase
    BY <1>3 DEF NewAggregateBase, SeenInOrder
  <1>4. ASSUME NEW b \in agg[s], NEW e \in Stored, pc[s] = "loading",
               a = Applied(b, e)
        PROVE  SeenInOrder(s, a.version, a.changes)
    <2>1. a.changes = <<>>
      BY <1>4 DEF LoadsUnchanged, Applied
    <2> QED
      BY <2>1 DEF SeenInOrder
  <1>5. ASSUME NEW b \in agg[s], a = Loaded(b) \/ a = ClearChanges(b)
        PROVE  SeenInOrder(s, a.version, a.changes)
    <2>1. (a.changes = b.changes /\ a.version = b.version) \/ a.changes = <<>>
      BY <1>5 DEF Loaded, ClearChanges
    <2> QED
      BY <1>1, <2>1 DEF SeenInOrder
  <1>6. ASSUME NEW b \in agg[s], a = Raised(s, b)
        PROVE  SeenInOrder(s, a.version, a.changes)
    <2> DEFINE n == Len(b.changes)
    <2>1. b.changes \in Seq(Event) /\ b.version \in Nat
      BY <1>1, AggregateFields
    <2>2. n \in Nat
      BY <2>1
    <2>3. NextEvent(s, b).by = s /\ NextEvent(s, b).seen = b.version + n
      BY DEF NextEvent, CurrentVersion
    <2>4. a.version = b.version /\ a.changes = Append(b.changes, NextEvent(s, b))
      BY <1>6 DEF Raised
    <2>5. /\ Len(a.changes) = n + 1
          /\ \A k \in 1..n : a.changes[k] = b.changes[k]
          /\ a.changes[n + 1] = NextEvent(s, b)
      BY <2>1, <2>4
    <2>6. \A k \in 1..n : b.changes[k].by = s
                          /\ b.changes[k].seen = b.version + k - 1
      BY <1>1 DEF SeenInOrder
    <2> HIDE DEF n
    <2>7. \A k \in 1..(n + 1) : a.changes[k].by = s
                                /\ a.changes[k].seen = a.version + k - 1
      BY <2>1, <2>2, <2>3, <2>4, <2>5, <2>6
    <2> QED
      BY <2>5, <2>7 DEF SeenInOrder
  <1> QED
    BY <1>2, <1>3, <1>4, <1>5, <1>6, AggregateSteps

\* What Save asks the server to expect is made of the version of the aggregate.
LEMMA GuardOfVersion ==
    ASSUME NEW s \in Sessions, NEW a \in Aggregate
    PROVE  ExpectedVersion(s, a) = Guard(s, a.version)
  BY DEF ExpectedVersion, Guard, OriginalVersion

\* An append that may still arrive keeps its numbers.
LEMMA StepRequests ==
    TypeOK /\ ChangesInOrder /\ RequestsInOrder /\ [Next]_vars => RequestsInOrder'
  <1> SUFFICES ASSUME TypeOK, ChangesInOrder, RequestsInOrder, [Next]_vars
               PROVE  RequestsInOrder'
    OBVIOUS
  <1>1. ASSUME late' \subseteq late PROVE RequestsInOrder'
    BY <1>1 DEF RequestsInOrder
  <1>2. ASSUME NEW s \in Sessions, SaveFails(s) PROVE RequestsInOrder'
    <2>1. PICK a \in agg[s] :
            late' = late \cup {[expected |-> ExpectedVersion(s, a),
                                events |-> a.changes]}
      BY <1>2 DEF SaveFails
    <2>2. a \in Aggregate /\ SeenInOrder(s, a.version, a.changes)
      BY DEF TypeOK, ChangesInOrder
    <2>3. a.version \in Nat /\ ExpectedVersion(s, a) = Guard(s, a.version)
      BY <2>2, AggregateFields, GuardOfVersion
    <2> DEFINE request == [expected |-> ExpectedVersion(s, a), events |-> a.changes]
    <2>4. /\ SeenInOrder(s, a.version, request.events)
          /\ request.expected = Guard(s, a.version)
      BY <2>2, <2>3
    <2> HIDE DEF request
    <2>5. late' = late \cup {request}
      BY <2>1 DEF request
    <2> QED
      BY <2>3, <2>4, <2>5 DEF RequestsInOrder
  <1>3. CASE ForeignAppend \/ LateAppend \/ Crash \/ UNCHANGED vars
    <2>1. late' \subseteq late
      BY <1>3 DEF ForeignAppend, LateAppend, Crash, vars
    <2> QED
      BY <1>1, <2>1
  <1>4. ASSUME NEW s \in Sessions,
               \/ NewAggregate(s) \/ Load(s) \/ LoadNext(s) \/ LoadEnds(s)
               \/ LoadUnknown(s) \/ LoadFails(s) \/ TrackChange(s) \/ Save(s)
               \/ SaveRefused(s) \/ PublishNext(s)
        PROVE  RequestsInOrder'
    <2>1. late' = late
      BY <1>4 DEF NewAggregate, Load, LoadNext, LoadEnds, NoAggregate, LoadUnknown, LoadFails,
                  TrackChange, Save, SaveRefused, PublishNext
    <2> QED
      BY <1>1, <2>1
  <1> QED
    BY <1>2, <1>3, <1>4 DEF Next

\* An append the server accepts puts events where those who raised them meant,
\* or one further.
LEMMA AppendInPlace ==
    ASSUME TypeOK, StreamInPlace, NEW s \in Sessions, NEW base \in Nat,
           NEW es \in Seq(Event), SeenInOrder(s, base, es),
           es = <<>> \/ Accepted(Guard(s, base)), stream' = stream \o es
    PROVE  StreamInPlace'
  <1> DEFINE n == Len(stream)
  <1>1. stream \in Seq(Stored) /\ es \in Seq(Stored)
    <2>1. stream \in Seq(Stored)
      BY DEF TypeOK
    <2>2. es \in Seq(Stored)
      BY DEF Stored
    <2> QED
      BY <2>1, <2>2
  <1>2. n \in Nat /\ Len(es) \in Nat
    BY <1>1
  <1>3. /\ Len(stream') = n + Len(es)
        /\ \A i \in 1..n : stream'[i] = stream[i]
        /\ \A k \in 1..Len(es) : stream'[n + k] = es[k]
    BY <1>1
  <1>4. \A k \in 1..Len(es) :
            /\ es[k].by = s /\ es[k].seen = base + k - 1
            /\ Passing[s] = "number" => base = n
            /\ Passing[s] = "original" => base = n - 1
    <2>1. ASSUME NEW k \in 1..Len(es) PROVE Accepted(Guard(s, base))
      BY <2>1, <1>2
    <2>2. Accepted(Guard(s, base)) => /\ Passing[s] = "number" => base = n
                                      /\ Passing[s] = "original" => base = n - 1
      BY <1>2 DEF Accepted, Guard
    <2> QED
      BY <2>1, <2>2 DEF SeenInOrder
  <1>5. \A i \in 1..n : stream[i] # Foreign =>
            /\ Passing[stream[i].by] = "number" => stream[i].seen = i - 1
            /\ Passing[stream[i].by] = "original" => stream[i].seen = i - 2
    BY DEF StreamInPlace, InPlace
  <1> HIDE DEF n
  <1> SUFFICES ASSUME NEW i \in 1..(n + Len(es)), stream'[i] # Foreign
               PROVE  /\ Passing[stream'[i].by] = "number" =>
                            stream'[i].seen = i - 1
                      /\ Passing[stream'[i].by] = "original" =>
                            stream'[i].seen = i - 2
    BY <1>3 DEF StreamInPlace, InPlace
  <1>6. CASE i \in 1..n
    BY <1>3, <1>5, <1>6
  <1>7. CASE i \notin 1..n
    <2>1. i - n \in 1..Len(es) /\ i = n + (i - n)
      BY <1>2, <1>7
    <2>2. stream'[i] = es[i - n]
      BY <1>3, <2>1
    <2>3. /\ es[i - n].by = s /\ es[i - n].seen = base + (i - n) - 1
          /\ Passing[s] = "number" => base = n
          /\ Passing[s] = "original" => base = n - 1
      BY <1>4, <2>1
    <2>4. stream'[i].by = s /\ stream'[i].seen = base + (i - n) - 1
      BY <2>2, <2>3
    <2>5. i \in Int /\ n \in Int /\ base \in Int
      BY <1>2
    <2>6. base = n => base + (i - n) - 1 = i - 1
      BY <2>5
    <2>7. base = n - 1 => base + (i - n) - 1 = i - 2
      BY <2>5
    <2> QED
      BY <2>3, <2>4, <2>6, <2>7
  <1> QED
    BY <1>6, <1>7

\* The stream stays in place.
LEMMA StepStream ==
    /\ TypeOK /\ ChangesInOrder /\ RequestsInOrder /\ StreamInPlace /\ [Next]_vars
    => StreamInPlace'
  <1> SUFFICES ASSUME TypeOK, ChangesInOrder, RequestsInOrder, StreamInPlace,
                      [Next]_vars
               PROVE  StreamInPlace'
    OBVIOUS
  <1>1. ASSUME NEW s \in Sessions, Save(s) PROVE StreamInPlace'
    <2>1. PICK a \in agg[s] :
            /\ a.changes = <<>> \/ Accepted(ExpectedVersion(s, a))
            /\ stream' = stream \o a.changes
      BY <1>1 DEF Save
    <2>2. a \in Aggregate /\ SeenInOrder(s, a.version, a.changes)
      BY DEF TypeOK, ChangesInOrder
    <2>3. /\ a.version \in Nat /\ a.changes \in Seq(Event)
          /\ ExpectedVersion(s, a) = Guard(s, a.version)
      BY <2>2, AggregateFields, GuardOfVersion
    <2> QED
      BY <2>1, <2>2, <2>3, AppendInPlace
  <1>2. ASSUME LateAppend PROVE StreamInPlace'
    <2>1. PICK request \in late : /\ Accepted(request.expected)
                                  /\ stream' = stream \o request.events
      BY <1>2 DEF LateAppend
    <2>2. request.events \in Seq(Event)
      BY RequestFields DEF TypeOK
    <2>3. \E s \in Sessions, base \in Nat :
             SeenInOrder(s, base, request.events) /\ request.expected = Guard(s, base)
      BY DEF RequestsInOrder
    <2> QED
      BY <2>1, <2>2, <2>3, AppendInPlace
  <1>3. ASSUME ForeignAppend PROVE StreamInPlace'
    <2>1. stream \in Seq(Stored) /\ Foreign \in Stored
      BY DEF TypeOK, Stored
    <2>2. stream' = Append(stream, Foreign)
      BY <1>3 DEF ForeignAppend
    <2>3. /\ Len(stream) \in Nat /\ Len(stream') = Len(stream) + 1
          /\ \A i \in 1..Len(stream) : stream'[i] = stream[i]
          /\ stream'[Len(stream) + 1] = Foreign
      BY <2>1, <2>2
    <2> QED
      BY <2>3 DEF StreamInPlace, InPlace
  <1>4. ASSUME stream' = stream PROVE StreamInPlace'
    BY <1>4 DEF StreamInPlace, InPlace
  <1>5. ASSUME NEW s \in Sessions,
               \/ NewAggregate(s) \/ Load(s) \/ LoadNext(s) \/ LoadEnds(s)
               \/ LoadUnknown(s) \/ LoadFails(s) \/ TrackChange(s)
               \/ SaveRefused(s) \/ SaveFails(s) \/ PublishNext(s)
        PROVE  StreamInPlace'
    <2>1. stream' = stream
      BY <1>5 DEF NewAggregate, Load, LoadNext, LoadEnds, NoAggregate, LoadUnknown, LoadFails,
                  TrackChange, SaveRefused, SaveFails, PublishNext
    <2> QED
      BY <1>4, <2>1
  <1>6. CASE Crash \/ UNCHANGED vars
    <2>1. stream' = stream
      BY <1>6 DEF Crash, vars
    <2> QED
      BY <1>4, <2>1
  <1> QED
    BY <1>1, <1>2, <1>3, <1>5, <1>6 DEF Next

\* Save publishes the numbers its events are given.
LEMMA SavePoints ==
    ASSUME TypeOK, NEW s \in Sessions, NEW a \in Aggregate,
           SeenInOrder(s, a.version, a.changes),
           a.changes = <<>> \/ Accepted(ExpectedVersion(s, a)),
           stream' = stream \o a.changes,
           NEW k \in 1..Len(Versions(ExpectedVersion(s, a), a.changes))
    PROVE  Points(Versions(ExpectedVersion(s, a), a.changes)[k], stream')
  <1> DEFINE expected == ExpectedVersion(s, a)
             n == Len(stream)
             p == Versions(expected, a.changes)[k]
  <1>1. a.changes \in Seq(Event) /\ stream \in Seq(Stored)
    BY AggregateFields DEF TypeOK
  <1>2. DOMAIN Versions(expected, a.changes) = 1..Len(a.changes)
    BY <1>1 DEF Versions
  <1>3. k \in 1..Len(a.changes) /\ Len(a.changes) \in Nat /\ n \in Nat
    <2>1. Versions(expected, a.changes) \in Seq(Publication)
      BY <1>1, VersionsTyping
    <2>2. Len(Versions(expected, a.changes)) = Len(a.changes)
      BY <1>1, <1>2, <2>1
    <2> QED
      BY <1>1, <2>2
  <1>4. p.event = a.changes[k]
    BY <1>2, <1>3 DEF Versions
  <1>5. p.event.by = s
    BY <1>3, <1>4 DEF SeenInOrder
  <1>6. CASE Passing[s] = "nil"
    BY <1>5, <1>6 DEF Points
  <1>7. CASE Passing[s] # "nil"
    <2>1. PICK v \in Int : expected = {v}
      <3>1. a.version \in Int /\ a.version - 1 \in Int
        BY AggregateFields
      <3> QED
        BY <1>7, <3>1 DEF ExpectedVersion, OriginalVersion
    <2>2. Accepted(expected)
      BY <1>3
    <2>3. v = n - 1
      BY <2>1, <2>2 DEF Accepted
    <2>4. (CHOOSE w \in expected : TRUE) = v /\ expected # {}
      BY <2>1
    <2>5. p.version = v + k
      BY <1>2, <1>3, <2>4 DEF Versions
    <2>6. p.version + 1 = n + k
      BY <1>3, <2>1, <2>3, <2>5
    <2>7. Len(stream') = n + Len(a.changes) /\ stream'[n + k] = a.changes[k]
      <3>1. a.changes \in Seq(Stored)
        BY <1>1 DEF Stored
      <3> QED
        BY <1>1, <1>3, <3>1
    <2>8. p.version + 1 \in 1..Len(stream')
      BY <1>3, <2>6, <2>7
    <2> QED
      BY <1>4, <2>6, <2>7, <2>8 DEF Points
  <1> QED
    BY <1>6, <1>7

\* What has been published, or will be, stays in place.
LEMMA StepPublications ==
    /\ TypeOK /\ ChangesInOrder /\ PublicationsInPlace /\ [Next]_vars
    => PublicationsInPlace'
  <1> SUFFICES ASSUME TypeOK, ChangesInOrder, PublicationsInPlace, [Next]_vars
               PROVE  PublicationsInPlace'
    OBVIOUS
  <1>1. \A p : Points(p, stream) => Points(p, stream')
    <2>1. TypeOK'
      BY StepTyping
    <2>2. stream \in Seq(Stored) /\ stream' \in Seq(Stored)
      BY <2>1 DEF TypeOK
    <2>3. Len(stream) \in Nat /\ Len(stream') \in Nat
      BY <2>2
    <2> QED
      BY <2>3, StreamGrows DEF Points
  <1>2. ASSUME published' = published, outbox' = outbox PROVE PublicationsInPlace'
    BY <1>1, <1>2 DEF PublicationsInPlace
  <1>3. ASSUME NEW s \in Sessions, Save(s) PROVE PublicationsInPlace'
    <2>1. PICK a \in agg[s] :
            /\ a.changes = <<>> \/ Accepted(ExpectedVersion(s, a))
            /\ stream' = stream \o a.changes
            /\ outbox' = [outbox EXCEPT ![s] =
                            Versions(ExpectedVersion(s, a), a.changes)]
      BY <1>3 DEF Save
    <2>2. a \in Aggregate /\ SeenInOrder(s, a.version, a.changes)
      BY DEF TypeOK, ChangesInOrder
    <2> DEFINE q == Versions(ExpectedVersion(s, a), a.changes)
    <2>3. \A k \in 1..Len(q) : Points(q[k], stream')
      BY <2>1, <2>2, SavePoints
    <2>4. published' = published
      BY <1>3 DEF Save
    <2> HIDE DEF q
    <2>5. outbox' = [outbox EXCEPT ![s] = q]
      BY <2>1 DEF q
    <2> QED
      BY <1>1, <2>3, <2>4, <2>5 DEF PublicationsInPlace, TypeOK
  <1>4. ASSUME NEW s \in Sessions, PublishNext(s) PROVE PublicationsInPlace'
    <2>1. CASE outbox[s] = <<>>
      <3>1. published' = published /\ outbox' = outbox
        BY <1>4, <2>1 DEF PublishNext
      <3> QED
        BY <1>2, <3>1
    <2>2. CASE outbox[s] # <<>>
      <3>1. /\ published' = published \cup {Head(outbox[s])}
            /\ outbox' = [outbox EXCEPT ![s] = Tail(outbox[s])]
        BY <1>4, <2>2 DEF PublishNext
      <3>2. outbox[s] \in Seq(Publication)
        BY DEF TypeOK
      <3>3. /\ Head(outbox[s]) = outbox[s][1] /\ 1 \in 1..Len(outbox[s])
            /\ \A k \in 1..Len(Tail(outbox[s])) :
                 k + 1 \in 1..Len(outbox[s]) /\ Tail(outbox[s])[k] = outbox[s][k + 1]
        BY <2>2, <3>2, HeadAndTail
      <3>4. \A k \in 1..Len(outbox[s]) : Points(outbox[s][k], stream')
        BY <1>1 DEF PublicationsInPlace
      <3>5. Points(Head(outbox[s]), stream')
        BY <3>3, <3>4
      <3>6. \A k \in 1..Len(Tail(outbox[s])) : Points(Tail(outbox[s])[k], stream')
        BY <3>3, <3>4
      <3>7. \A c \in Sessions \ {s} : outbox'[c] = outbox[c]
        BY <3>1 DEF TypeOK
      <3>8. outbox'[s] = Tail(outbox[s])
        BY <3>1 DEF TypeOK
      <3> QED
        BY <1>1, <3>1, <3>5, <3>6, <3>7, <3>8 DEF PublicationsInPlace
    <2> QED
      BY <2>1, <2>2
  <1>5. ASSUME NEW s \in Sessions,
               \/ NewAggregate(s) \/ Load(s) \/ LoadNext(s) \/ LoadEnds(s)
               \/ LoadUnknown(s) \/ LoadFails(s) \/ TrackChange(s)
               \/ SaveRefused(s) \/ SaveFails(s)
        PROVE  PublicationsInPlace'
    <2>1. published' = published /\ outbox' = outbox
      BY <1>5 DEF NewAggregate, Load, LoadNext, LoadEnds, NoAggregate, LoadUnknown, LoadFails,
                  TrackChange, SaveRefused, SaveFails
    <2> QED
      BY <1>2, <2>1
  <1>6. CASE ForeignAppend \/ LateAppend \/ UNCHANGED vars
    <2>1. published' = published /\ outbox' = outbox
      BY <1>6 DEF ForeignAppend, LateAppend, vars
    <2> QED
      BY <1>1, <2>1 DEF PublicationsInPlace
  <1>7. CASE Crash
    <2>1. published' = published /\ \A s \in Sessions : outbox'[s] = <<>>
      BY <1>7 DEF Crash
    <2> QED
      BY <1>1, <2>1 DEF PublicationsInPlace
  <1> QED
    BY <1>3, <1>4, <1>5, <1>6, <1>7 DEF Next

\* The invariant: what is decided, sent, stored and published is numbered on
\* from the versions the aggregates had.
Numbers == /\ LoadsUnchanged /\ ChangesInOrder /\ RequestsInOrder
           /\ StreamInPlace /\ PublicationsInPlace

\* It holds of the empty server and of every step.
LEMMA NumbersAlways == Spec => []Numbers
  <1>1. Init => Numbers
    BY DEF Init, Numbers, LoadsUnchanged, ChangesInOrder, RequestsInOrder,
           StreamInPlace, InPlace, PublicationsInPlace
  <1>2. TypeOK /\ Numbers /\ [Next]_vars => Numbers'
    BY StepLoads, StepChanges, StepRequests, StepStream, StepPublications
       DEF Numbers
  <1> QED
    BY Typing, <1>1, <1>2, PTL DEF Spec

\* Sequences of the stream are counted by their domain in the properties.
LEMMA StreamDomain == TypeOK => DOMAIN stream = 1..Len(stream)
  <1> SUFFICES ASSUME TypeOK PROVE DOMAIN stream = 1..Len(stream)
    OBVIOUS
  <1>1. stream \in Seq(Stored)
    BY DEF TypeOK
  <1> QED
    BY <1>1

\* A session that expects the number of the last event it knows stores its events
\* where its aggregate put them, whatever fails, is retried or arrives late.
THEOREM DecidedNumbers == Spec => []NumberedAsDecided
  <1>1. TypeOK /\ Numbers => NumberedAsDecided
    BY StreamDomain DEF Numbers, StreamInPlace, InPlace, NumberedAsDecided, Numbered
  <1> QED
    BY Typing, NumbersAlways, <1>1, PTL

\* A session that expects OriginalVersion() stores an event only one further than
\* its aggregate put it.
THEOREM OriginalNumbers == Spec => []OriginalMissesOne
  <1>1. TypeOK /\ Numbers => OriginalMissesOne
    BY StreamDomain DEF Numbers, StreamInPlace, InPlace, OriginalMissesOne
  <1> QED
    BY Typing, NumbersAlways, <1>1, PTL

\* A session that expects a version publishes every event with the number the
\* server has given it.
THEOREM PublishedNumbers == Spec => []PublishedAsNumbered
  <1>1. TypeOK /\ Numbers => PublishedAsNumbered
    BY StreamDomain DEF Numbers, PublicationsInPlace, Points, PublishedAsNumbered,
                        StoredAt
  <1> QED
    BY Typing, NumbersAlways, <1>1, PTL

-----------------------------------------------------------------------------
(* Stored once                                                             *)
(*                                                                         *)
(* That the stream alone holds no event twice is not preserved: Save may   *)
(* store whatever an aggregate keeps.  As long as nothing fails an event   *)
(* is with the aggregate that raised it or in the stream, never both, and  *)
(* the next one is numbered beyond all of them.                            *)

\* es are different events that session s has raised and that are not stored.
Fresh(es, s) ==
    \A k \in 1..Len(es) :
        /\ es[k].no <= raised[s]
        /\ \A i \in 1..Len(stream) : stream[i] # es[k]
        /\ \A l \in 1..Len(es) : es[k] = es[l] => k = l

StoredApart ==
    \A i \in 1..Len(stream) : stream[i] # Foreign =>
        /\ stream[i].no <= raised[stream[i].by]
        /\ \A j \in 1..Len(stream) : stream[i] = stream[j] => i = j

Once ==
    failures = 0 =>
        /\ late = {}
        /\ StoredApart
        /\ \A s \in Sessions : \A a \in agg[s] : Fresh(a.changes, s)

\* No step takes back a failure or a number given to an event.
LEMMA CountersGrow ==
    ASSUME TypeOK, [Next]_vars
    PROVE  /\ failures' = 0 => failures = 0
           /\ \A s \in Sessions : raised[s] \in Nat /\ raised'[s] \in Nat
                                  /\ raised[s] <= raised'[s]
  <1>1. failures \in Nat /\ \A s \in Sessions : raised[s] \in Nat
    <2>1. failures \in 0..MaxFailures /\ \A s \in Sessions : raised[s] \in 0..MaxRaised
      BY DEF TypeOK
    <2> QED
      BY <2>1, GesAssumption
  <1>2. failures' = 0 => failures = 0
    <2>1. failures' = failures \/ failures' = failures + 1
      BY DEF Next, vars, ForeignAppend, LateAppend, Crash, NewAggregate, Load,
             LoadNext, LoadEnds, LoadUnknown, LoadFails, TrackChange, Save,
             SaveRefused, SaveFails, PublishNext
    <2> QED
      BY <1>1, <2>1
  <1>3. raised' = raised \/ \E c \in Sessions : raised' = [raised EXCEPT ![c] = @ + 1]
    BY DEF Next, vars, ForeignAppend, LateAppend, Crash, NewAggregate, Load,
           LoadNext, LoadEnds, LoadUnknown, LoadFails, TrackChange, Save,
           SaveRefused, SaveFails, PublishNext
  <1>4. \A s \in Sessions : raised'[s] = raised[s] \/ raised'[s] = raised[s] + 1
    BY <1>3 DEF TypeOK
  <1> QED
    BY <1>1, <1>2, <1>4

\* The event raised next is neither stored nor kept.
LEMMA RaisedIsFresh ==
    ASSUME TypeOK, ChangesInOrder, StoredApart, NEW s \in Sessions,
           NEW b \in agg[s], Fresh(b.changes, s),
           NEW a, a = Raised(s, b),
           raised' = [raised EXCEPT ![s] = @ + 1], stream' = stream
    PROVE  Fresh(a.changes, s)'
  <1>e. PICK e : e = NextEvent(s, b)
    OBVIOUS
  <1>s. PICK es : es = a.changes
    OBVIOUS
  <1>n. PICK n : n = Len(b.changes)
    OBVIOUS
  <1>1. b.changes \in Seq(Event) /\ n \in Nat /\ raised[s] \in Nat
    <2>1. b \in Aggregate /\ raised[s] \in 0..MaxRaised
      BY DEF TypeOK
    <2> QED
      BY <2>1, <1>n, AggregateFields, GesAssumption
  <1>0. es = Append(b.changes, e)
    BY <1>e, <1>s DEF Raised
  <1>2. /\ Len(es) = n + 1 /\ es[n + 1] = e
        /\ \A k \in 1..n : es[k] = b.changes[k]
    BY <1>0, <1>1, <1>n
  <1>3. e.by = s /\ e.no = raised[s] + 1
    BY <1>e DEF NextEvent
  <1>4. raised'[s] = raised[s] + 1
    BY DEF TypeOK
  <1>5. \A k \in 1..n : /\ es[k].no <= raised[s] /\ es[k].no \in Nat
                        /\ \A i \in 1..Len(stream) : stream[i] # es[k]
                        /\ \A l \in 1..n : es[k] = es[l] => k = l
    <2>1. \A k \in 1..n : /\ b.changes[k].no <= raised[s]
                          /\ \A i \in 1..Len(stream) : stream[i] # b.changes[k]
                          /\ \A l \in 1..n : b.changes[k] = b.changes[l] => k = l
      BY <1>n DEF Fresh
    <2>2. \A k \in 1..n : b.changes[k] \in Event
      BY <1>1, <1>n
    <2>3. \A k \in 1..n : b.changes[k].no \in Nat
      BY <2>2, EventFields
    <2> QED
      BY <1>2, <2>1, <2>3
  <1>6. \A i \in 1..Len(stream) : stream[i] # e
    <2> SUFFICES ASSUME NEW i \in 1..Len(stream), stream[i] = e PROVE FALSE
      OBVIOUS
    <2>1. e # Foreign
      BY <1>1, <1>3 DEF Foreign
    <2>2. e.no <= raised[e.by]
      BY <2>1 DEF StoredApart
    <2> QED
      BY <1>1, <1>3, <2>2
  <1>7. \A k \in 1..n : es[k] # e
    BY <1>1, <1>3, <1>5
  <1>8. \A k \in 1..(n + 1) : k \in 1..n \/ k = n + 1
    BY <1>1
  <1>9. \A k \in 1..(n + 1) : es[k].no <= raised[s] + 1
    <2>1. \A k \in 1..n : es[k].no <= raised[s] + 1
      BY <1>1, <1>5
    <2> QED
      BY <1>1, <1>2, <1>3, <1>8, <2>1
  <1>10. \A k \in 1..(n + 1) : \A i \in 1..Len(stream) : stream[i] # es[k]
    BY <1>2, <1>5, <1>6, <1>8
  <1>11. \A k, l \in 1..(n + 1) : es[k] = es[l] => k = l
    BY <1>2, <1>5, <1>7, <1>8
  <1> QED
    BY <1>2, <1>4, <1>9, <1>10, <1>11, <1>s DEF Fresh

\* Save stores events that are not in the stream, and none of them twice.
LEMMA SaveKeepsApart ==
    ASSUME TypeOK, ChangesInOrder, StoredApart, NEW s \in Sessions,
           NEW b \in agg[s], Fresh(b.changes, s),
           stream' = stream \o b.changes, raised' = raised
    PROVE  /\ StoredApart'
           /\ \A i \in 1..Len(stream') :
                \/ i \in 1..Len(stream) /\ stream'[i] = stream[i]
                \/ stream'[i].by = s
  <1> DEFINE n == Len(stream)
             es == b.changes
  <1>1. es \in Seq(Event) /\ stream \in Seq(Stored) /\ es \in Seq(Stored)
    <2>1. b \in Aggregate /\ stream \in Seq(Stored)
      BY DEF TypeOK
    <2>2. es \in Seq(Event)
      BY <2>1, AggregateFields
    <2> QED
      BY <2>1, <2>2 DEF Stored
  <1>2. n \in Nat /\ Len(es) \in Nat
    BY <1>1
  <1>3. /\ Len(stream') = n + Len(es)
        /\ \A i \in 1..n : stream'[i] = stream[i]
        /\ \A k \in 1..Len(es) : stream'[n + k] = es[k]
    BY <1>1
  <1>4. \A k \in 1..Len(es) :
            /\ es[k].by = s /\ es[k].no <= raised[s]
            /\ \A i \in 1..n : stream[i] # es[k]
            /\ \A l \in 1..Len(es) : es[k] = es[l] => k = l
    BY DEF Fresh, ChangesInOrder, SeenInOrder
  <1>5. \A i \in 1..n : stream[i] # Foreign =>
            /\ stream[i].no <= raised[stream[i].by]
            /\ \A j \in 1..n : stream[i] = stream[j] => i = j
    BY DEF StoredApart
  <1> HIDE DEF n, es
  <1>6. \A i \in 1..Len(stream') :
            i \in 1..n \/ \E k \in 1..Len(es) : i = n + k
    <2> SUFFICES ASSUME NEW i \in 1..(n + Len(es)), i \notin 1..n
                 PROVE  \E k \in 1..Len(es) : i = n + k
      BY <1>3
    <2>1. i - n \in 1..Len(es) /\ i = n + (i - n)
      BY <1>2
    <2> QED
      BY <2>1
  <1>7. ASSUME NEW i \in 1..Len(stream'), stream'[i] # Foreign
        PROVE  /\ stream'[i].no <= raised[stream'[i].by]
               /\ \A j \in 1..Len(stream') : stream'[i] = stream'[j] => i = j
    <2>1. CASE i \in 1..n
      <3>1. stream'[i] = stream[i]
        BY <1>3, <2>1
      <3>2. \A j \in 1..n : stream'[i] = stream'[j] => i = j
        BY <1>3, <1>5, <1>7, <2>1, <3>1
      <3>4. ASSUME NEW k \in 1..Len(es) PROVE stream'[i] # stream'[n + k]
        <4>1. stream'[n + k] = es[k]
          BY <1>3
        <4>2. stream[i] # es[k]
          BY <1>4, <2>1
        <4> QED
          BY <3>1, <4>1, <4>2
      <3>5. ASSUME NEW j \in 1..Len(stream'), stream'[i] = stream'[j] PROVE i = j
        <4>1. j \in 1..n \/ \E k \in 1..Len(es) : j = n + k
          BY <1>6
        <4> QED
          BY <4>1, <3>2, <3>4, <3>5
      <3> QED
        BY <1>5, <1>7, <2>1, <3>1, <3>5
    <2>2. ASSUME NEW k \in 1..Len(es), i = n + k
          PROVE  /\ stream'[i].no <= raised[stream'[i].by]
                 /\ \A j \in 1..Len(stream') : stream'[i] = stream'[j] => i = j
      <3>1. stream'[i] = es[k]
        BY <1>3, <2>2
      <3>2. \A j \in 1..n : stream'[i] # stream'[j]
        BY <1>3, <1>4, <3>1
      <3>3. ASSUME NEW l \in 1..Len(es), stream'[i] = stream'[n + l] PROVE k = l
        <4>1. stream'[n + l] = es[l]
          BY <1>3
        <4>2. es[k] = es[l]
          BY <3>1, <3>3, <4>1
        <4> QED
          BY <1>4, <4>2
      <3>4. ASSUME NEW j \in 1..Len(stream'), stream'[i] = stream'[j] PROVE i = j
        <4>1. j \in 1..n \/ \E l \in 1..Len(es) : j = n + l
          BY <1>6
        <4> QED
          BY <2>2, <4>1, <3>2, <3>3, <3>4
      <3>5. es[k].by = s /\ es[k].no <= raised[s]
        BY <1>4
      <3> QED
        BY <3>1, <3>4, <3>5
    <2> QED
      BY <1>6, <2>1, <2>2
  <1>8. StoredApart'
    BY <1>7 DEF StoredApart
  <1>9. \A i \in 1..Len(stream') :
            \/ i \in 1..n /\ stream'[i] = stream[i]
            \/ stream'[i].by = s
    <2>1. \A k \in 1..Len(es) : stream'[n + k].by = s
      BY <1>3, <1>4
    <2> QED
      BY <1>3, <1>6, <2>1
  <1> QED
    BY <1>8, <1>9 DEF n

\* Events that are kept stay apart from a stream that gets no event of theirs.
LEMMA FreshStays ==
    ASSUME TypeOK, [Next]_vars, NEW s \in Sessions, NEW es \in Seq(Event), Fresh(es, s),
           \A k \in 1..Len(es) : es[k].by = s,
           \A i \in 1..Len(stream') :
                \/ i \in 1..Len(stream) /\ stream'[i] = stream[i]
                \/ stream'[i].by # s
    PROVE  Fresh(es, s)'
  <1>1. raised[s] \in Nat /\ raised'[s] \in Nat /\ raised[s] <= raised'[s]
    BY CountersGrow
  <1>2. \A k \in 1..Len(es) : es[k].no \in Nat
    BY EventFields
  <1>3. \A k \in 1..Len(es) : \A i \in 1..Len(stream') : stream'[i] # es[k]
    BY DEF Fresh
  <1> QED
    BY <1>1, <1>2, <1>3 DEF Fresh

\* The separation survives every step.
LEMMA StepOnce == TypeOK /\ ChangesInOrder /\ Once /\ [Next]_vars => Once'
  <1> SUFFICES ASSUME TypeOK, ChangesInOrder, Once, [Next]_vars, failures' = 0
               PROVE  /\ late' = {}
                      /\ StoredApart'
                      /\ \A s \in Sessions : \A a \in agg'[s] : Fresh(a.changes, s)'
    BY DEF Once
  <1>1. /\ failures = 0 /\ late = {} /\ StoredApart
        /\ \A s \in Sessions : \A a \in agg[s] : Fresh(a.changes, s)
    BY CountersGrow DEF Once
  <1>2. ~Crash /\ ~LateAppend /\ \A s \in Sessions : ~LoadFails(s) /\ ~SaveFails(s)
    BY <1>1 DEF Crash, LateAppend, LoadFails, SaveFails
  <1>3. late' = {}
    BY <1>1, <1>2 DEF Next, vars, ForeignAppend, NewAggregate, Load, LoadNext,
           LoadEnds, LoadUnknown, TrackChange, Save, SaveRefused, PublishNext
  <1>4. \A s \in Sessions : \A a \in agg[s] :
            /\ a \in Aggregate /\ a.changes \in Seq(Event)
            /\ \A k \in 1..Len(a.changes) : a.changes[k].by = s
    BY AggregateFields DEF TypeOK, ChangesInOrder, SeenInOrder
  <1>5. ASSUME NEW s \in Sessions, NEW es, es = <<>> PROVE Fresh(es, s)'
    BY <1>5 DEF Fresh
  <1>6. ASSUME NEW s \in Sessions, TrackChange(s)
        PROVE  StoredApart' /\ \A t \in Sessions : \A a \in agg'[t] : Fresh(a.changes, t)'
    <2>1. /\ stream' = stream /\ raised' = [raised EXCEPT ![s] = @ + 1]
          /\ \E b \in agg[s] : Becomes(s, Raised(s, b))
      BY <1>6 DEF TrackChange
    <2>2. PICK b \in agg[s] : Becomes(s, Raised(s, b))
      BY <2>1
    <2>a. PICK r : r = Raised(s, b)
      OBVIOUS
    <2>3. Fresh(r.changes, s)'
      BY <1>1, <2>1, <2>a, RaisedIsFresh
    <2>4. agg'[s] = {r} /\ \A t \in Sessions \ {s} : agg'[t] = agg[t]
      BY <2>2, <2>a DEF Becomes, TypeOK
    <2>5. \A t \in Sessions \ {s} : \A a \in agg[t] : Fresh(a.changes, t)'
      BY <1>1, <1>4, <2>1, FreshStays
    <2>6. StoredApart'
      <3> SUFFICES ASSUME NEW i \in 1..Len(stream), stream[i] # Foreign
                   PROVE  stream[i].no <= raised'[stream[i].by]
        BY <1>1, <2>1 DEF StoredApart
      <3>1. stream[i] \in Stored
        <4>1. stream \in Seq(Stored)
          BY DEF TypeOK
        <4> QED
          BY <4>1
      <3>2. stream[i].by \in Sessions /\ stream[i].no \in Nat
        BY <3>1, EventFields DEF Stored
      <3>3. stream[i].no <= raised[stream[i].by]
        BY <1>1 DEF StoredApart
      <3> QED
        BY <3>2, <3>3, CountersGrow
    <2> QED
      BY <2>3, <2>4, <2>5, <2>6
  <1>7. ASSUME NEW s \in Sessions, Save(s)
        PROVE  StoredApart' /\ \A t \in Sessions : \A a \in agg'[t] : Fresh(a.changes, t)'
    <2>1. PICK b \in agg[s] : stream' = stream \o b.changes /\ Becomes(s, ClearChanges(b))
      BY <1>7 DEF Save
    <2>2. raised' = raised
      BY <1>7 DEF Save
    <2>3. /\ StoredApart'
          /\ \A i \in 1..Len(stream') :
                \/ i \in 1..Len(stream) /\ stream'[i] = stream[i]
                \/ stream'[i].by = s
      BY <1>1, <2>1, <2>2, SaveKeepsApart
    <2>4. agg'[s] = {ClearChanges(b)} /\ \A t \in Sessions \ {s} : agg'[t] = agg[t]
      BY <2>1 DEF Becomes, TypeOK
    <2>5. \A a \in agg'[s] : a.changes = <<>>
      BY <2>4 DEF ClearChanges
    <2>6. \A t \in Sessions \ {s} : \A a \in agg[t] : Fresh(a.changes, t)'
      BY <1>1, <1>4, <2>3, FreshStays
    <2> QED
      BY <1>5, <2>3, <2>4, <2>5, <2>6
  <1>8. ASSUME ForeignAppend
        PROVE  StoredApart' /\ \A t \in Sessions : \A a \in agg'[t] : Fresh(a.changes, t)'
    <2>1. stream' = Append(stream, Foreign) /\ raised' = raised /\ agg' = agg
      BY <1>8 DEF ForeignAppend
    <2>2. stream \in Seq(Stored) /\ Foreign \in Stored
      BY DEF TypeOK, Stored
    <2>3. /\ Len(stream) \in Nat /\ Len(stream') = Len(stream) + 1
          /\ \A i \in 1..Len(stream) : stream'[i] = stream[i]
          /\ stream'[Len(stream) + 1] = Foreign
      BY <2>1, <2>2
    <2>4. \A i \in 1..Len(stream') : i \in 1..Len(stream) \/ stream'[i] = Foreign
      BY <2>3
    <2>5. StoredApart'
      BY <1>1, <2>1, <2>3, <2>4 DEF StoredApart
    <2>6. \A e \in Event : e # Foreign
      BY DEF Event, Foreign
    <2>7. \A t \in Sessions : \A a \in agg[t] : Fresh(a.changes, t)'
      <3> SUFFICES ASSUME NEW t \in Sessions, NEW a \in agg[t]
                   PROVE  Fresh(a.changes, t)'
        OBVIOUS
      <3>1. Fresh(a.changes, t) /\ \A k \in 1..Len(a.changes) : a.changes[k] \in Event
        BY <1>1, <1>4
      <3> QED
        BY <2>1, <2>3, <2>4, <2>6, <3>1 DEF Fresh
    <2> QED
      BY <2>1, <2>5, <2>7
  <1>9. ASSUME stream' = stream, raised' = raised,
               \/ agg' = agg
               \/ \E s \in Sessions : \E b :
                    /\ agg' = [agg EXCEPT ![s] = {b}]
                    /\ b.changes = <<>> \/ \E d \in agg[s] : b.changes = d.changes
               \/ \E s \in Sessions : agg' = [agg EXCEPT ![s] = {}]
        PROVE  StoredApart' /\ \A t \in Sessions : \A a \in agg'[t] : Fresh(a.changes, t)'
    <2>1. ASSUME NEW t \in Sessions, NEW a \in agg'[t]
          PROVE  a \in agg[t] \/ a.changes = <<>> \/ \E d \in agg[t] : a.changes = d.changes
      <3>1. CASE agg' = agg
        BY <3>1
      <3>2. ASSUME NEW s \in Sessions, NEW b,
                   agg' = [agg EXCEPT ![s] = {b}],
                   b.changes = <<>> \/ \E d \in agg[s] : b.changes = d.changes
            PROVE  \/ a \in agg[t] \/ a.changes = <<>>
                   \/ \E d \in agg[t] : a.changes = d.changes
        <4>1. a \in agg[t] \/ (a = b /\ t = s)
          BY <3>2 DEF TypeOK
        <4> QED
          BY <3>2, <4>1
      <3>3. ASSUME NEW s \in Sessions, agg' = [agg EXCEPT ![s] = {}]
            PROVE  a \in agg[t]
        BY <3>3 DEF TypeOK
      <3> QED
        BY <1>9, <3>1, <3>2, <3>3
    <2>2. \A t \in Sessions : \A d \in agg[t] : Fresh(d.changes, t)'
      BY <1>1, <1>9 DEF Fresh
    <2>3. StoredApart'
      BY <1>1, <1>9 DEF StoredApart
    <2> QED
      BY <1>5, <2>1, <2>2, <2>3
  <1>10. ASSUME NEW s \in Sessions,
                \/ NewAggregate(s) \/ Load(s) \/ LoadNext(s) \/ LoadEnds(s)
                \/ LoadUnknown(s) \/ SaveRefused(s) \/ PublishNext(s)
         PROVE  StoredApart' /\ \A t \in Sessions : \A a \in agg'[t] : Fresh(a.changes, t)'
    <2>1. stream' = stream /\ raised' = raised
      BY <1>10 DEF NewAggregate, Load, LoadNext, LoadEnds, LoadUnknown, SaveRefused,
                   PublishNext
    <2>2. CASE NewAggregate(s)
      <3>1. /\ agg' = [agg EXCEPT ![s] = {NewAggregateBase}]
            /\ NewAggregateBase.changes = <<>>
        BY <2>2 DEF NewAggregate, Becomes, NewAggregateBase
      <3> QED
        BY <1>9, <2>1, <3>1
    <2>3. CASE LoadNext(s)
      <3>1. PICK b \in agg[s] : Becomes(s, Applied(b, stream[Len(b.applied) + 1]))
        BY <2>3 DEF LoadNext
      <3>2. PICK a : a = Applied(b, stream[Len(b.applied) + 1])
        OBVIOUS
      <3>3. agg' = [agg EXCEPT ![s] = {a}] /\ a.changes = b.changes
        BY <3>1, <3>2 DEF Becomes, Applied
      <3> QED
        BY <1>9, <2>1, <3>3
    <2>4. CASE LoadEnds(s)
      <3>1. PICK b \in agg[s] : NoAggregate(s) \/ Becomes(s, Loaded(b))
        BY <2>4 DEF LoadEnds
      <3>2. PICK a : a = Loaded(b)
        OBVIOUS
      <3>3. \/ agg' = [agg EXCEPT ![s] = {}]
            \/ agg' = [agg EXCEPT ![s] = {a}] /\ a.changes = b.changes
        BY <3>1, <3>2 DEF Becomes, Loaded, NoAggregate
      <3> QED
        BY <1>9, <2>1, <3>3
    <2>5. CASE Load(s) \/ LoadUnknown(s) \/ SaveRefused(s) \/ PublishNext(s)
      <3>1. agg' = agg
        BY <2>5 DEF Load, LoadUnknown, SaveRefused, PublishNext
      <3> QED
        BY <1>9, <2>1, <3>1
    <2> QED
      BY <1>10, <2>2, <2>3, <2>4, <2>5
  <1>11. CASE UNCHANGED vars
    <2>1. stream' = stream /\ raised' = raised /\ agg' = agg
      BY <1>11 DEF vars
    <2> QED
      BY <1>3, <1>9, <2>1
  <1> QED
    BY <1>2, <1>3, <1>6, <1>7, <1>8, <1>10, <1>11 DEF Next

\* As long as no call fails, an event is stored once, whatever Save is given and
\* however often it is called.
THEOREM RaisedStoredOnce == Spec => []StoredOnce
  <1>1. Init => Once
    BY DEF Init, Once, StoredApart
  <1>2. TypeOK /\ Numbers /\ Once /\ [Next]_vars => Once'
    BY StepOnce DEF Numbers
  <1>3. TypeOK /\ Once => StoredOnce
    BY StreamDomain DEF Once, StoredApart, StoredOnce
  <1> QED
    BY Typing, NumbersAlways, <1>1, <1>2, <1>3, PTL DEF Spec
=============================================================================
