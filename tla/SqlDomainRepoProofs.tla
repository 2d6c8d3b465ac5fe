-------------------------- MODULE SqlDomainRepoProofs --------------------------
(* Proofs about SqlDomainRepo, for any sessions, streams, handlers, event     *)
(* names and bounds: what a session that passes OriginalVersion may rely on,  *)
(* and what the handlers on the bus are given.                                *)
EXTENDS SqlDomainRepo, TLAPS

-----------------------------------------------------------------------------
(* The inductive invariant                                                   *)

\* The request Save makes for an aggregate.
RequestOf(s, a) ==
    [op |-> "append", stream |-> a.stream, ids |-> a.changes,
     expected |-> ExpectedVersion(s, a)]

\* A session has one aggregate at most, and the repository works on a request of
\* the session exactly while it saves, namely on what the aggregate still holds.
Works(s) ==
    /\ \A a, b \in aggregate[s] : a = b
    /\ pc[s] # "saving" => active[s] = {}
    /\ pc[s] = "saving" =>
          \E a \in aggregate[s] : active[s] = {RequestOf(s, a)}

Working == \A s \in Sessions : Works(s)

\* A sequence of events that session s raised, in the order it raised them.
RaisedBy(s, events) ==
    /\ \A i \in 1..Len(events) : events[i].by = s /\ events[i].no <= raised[s]
    /\ \A i, j \in 1..Len(events) : i < j => events[i].no < events[j].no

\* Changes and events to publish are the session's own, in order, and never both
\* at once; no stream holds an event that was not raised.
Ordered ==
    /\ \A s \in Sessions :
        /\ RaisedBy(s, queue[s])
        /\ \A a \in aggregate[s] :
            /\ RaisedBy(s, a.changes)
            /\ queue[s] # <<>> => a.changes = <<>>
    /\ \A x \in StreamIds : \A i \in 1..Len(log[x]) :
        log[x][i].no <= raised[log[x][i].by]

\* What a guarded session still has to save is in no stream, unless an Append
\* whose answer was lost put it there: behind the version it expects.
Unsaved ==
    \A s \in Guarded : \A a \in aggregate[s], x \in StreamIds :
        \A i \in 1..Len(log[x]), j \in 1..Len(a.changes) :
            log[x][i] = a.changes[j] => x = a.stream /\ a.version < i

\* An event of a stream.
InLog(e) == \E x \in StreamIds : \E i \in 1..Len(log[x]) : log[x][i] = e

Stored(events) == \A i \in 1..Len(events) : InLog(events[i])

\* What is published is stored; handlers still to call are subscribed.
Publishes ==
    /\ \A s \in Sessions :
        /\ Stored(queue[s])
        /\ todo[s] # {} => todo[s] \subseteq eventHandlers[queue[s][1].kind]
    /\ \A h \in Handlers : Stored(delivered[h])

\* A handler has been given only events from before those to publish, and of the
\* one under way only if it is not called any more.
Past(h, s, e) ==
    /\ \A j \in 1..Len(queue[s]) :
        \/ e.no < queue[s][j].no
        \/ /\ j = 1
           /\ e.no = queue[s][1].no
           /\ h \notin todo[s]
           /\ h \in eventHandlers[queue[s][1].kind]
    /\ \A a \in aggregate[s] : \A j \in 1..Len(a.changes) :
        e.no < a.changes[j].no

Behind ==
    \A h \in Handlers : \A i \in 1..Len(delivered[h]) :
        Past(h, delivered[h][i].by, delivered[h][i])

IInv ==
    /\ TypeOK
    /\ Working
    /\ Ordered
    /\ AggregateIsPrefix
    /\ Unsaved
    /\ RaisedOnce
    /\ Publishes
    /\ Behind
    /\ DeliveredInOrder

-----------------------------------------------------------------------------
(* Types                                                                     *)

\* An event, an aggregate and a request, field by field.
LEMMA EventFields ==
    \A e \in Event : /\ e.by \in Sessions
                     /\ e.no \in 1..MaxChanges
                     /\ e.kind \in Kinds
  BY DEF Event

\* The types of the fields of an aggregate ...
LEMMA AggregateFields ==
    \A a \in Aggregate : /\ a.stream \in StreamIds
                         /\ a.version \in Nat
                         /\ a.applied \in Seq(Event)
                         /\ a.changes \in Seq(Event)
  BY DEF Aggregate

\* ... and of a request to the log.
LEMMA RequestFields ==
    \A r \in Store!Request : /\ r.stream \in StreamIds
                             /\ r.ids \in Seq(Event)
                             /\ r.expected \in SUBSET Nat
  BY DEF Store!Request

\* What Load, TrackChange and Save make of an aggregate.
Loaded(a, p, v) == [a EXCEPT !.applied = p, !.version = v]

Tracked(a, p, c) == [a EXCEPT !.applied = p, !.changes = c]

\* What Load makes of an aggregate, field by field ...
LEMMA LoadedFields ==
    ASSUME NEW a \in Aggregate, NEW v \in Nat, NEW p \in Seq(Event)
    PROVE  /\ Loaded(a, p, v) \in Aggregate
           /\ Loaded(a, p, v).stream = a.stream
           /\ Loaded(a, p, v).version = v
           /\ Loaded(a, p, v).applied = p
           /\ Loaded(a, p, v).changes = a.changes
  BY DEF Aggregate, Loaded

\* ... what TrackChange makes of it ...
LEMMA TrackedFields ==
    ASSUME NEW a \in Aggregate, NEW p \in Seq(Event), NEW c \in Seq(Event)
    PROVE  /\ Tracked(a, p, c) \in Aggregate
           /\ Tracked(a, p, c).stream = a.stream
           /\ Tracked(a, p, c).version = a.version
           /\ Tracked(a, p, c).applied = p
           /\ Tracked(a, p, c).changes = c
  BY DEF Aggregate, Tracked

\* ... and what a Save that was answered makes of it.
LEMMA SavedFields ==
    ASSUME NEW a \in Aggregate
    PROVE  /\ Saved(a) \in Aggregate
           /\ Saved(a).stream = a.stream
           /\ Saved(a).version = a.version + Len(a.changes)
           /\ Saved(a).applied = a.applied
           /\ Saved(a).changes = <<>>
  <1> DEFINE v == CurrentVersion(a)
             c == <<>>
  <1>1. v \in Nat /\ c \in Seq(Event) /\ v = a.version + Len(a.changes)
    BY AggregateFields DEF CurrentVersion
  <1>2. Saved(a) = [a EXCEPT !.version = v, !.changes = c]
    BY DEF Saved
  <1> HIDE DEF v, c
  <1>3. LET b == [a EXCEPT !.version = v, !.changes = c]
        IN  /\ b \in Aggregate
            /\ b.stream = a.stream /\ b.version = v
            /\ b.applied = a.applied /\ b.changes = c
    BY <1>1 DEF Aggregate
  <1> QED
    BY <1>1, <1>2, <1>3 DEF c

\* The first of some events is an event, the others are a sequence again, and
\* what PublishEvent finds for the first are handlers.
LEMMA FirstAndOthers ==
    ASSUME NEW q \in Seq(Event), q # <<>>
    PROVE  /\ Len(q) \in Nat \ {0}
           /\ q[1] \in Event
           /\ Head(q) = q[1]
           /\ Tail(q) \in Seq(Event)
           /\ Len(Tail(q)) = Len(q) - 1
           /\ \A i \in 1..Len(Tail(q)) : Tail(q)[i] = q[i + 1]
  OBVIOUS

\* The handlers that are called for the first event of a queue: none if it is empty.
LEMMA SubscribedAreHandlers ==
    ASSUME eventHandlers \in [Kinds -> SUBSET Handlers], NEW q \in Seq(Event)
    PROVE  /\ Subscribed(q) \in SUBSET Handlers
           /\ Subscribed(q) # {} => q # <<>>
           /\ q # <<>> => Subscribed(q) = eventHandlers[q[1].kind]
           /\ Publishing(q) \in {"idle", "publishing"}
           /\ Publishing(q) = "publishing" <=> q # <<>>
  BY FirstAndOthers, EventFields DEF Subscribed, Publishing

\* Before anything happens.
LEMMA InitTyping == Init => TypeOK
  BY DomainAssumption DEF Init, Store!Init, TypeOK

\* The actions of the repository keep its types.
LEMMA AppendTyping ==
    ASSUME TypeOK, NEW s \in Sessions, Store!AppendBatch(s)
    PROVE  /\ log' \in [StreamIds -> Seq(Event)]
           /\ active' \in [Sessions -> SUBSET Store!Request]
  <1>1. PICK r \in active[s] : log' = [log EXCEPT ![r.stream] = @ \o r.ids]
    BY DEF Store!AppendBatch
  <1>2. active' = [active EXCEPT ![s] = {}]
    BY DEF Store!AppendBatch, Store!End
  <1>3. r.stream \in StreamIds /\ r.ids \in Seq(Event)
    BY RequestFields DEF TypeOK
  <1>4. log[r.stream] \o r.ids \in Seq(Event)
    BY <1>3 DEF TypeOK
  <1> QED
    BY <1>1, <1>2, <1>3, <1>4 DEF TypeOK

\* Types are kept from NewAggregate to the call of Save ...
LEMMA PrepareTyping ==
    ASSUME TypeOK, NEW s \in Sessions, Prepare(s)
    PROVE  TypeOK'
  <1>1. CASE NewAggregate(s)
    <2>1. \A x \in StreamIds :
             [stream |-> x, version |-> 0, applied |-> <<>>, changes |-> <<>>]
                \in Aggregate
      BY DEF Aggregate
    <2>2. aggregate' \in [Sessions -> SUBSET Aggregate]
      BY <1>1, <2>1 DEF NewAggregate, TypeOK
    <2> QED
      BY <1>1, <2>2 DEF NewAggregate, TypeOK, storeVars
  <1>2. CASE Load(s)
    <2>1. PICK a \in aggregate[s] :
             aggregate' = [aggregate EXCEPT ![s] =
                {[a EXCEPT !.applied = @ \o log[a.stream],
                           !.version = @ + Len(log[a.stream])]}]
      BY <1>2 DEF Load
    <2>2. a \in Aggregate
      BY DEF TypeOK
    <2>3. log[a.stream] \in Seq(Event)
      BY <2>2, AggregateFields DEF TypeOK
    <2>4. [a EXCEPT !.applied = @ \o log[a.stream],
                    !.version = @ + Len(log[a.stream])] \in Aggregate
      <3>1. /\ a.applied \o log[a.stream] \in Seq(Event)
            /\ a.version + Len(log[a.stream]) \in Nat
        BY <2>2, <2>3, AggregateFields
      <3> QED
        BY <2>2, <3>1, LoadedFields DEF Loaded
    <2>5. aggregate' \in [Sessions -> SUBSET Aggregate]
      BY <2>1, <2>4 DEF TypeOK
    <2> QED
      BY <1>2, <2>5 DEF Load, TypeOK, storeVars
  <1>3. CASE TrackChange(s)
    <2>1. PICK a \in aggregate[s], k \in Kinds :
             aggregate' = [aggregate EXCEPT ![s] =
                {[a EXCEPT
                    !.applied = Append(@, [by |-> s, no |-> raised[s] + 1,
                                           kind |-> k]),
                    !.changes = Append(@, [by |-> s, no |-> raised[s] + 1,
                                           kind |-> k])]}]
      BY <1>3 DEF TrackChange
    <2>2. a \in Aggregate
      BY DEF TypeOK
    <2>3. raised[s] + 1 \in 1..MaxChanges
      BY <1>3, DomainAssumption DEF TrackChange, TypeOK
    <2>4. [by |-> s, no |-> raised[s] + 1, kind |-> k] \in Event
      BY <2>3 DEF Event
    <2>5. [a EXCEPT !.applied = Append(@, [by |-> s, no |-> raised[s] + 1,
                                           kind |-> k]),
                    !.changes = Append(@, [by |-> s, no |-> raised[s] + 1,
                                           kind |-> k])] \in Aggregate
      <3>1. \A q \in Seq(Event) :
              Append(q, [by |-> s, no |-> raised[s] + 1, kind |-> k])
                \in Seq(Event)
        BY <2>4
      <3> QED
        BY <2>2, <3>1, AggregateFields, TrackedFields DEF Tracked
    <2>6. aggregate' \in [Sessions -> SUBSET Aggregate]
      BY <2>1, <2>5 DEF TypeOK
    <2>7. raised' \in [Sessions -> 0..MaxChanges]
      BY <1>3, <2>3 DEF TrackChange, TypeOK
    <2> QED
      BY <1>3, <2>6, <2>7 DEF TrackChange, TypeOK, storeVars
  <1>4. CASE Save(s)
    <2>1. PICK r \in Store!Request : active' = [active EXCEPT ![s] = {r}]
      BY <1>4 DEF Save, Store!BeginWith
    <2>2. UNCHANGED <<log, aggregate, raised, queue, todo, eventHandlers,
                      delivered>>
      BY <1>4 DEF Save, Store!BeginWith
    <2>3. active' \in [Sessions -> SUBSET Store!Request]
      BY <2>1 DEF TypeOK
    <2>4. pc' = [pc EXCEPT ![s] = "saving"] /\ pc[s] = "idle"
      BY <1>4 DEF Save
    <2> QED
      BY <2>2, <2>3, <2>4 DEF TypeOK
  <1>5. CASE SaveRejected(s)
    BY <1>5 DEF SaveRejected, Store!Reject, TypeOK
  <1> QED
    BY <1>1, <1>2, <1>3, <1>4, <1>5 DEF Prepare

\* A session that stops saving or moves on in its loop has events to publish
\* exactly if it publishes.
LEMMA QueueTyping ==
    ASSUME TypeOK, NEW s \in Sessions, NEW q \in Seq(Event),
           queue' = [queue EXCEPT ![s] = q],
           todo' = [todo EXCEPT ![s] = Subscribed(q)],
           pc' = [pc EXCEPT ![s] = Publishing(q)]
    PROVE  /\ pc' \in [Sessions -> {"idle", "saving", "publishing"}]
           /\ queue' \in [Sessions -> Seq(Event)]
           /\ todo' \in [Sessions -> SUBSET Handlers]
           /\ \A c \in Sessions : /\ pc'[c] = "publishing" <=> queue'[c] # <<>>
                                  /\ todo'[c] # {} => queue'[c] # <<>>
  BY SubscribedAreHandlers DEF TypeOK

\* ... and by the answer of Append and what Save does with it.
LEMMA FinishTyping ==
    ASSUME TypeOK, NEW s \in Sessions, Finish(s)
    PROVE  TypeOK'
  <1>1. CASE SaveCommitted(s)
    <2>1. PICK a \in aggregate[s] :
            /\ aggregate' = [aggregate EXCEPT ![s] = {Saved(a)}]
            /\ queue' = [queue EXCEPT ![s] = a.changes]
            /\ todo' = [todo EXCEPT ![s] = Subscribed(a.changes)]
            /\ pc' = [pc EXCEPT ![s] = Publishing(a.changes)]
      BY <1>1 DEF SaveCommitted, ToPublish
    <2>2. a \in Aggregate
      BY DEF TypeOK
    <2>3. Saved(a) \in Aggregate
      BY <2>2, SavedFields
    <2>4. aggregate' \in [Sessions -> SUBSET Aggregate]
      BY <2>1, <2>3 DEF TypeOK
    <2>5. Store!AppendBatch(s) /\ UNCHANGED <<raised, eventHandlers, delivered>>
      BY <1>1 DEF SaveCommitted
    <2> QED
      BY <2>1, <2>2, <2>4, <2>5, AppendTyping, QueueTyping, AggregateFields
         DEF TypeOK
  <1>2. CASE SaveFailed(s)
    <2>1. /\ log' \in [StreamIds -> Seq(Event)]
          /\ active' \in [Sessions -> SUBSET Store!Request]
      <3>1. CASE Store!AppendBatch(s)
        BY <3>1, AppendTyping
      <3>2. CASE Store!Refuse(s) \/ Store!Fail(s)
        BY <3>2 DEF Store!Refuse, Store!Fail, Store!End, TypeOK
      <3> QED
        BY <1>2, <3>1, <3>2 DEF SaveFailed
    <2>2. /\ pc[s] = "saving" /\ pc' = [pc EXCEPT ![s] = "idle"]
          /\ UNCHANGED <<aggregate, raised, queue, todo, eventHandlers, delivered>>
      BY <1>2 DEF SaveFailed
    <2> QED
      BY <2>1, <2>2 DEF TypeOK
  <1>3. CASE Deliver(s)
    <2>1. PICK h \in todo[s] :
            /\ delivered' = [delivered EXCEPT ![h] = Append(@, Head(queue[s]))]
            /\ todo' = [todo EXCEPT ![s] = @ \ {h}]
            /\ UNCHANGED <<storeVars, aggregate, raised, pc, queue,
                           eventHandlers>>
      BY <1>3 DEF Deliver
    <2>2. h \in Handlers /\ Head(queue[s]) \in Event
      BY FirstAndOthers DEF TypeOK
    <2>3. delivered' \in [Handlers -> Seq(Event)]
      BY <2>1, <2>2 DEF TypeOK
    <2>4. todo' \in [Sessions -> SUBSET Handlers]
      BY <2>1 DEF TypeOK
    <2> QED
      BY <2>1, <2>3, <2>4 DEF TypeOK, storeVars
  <1>4. CASE PublishNext(s)
    <2>1. /\ queue' = [queue EXCEPT ![s] = Tail(queue[s])]
          /\ todo' = [todo EXCEPT ![s] = Subscribed(Tail(queue[s]))]
          /\ pc' = [pc EXCEPT ![s] = Publishing(Tail(queue[s]))]
          /\ pc[s] = "publishing"
          /\ UNCHANGED <<log, active, aggregate, raised, eventHandlers, delivered>>
      BY <1>4 DEF PublishNext, storeVars, TypeOK
    <2>2. Tail(queue[s]) \in Seq(Event)
      BY <2>1, FirstAndOthers DEF TypeOK
    <2> QED
      BY <2>1, <2>2, QueueTyping DEF TypeOK
  <1> QED
    BY <1>1, <1>2, <1>3, <1>4 DEF Finish

\* Every step keeps the types.
LEMMA StepTyping ==
    ASSUME TypeOK, [Next]_vars
    PROVE  TypeOK'
  <1>1. ASSUME NEW s \in Sessions, Prepare(s) \/ Finish(s)
        PROVE  TypeOK'
    BY <1>1, PrepareTyping, FinishTyping
  <1>2. ASSUME NEW h \in Handlers, AddHandler(h)
        PROVE  TypeOK'
    <2>1. UNCHANGED <<log, active, aggregate, raised, pc, queue, delivered>>
      BY <1>2 DEF AddHandler, storeVars
    <2>2. eventHandlers' \in [Kinds -> SUBSET Handlers]
      BY <1>2 DEF AddHandler, TypeOK
    <2>3. PICK events \in SUBSET Kinds :
            \E meeting \in SUBSET {s \in Sessions : Joins(s, h, events)} :
              todo' = [s \in Sessions |-> IF s \in meeting
                                          THEN todo[s] \cup {h} ELSE todo[s]]
      BY <1>2 DEF AddHandler
    <2>4. PICK meeting \in SUBSET {s \in Sessions : Joins(s, h, events)} :
            todo' = [s \in Sessions |-> IF s \in meeting THEN todo[s] \cup {h}
                                                        ELSE todo[s]]
      BY <2>3
    <2>5. \A s \in meeting : queue[s] # <<>>
      BY <2>4 DEF Joins
    <2>6. /\ todo' \in [Sessions -> SUBSET Handlers]
          /\ \A s \in Sessions : todo'[s] # {} => queue[s] # <<>>
      BY <2>4, <2>5 DEF TypeOK
    <2> QED
      BY <2>1, <2>2, <2>6 DEF TypeOK
  <1>3. CASE Crash
    BY <1>3 DEF Crash, TypeOK
  <1>4. CASE UNCHANGED vars
    BY <1>4 DEF vars, TypeOK
  <1> QED
    BY <1>1, <1>2, <1>3, <1>4 DEF Next

\* The variables keep their types, and a session has events left to publish
\* exactly while it publishes.
THEOREM TypeCorrect == Spec => []TypeOK
  <1>1. Init => TypeOK
    BY InitTyping
  <1>2. TypeOK /\ [Next]_vars => TypeOK'
    BY StepTyping
  <1> QED
    BY <1>1, <1>2, PTL DEF Spec

-----------------------------------------------------------------------------
(* What each action does to the aggregate and the log                        *)

\* Load gives an aggregate that had applied nothing the whole stream.
LEMMA LoadEffect ==
    ASSUME TypeOK, NEW s \in Sessions, Load(s)
    PROVE  \E a \in aggregate[s], b \in Aggregate :
            /\ a.applied = <<>>
            /\ b.stream = a.stream
            /\ b.version = a.version + Len(log[a.stream])
            /\ b.applied = log[a.stream]
            /\ b.changes = a.changes
            /\ aggregate' = [aggregate EXCEPT ![s] = {b}]
  <1>1. PICK a \in aggregate[s] :
            /\ a.applied = <<>>
            /\ aggregate' = [aggregate EXCEPT ![s] =
                {[a EXCEPT !.applied = @ \o log[a.stream],
                           !.version = @ + Len(log[a.stream])]}]
    BY DEF Load
  <1>2. a \in Aggregate
    BY DEF TypeOK
  <1>3. log[a.stream] \in Seq(Event)
    BY <1>2, AggregateFields DEF TypeOK
  <1>4. /\ a.applied \o log[a.stream] = log[a.stream]
        /\ a.version + Len(log[a.stream]) \in Nat
    BY <1>1, <1>2, <1>3, AggregateFields
  <1> DEFINE p == a.applied \o log[a.stream]
             v == a.version + Len(log[a.stream])
             b == Loaded(a, p, v)
  <1>5. aggregate' = [aggregate EXCEPT ![s] = {b}]
    BY <1>1 DEF Loaded
  <1>6. /\ p \in Seq(Event) /\ p = log[a.stream]
        /\ v \in Nat /\ v = a.version + Len(log[a.stream])
    BY <1>3, <1>4
  <1> HIDE DEF p, v
  <1>7. /\ b \in Aggregate
        /\ b.stream = a.stream /\ b.version = a.version + Len(log[a.stream])
        /\ b.applied = log[a.stream] /\ b.changes = a.changes
    BY <1>2, <1>6, LoadedFields
  <1> HIDE DEF b
  <1> QED
    BY <1>1, <1>5, <1>7

\* TrackChange applies a new event of the session, and puts it behind the changes.
LEMMA TrackEffect ==
    ASSUME TypeOK, NEW s \in Sessions, TrackChange(s)
    PROVE  \E a \in aggregate[s], b \in Aggregate, e \in Event :
            /\ e.by = s /\ e.no = raised[s] + 1
            /\ b.stream = a.stream
            /\ b.version = a.version
            /\ b.applied = Append(a.applied, e)
            /\ b.changes = Append(a.changes, e)
            /\ aggregate' = [aggregate EXCEPT ![s] = {b}]
  <1>1. PICK a \in aggregate[s], k \in Kinds :
            aggregate' = [aggregate EXCEPT ![s] =
                {[a EXCEPT
                    !.applied = Append(@, [by |-> s, no |-> raised[s] + 1,
                                           kind |-> k]),
                    !.changes = Append(@, [by |-> s, no |-> raised[s] + 1,
                                           kind |-> k])]}]
    BY DEF TrackChange
  <1> DEFINE e == [by |-> s, no |-> raised[s] + 1, kind |-> k]
  <1>2. a \in Aggregate
    BY DEF TypeOK
  <1>3. raised[s] + 1 \in 1..MaxChanges
    BY DomainAssumption DEF TrackChange, TypeOK
  <1>4. e \in Event /\ e.by = s /\ e.no = raised[s] + 1
    BY <1>3 DEF Event
  <1>5. aggregate' = [aggregate EXCEPT ![s] =
            {[a EXCEPT !.applied = Append(@, e), !.changes = Append(@, e)]}]
    BY <1>1
  <1> DEFINE p == Append(a.applied, e)
             c == Append(a.changes, e)
             b == Tracked(a, p, c)
  <1>6. aggregate' = [aggregate EXCEPT ![s] = {b}]
    BY <1>5 DEF Tracked
  <1> HIDE DEF e
  <1>7. /\ p \in Seq(Event) /\ p = Append(a.applied, e)
        /\ c \in Seq(Event) /\ c = Append(a.changes, e)
    BY <1>2, <1>4, AggregateFields
  <1> HIDE DEF p, c
  <1>8. p \in Seq(Event) /\ c \in Seq(Event)
    BY <1>7
  <1>9. /\ b \in Aggregate
        /\ b.stream = a.stream /\ b.version = a.version
        /\ b.applied = p /\ b.changes = c
    BY <1>2, <1>8, TrackedFields
  <1> HIDE DEF b
  <1> QED
    BY <1>4, <1>6, <1>7, <1>9

\* Nothing but what a session saves reaches its stream, and with an expectation
\* only one event, right behind the version of the aggregate.
AppendsChanges(s) ==
    \E a \in aggregate[s] :
        /\ active[s] = {RequestOf(s, a)}
        /\ log' = [log EXCEPT ![a.stream] = @ \o a.changes]
        /\ s \in Guarded /\ a.changes # <<>> =>
              Len(a.changes) = 1 /\ Len(log[a.stream]) = a.version

\* An AppendBatch of the log, taken for a session that saves, stores its changes.
LEMMA AppendEffect ==
    ASSUME TypeOK, Working, NEW s \in Sessions, pc[s] = "saving",
           Store!AppendBatch(s)
    PROVE  AppendsChanges(s) /\ active' = [active EXCEPT ![s] = {}]
  <1>1. PICK a \in aggregate[s] : active[s] = {RequestOf(s, a)}
    BY DEF Working, Works
  <1>2. /\ \A i \in 1..Len(a.changes) :
                Store!Expects(RequestOf(s, a), Len(log[a.stream]) + i - 1)
        /\ log' = [log EXCEPT ![a.stream] = @ \o a.changes]
    <2>1. /\ RequestOf(s, a).ids = a.changes
          /\ RequestOf(s, a).stream = a.stream
      BY DEF RequestOf
    <2> QED
      BY <1>1, <2>1 DEF Store!AppendBatch
  <1>3. active' = [active EXCEPT ![s] = {}]
    BY DEF Store!AppendBatch, Store!End
  <1>4. ASSUME s \in Guarded, a.changes # <<>>
        PROVE  Len(a.changes) = 1 /\ Len(log[a.stream]) = a.version
    <2>1. a.version \in Nat /\ a.changes \in Seq(Event)
          /\ log[a.stream] \in Seq(Event)
      BY AggregateFields DEF TypeOK
    <2>2. RequestOf(s, a).expected = {a.version}
      BY <1>4 DEF RequestOf, ExpectedVersion, OriginalVersion
    <2>3. \A i \in 1..Len(a.changes) : Len(log[a.stream]) + i - 1 = a.version
      BY <1>2, <2>2 DEF Store!Expects
    <2>4. Len(a.changes) \in Nat /\ Len(a.changes) >= 1
      BY <1>4, <2>1
    <2>5. Len(log[a.stream]) \in Nat
      BY <2>1
    <2>6. Len(log[a.stream]) = a.version
      BY <2>3, <2>4, <2>5
    <2>7. ~(Len(a.changes) >= 2)
      BY <2>3, <2>4, <2>5, <2>6
    <2> DEFINE n == Len(a.changes)
    <2>8. n \in Nat /\ n >= 1 /\ ~(n >= 2)
      BY <2>4, <2>7
    <2> HIDE DEF n
    <2>9. n = 1
      BY <2>8
    <2> QED
      BY <2>6, <2>9 DEF n
  <1> QED
    BY <1>1, <1>2, <1>3, <1>4 DEF AppendsChanges

\* A Save that ends without success has appended or left the log alone.
LEMMA FailedEffect ==
    ASSUME TypeOK, Working, NEW s \in Sessions, SaveFailed(s)
    PROVE  /\ AppendsChanges(s) \/ UNCHANGED log
           /\ active' = [active EXCEPT ![s] = {}]
  <1>1. CASE Store!AppendBatch(s)
    BY <1>1, AppendEffect DEF SaveFailed
  <1>2. CASE Store!Refuse(s) \/ Store!Fail(s)
    BY <1>2 DEF Store!Refuse, Store!Fail, Store!End
  <1> QED
    BY <1>1, <1>2 DEF SaveFailed

\* A Save that is answered has stored the changes of its aggregate, in a guarded session
\* one, behind as many events as the aggregate had seen; they wait to be published.
LEMMA CommittedEffect ==
    ASSUME TypeOK, Working, NEW s \in Sessions, SaveCommitted(s)
    PROVE  \E a \in aggregate[s] :
            /\ a \in Aggregate
            /\ active[s] = {RequestOf(s, a)}
            /\ active' = [active EXCEPT ![s] = {}]
            /\ log' = [log EXCEPT ![a.stream] = @ \o a.changes]
            /\ s \in Guarded /\ a.changes # <<>> =>
                  Len(a.changes) = 1 /\ Len(log[a.stream]) = a.version
            /\ aggregate' = [aggregate EXCEPT ![s] = {Saved(a)}]
            /\ queue' = [queue EXCEPT ![s] = a.changes]
            /\ todo' = [todo EXCEPT ![s] = Subscribed(a.changes)]
            /\ pc' = [pc EXCEPT ![s] = Publishing(a.changes)]
  <1>1. PICK a \in aggregate[s] :
            /\ aggregate' = [aggregate EXCEPT ![s] = {Saved(a)}]
            /\ queue' = [queue EXCEPT ![s] = a.changes]
            /\ todo' = [todo EXCEPT ![s] = Subscribed(a.changes)]
            /\ pc' = [pc EXCEPT ![s] = Publishing(a.changes)]
    BY DEF SaveCommitted, ToPublish
  <1>2. AppendsChanges(s) /\ active' = [active EXCEPT ![s] = {}]
    BY AppendEffect DEF SaveCommitted
  <1>3. \A b \in aggregate[s] : b = a
    BY DEF Working, Works
  <1>4. a \in Aggregate
    BY DEF TypeOK
  <1> QED
    BY <1>1, <1>2, <1>3, <1>4 DEF AppendsChanges

\* Only the end of a Save changes the log, and it appends.
Extends(p, q) == Len(p) <= Len(q) /\ \A i \in 1..Len(p) : q[i] = p[i]

\* The log changes only by the changes of a session that saves.
LEMMA LogSteps ==
    ASSUME TypeOK, Working, [Next]_vars
    PROVE  \/ UNCHANGED log
           \/ \E s \in Sessions : /\ SaveCommitted(s) \/ SaveFailed(s)
                                  /\ AppendsChanges(s)
  <1>1. ASSUME NEW s \in Sessions, Prepare(s) \/ Deliver(s) \/ PublishNext(s)
        PROVE  UNCHANGED log
    BY <1>1 DEF Prepare, NewAggregate, Load, TrackChange, Save, Store!BeginWith,
                SaveRejected, Store!Reject, Deliver, PublishNext, storeVars
  <1>2. ASSUME NEW s \in Sessions, SaveCommitted(s)
        PROVE  AppendsChanges(s)
    BY <1>2, AppendEffect DEF SaveCommitted
  <1>3. ASSUME NEW h \in Handlers, AddHandler(h)
        PROVE  UNCHANGED log
    BY <1>3 DEF AddHandler, storeVars
  <1>4. Crash \/ UNCHANGED vars => UNCHANGED log
    BY DEF Crash, vars
  <1> QED
    BY <1>1, <1>2, <1>3, <1>4, FailedEffect DEF Next, Finish

\* A stream with the changes of an aggregate: what was there, and then them, and the other
\* streams as before.
LEMMA AppendedLog ==
    ASSUME TypeOK, NEW s \in Sessions, NEW a \in aggregate[s],
           log' = [log EXCEPT ![a.stream] = @ \o a.changes]
    PROVE  /\ \A x \in StreamIds \ {a.stream} : log'[x] = log[x]
           /\ log[a.stream] \in Seq(Event) /\ a.changes \in Seq(Event)
           /\ log'[a.stream] = log[a.stream] \o a.changes
           /\ Len(log'[a.stream]) = Len(log[a.stream]) + Len(a.changes)
           /\ \A i \in 1..Len(log[a.stream]) : log'[a.stream][i] = log[a.stream][i]
           /\ \A i \in 1..Len(log'[a.stream]) : i > Len(log[a.stream]) =>
                /\ i - Len(log[a.stream]) \in 1..Len(a.changes)
                /\ log'[a.stream][i] = a.changes[i - Len(log[a.stream])]
           /\ Extends(log[a.stream], log'[a.stream])
  <1>1. a.stream \in StreamIds /\ a.changes \in Seq(Event)
    BY AggregateFields DEF TypeOK
  <1>2. log[a.stream] \in Seq(Event)
    BY <1>1 DEF TypeOK
  <1>3. /\ \A x \in StreamIds \ {a.stream} : log'[x] = log[x]
        /\ log'[a.stream] = log[a.stream] \o a.changes
    BY <1>1 DEF TypeOK
  <1>4. ASSUME NEW p \in Seq(Event), NEW q \in Seq(Event)
        PROVE  /\ Len(p \o q) = Len(p) + Len(q)
               /\ \A i \in 1..Len(p) : (p \o q)[i] = p[i]
               /\ \A i \in 1..Len(p \o q) : i > Len(p) =>
                    i - Len(p) \in 1..Len(q) /\ (p \o q)[i] = q[i - Len(p)]
    OBVIOUS
  <1> DEFINE p == log[a.stream]
             q == a.changes
             r == log'[a.stream]
  <1>5. /\ Len(p \o q) = Len(p) + Len(q)
        /\ \A i \in 1..Len(p) : (p \o q)[i] = p[i]
        /\ \A i \in 1..Len(p \o q) : i > Len(p) =>
              i - Len(p) \in 1..Len(q) /\ (p \o q)[i] = q[i - Len(p)]
    BY <1>1, <1>2, <1>4
  <1> HIDE DEF p, q, r
  <1>6. r = p \o q
    BY <1>3 DEF p, q, r
  <1>7. /\ Len(r) = Len(p) + Len(q)
        /\ \A i \in 1..Len(p) : r[i] = p[i]
        /\ \A i \in 1..Len(r) : i > Len(p) =>
              i - Len(p) \in 1..Len(q) /\ r[i] = q[i - Len(p)]
    BY <1>5, <1>6
  <1>8. Len(p) \in Nat /\ Len(q) \in Nat
    BY <1>1, <1>2 DEF p, q
  <1>9. Extends(p, r)
    BY <1>7, <1>8 DEF Extends
  <1> QED
    BY <1>1, <1>2, <1>3, <1>7, <1>9 DEF p, q, r

\* No stream loses or changes what it has.
LEMMA LogGrows ==
    ASSUME TypeOK, Working, [Next]_vars, NEW x \in StreamIds
    PROVE  Extends(log[x], log'[x])
  <1>1. log[x] \in Seq(Event)
    BY DEF TypeOK
  <1>2. CASE UNCHANGED log
    BY <1>1, <1>2 DEF Extends
  <1>3. ASSUME NEW s \in Sessions, AppendsChanges(s)
        PROVE  Extends(log[x], log'[x])
    <2>1. PICK a \in aggregate[s] : log' = [log EXCEPT ![a.stream] = @ \o a.changes]
      BY <1>3 DEF AppendsChanges
    <2>2. CASE x # a.stream
      BY <1>1, <2>1, <2>2, AppendedLog DEF Extends
    <2>3. CASE x = a.stream
      BY <2>1, <2>3, AppendedLog
    <2> QED
      BY <2>2, <2>3
  <1> QED
    BY <1>2, <1>3, LogSteps

-----------------------------------------------------------------------------
(* Requests                                                                  *)

\* A step of one session leaves the others' requests as they are.
LEMMA OthersWork ==
    ASSUME Working, NEW s \in Sessions, Works(s)',
           \A c \in Sessions \ {s} : /\ aggregate'[c] = aggregate[c]
                                     /\ active'[c] = active[c]
                                     /\ pc'[c] = pc[c]
    PROVE  Working'
  <1>1. ASSUME NEW c \in Sessions \ {s}
        PROVE  Works(c)'
    BY <1>1 DEF Working, Works, RequestOf, ExpectedVersion, OriginalVersion
  <1> QED
    BY <1>1 DEF Working

\* A session's request is the one its aggregate makes, through every step.
LEMMA StepWorking ==
    ASSUME TypeOK, Working, [Next]_vars
    PROVE  Working'
  <1>1. ASSUME NEW s \in Sessions, NewAggregate(s)
        PROVE  Working'
    <2>1. PICK b : aggregate' = [aggregate EXCEPT ![s] = {b}]
      BY <1>1 DEF NewAggregate
    <2>2. UNCHANGED <<pc, active>> /\ pc[s] = "idle"
      BY <1>1 DEF NewAggregate, storeVars
    <2> QED
      BY <2>1, <2>2 DEF TypeOK, Working, Works, RequestOf, ExpectedVersion
  <1>2. ASSUME NEW s \in Sessions, Load(s)
        PROVE  Working'
    <2>1. PICK b : aggregate' = [aggregate EXCEPT ![s] = {b}]
      BY <1>2, LoadEffect
    <2>2. UNCHANGED <<pc, active>> /\ pc[s] = "idle"
      BY <1>2 DEF Load, storeVars
    <2> QED
      BY <2>1, <2>2 DEF TypeOK, Working, Works, RequestOf, ExpectedVersion
  <1>3. ASSUME NEW s \in Sessions, TrackChange(s)
        PROVE  Working'
    <2>1. PICK b : aggregate' = [aggregate EXCEPT ![s] = {b}]
      BY <1>3, TrackEffect
    <2>2. UNCHANGED <<pc, active>> /\ pc[s] = "idle"
      BY <1>3 DEF TrackChange, storeVars
    <2> QED
      BY <2>1, <2>2 DEF TypeOK, Working, Works, RequestOf, ExpectedVersion
  <1>4. ASSUME NEW s \in Sessions, Save(s)
        PROVE  Working'
    <2>1. PICK a \in aggregate[s] : active' = [active EXCEPT ![s] = {RequestOf(s, a)}]
      BY <1>4 DEF Save, Store!BeginWith, RequestOf
    <2>2. UNCHANGED aggregate /\ pc' = [pc EXCEPT ![s] = "saving"]
      BY <1>4 DEF Save
    <2>3. aggregate' = aggregate /\ active'[s] = {RequestOf(s, a)}
          /\ pc'[s] = "saving"
      BY <2>1, <2>2 DEF TypeOK
    <2>4. RequestOf(s, a)' = RequestOf(s, a)
      BY DEF RequestOf, ExpectedVersion, OriginalVersion
    <2>5. Works(s)'
      BY <2>3, <2>4 DEF Working, Works
    <2>6. \A c \in Sessions \ {s} : active'[c] = active[c] /\ pc'[c] = pc[c]
      BY <2>1, <2>2 DEF TypeOK
    <2> QED
      BY <2>3, <2>5, <2>6, OthersWork
  <1>5. ASSUME NEW s \in Sessions, SaveCommitted(s)
        PROVE  Working'
    <2>1. PICK a \in aggregate[s] :
            /\ active' = [active EXCEPT ![s] = {}]
            /\ aggregate' = [aggregate EXCEPT ![s] = {Saved(a)}]
            /\ pc' = [pc EXCEPT ![s] = Publishing(a.changes)]
      BY <1>5, CommittedEffect
    <2>2. Publishing(a.changes) # "saving"
      BY DEF Publishing
    <2>3. /\ aggregate'[s] = {Saved(a)} /\ active'[s] = {}
          /\ pc'[s] # "saving"
      BY <2>1, <2>2 DEF TypeOK
    <2>4. Works(s)'
      BY <2>3 DEF Works
    <2>5. \A c \in Sessions \ {s} : /\ active'[c] = active[c] /\ pc'[c] = pc[c]
                                     /\ aggregate'[c] = aggregate[c]
      BY <2>1 DEF TypeOK
    <2> QED
      BY <2>4, <2>5, OthersWork
  <1>6. ASSUME NEW s \in Sessions, SaveFailed(s)
        PROVE  Working'
    <2>1. /\ active' = [active EXCEPT ![s] = {}]
          /\ pc' = [pc EXCEPT ![s] = "idle"]
          /\ UNCHANGED aggregate
      BY <1>6, FailedEffect DEF SaveFailed
    <2> QED
      BY <2>1 DEF TypeOK, Working, Works, RequestOf, ExpectedVersion
  <1>7. ASSUME NEW s \in Sessions, PublishNext(s)
        PROVE  Working'
    <2>1. /\ UNCHANGED <<active, aggregate>>
          /\ pc' = [pc EXCEPT ![s] = Publishing(Tail(queue[s]))]
          /\ pc[s] = "publishing"
      BY <1>7 DEF PublishNext, storeVars
    <2>2. Publishing(Tail(queue[s])) # "saving"
      BY DEF Publishing
    <2> QED
      BY <2>1, <2>2 DEF TypeOK, Working, Works, RequestOf, ExpectedVersion
  <1>8. CASE UNCHANGED <<active, aggregate, pc>>
    BY <1>8 DEF Working, Works, RequestOf, ExpectedVersion
  <1>9. ASSUME NEW s \in Sessions, SaveRejected(s) \/ Deliver(s)
        PROVE  UNCHANGED <<active, aggregate, pc>>
    BY <1>9 DEF SaveRejected, Store!Reject, Deliver, storeVars
  <1>10. ASSUME NEW h \in Handlers, AddHandler(h)
         PROVE  UNCHANGED <<active, aggregate, pc>>
    BY <1>10 DEF AddHandler, storeVars
  <1>11. CASE Crash
    BY <1>11 DEF Crash, Working, Works
  <1>12. UNCHANGED vars => UNCHANGED <<active, aggregate, pc>>
    BY DEF vars
  <1> QED
    BY <1>1, <1>2, <1>3, <1>4, <1>5, <1>6, <1>7, <1>8, <1>9, <1>10, <1>11, <1>12
       DEF Next, Prepare, Finish

-----------------------------------------------------------------------------
(* Order                                                                     *)

\* A session raises its next event with a larger number, and appending it keeps
\* the order.
LEMMA RaisedMore ==
    ASSUME TypeOK, NEW s \in Sessions, NEW q \in Seq(Event), RaisedBy(s, q),
           NEW e \in Event, e.by = s, e.no = raised[s] + 1,
           raised' = [raised EXCEPT ![s] = @ + 1]
    PROVE  RaisedBy(s, Append(q, e))'
  <1> DEFINE r == Append(q, e)
  <1>1. /\ Len(q) \in Nat /\ Len(r) = Len(q) + 1
        /\ \A i \in 1..Len(r) : r[i] = IF i = Len(q) + 1 THEN e ELSE q[i]
    OBVIOUS
  <1>2. raised'[s] = raised[s] + 1 /\ raised[s] \in Nat
    BY DomainAssumption DEF TypeOK
  <1>3. \A i \in 1..Len(q) : q[i].no \in Nat
    BY EventFields
  <1> HIDE DEF r
  <1>4. \A i \in 1..Len(r) : r[i].by = s /\ r[i].no <= raised'[s]
    BY <1>1, <1>2, <1>3 DEF RaisedBy
  <1>5. \A i, j \in 1..Len(r) : i < j => r[i].no < r[j].no
    BY <1>1, <1>2, <1>3 DEF RaisedBy
  <1> QED
    BY <1>4, <1>5 DEF RaisedBy, r

\* Raising an event does not disturb what other events rely on.
LEMMA RaisedStill ==
    ASSUME TypeOK, NEW s \in Sessions, raised' = [raised EXCEPT ![s] = @ + 1],
           NEW c \in Sessions, NEW q \in Seq(Event), RaisedBy(c, q)
    PROVE  RaisedBy(c, q)' /\ raised[c] <= raised'[c]
  <1>1. /\ raised[c] \in Nat /\ raised'[c] \in Nat
        /\ raised[c] <= raised'[c]
    BY DomainAssumption DEF TypeOK
  <1>2. \A i \in 1..Len(q) : q[i].no \in Nat
    BY EventFields
  <1> QED
    BY <1>1, <1>2 DEF RaisedBy

\* Changes and events to publish stay the session's own, in order, and never both at once.
LEMMA StepOrdered ==
    ASSUME TypeOK, Working, Ordered, [Next]_vars
    PROVE  Ordered'
  <1> DEFINE Logged == \A x \in StreamIds : \A i \in 1..Len(log[x]) :
                log[x][i].no <= raised[log[x][i].by]
             Own(s) == /\ RaisedBy(s, queue[s])
                       /\ \A a \in aggregate[s] :
                            /\ RaisedBy(s, a.changes)
                            /\ queue[s] # <<>> => a.changes = <<>>
  <1>1. Logged /\ \A s \in Sessions : Own(s)
    BY DEF Ordered
  <1>2. TypeOK'
    BY StepTyping
  \* the logs
  <1>3. Logged'
    <2>1. CASE UNCHANGED <<log, raised>>
      BY <1>1, <2>1
    <2>2. ASSUME NEW s \in Sessions, TrackChange(s)
          PROVE  Logged'
      <3>1. /\ raised' = [raised EXCEPT ![s] = @ + 1]
            /\ UNCHANGED log
        BY <2>2 DEF TrackChange, storeVars
      <3>2. ASSUME NEW x \in StreamIds, NEW i \in 1..Len(log[x])
            PROVE  log[x][i].no <= raised'[log[x][i].by]
        <4>1. log[x][i] \in Event
          BY <3>2 DEF TypeOK
        <4>2. /\ log[x][i].no \in Nat /\ log[x][i].by \in Sessions
              /\ log[x][i].no <= raised[log[x][i].by]
          BY <1>1, <4>1, EventFields
        <4>3. /\ raised[log[x][i].by] \in Nat
              /\ raised'[log[x][i].by] \in Nat
              /\ raised[log[x][i].by] <= raised'[log[x][i].by]
          BY <3>1, <4>2, DomainAssumption DEF TypeOK
        <4> QED
          BY <4>2, <4>3
      <3> QED
        BY <3>1, <3>2
    <2>3. ASSUME NEW s \in Sessions, AppendsChanges(s), UNCHANGED raised
          PROVE  Logged'
      <3>1. PICK a \in aggregate[s] : log' = [log EXCEPT ![a.stream] = @ \o a.changes]
        BY <2>3 DEF AppendsChanges
      <3>2. \A j \in 1..Len(a.changes) :
                a.changes[j].no <= raised[a.changes[j].by]
        BY <1>1 DEF RaisedBy
      <3>3. ASSUME NEW x \in StreamIds, NEW i \in 1..Len(log'[x])
            PROVE  log'[x][i].no <= raised[log'[x][i].by]
        <4>1. CASE x # a.stream
          BY <1>1, <3>1, <4>1, AppendedLog
        <4>2. CASE x = a.stream /\ i > Len(log[a.stream])
          <5> DEFINE j == i - Len(log[a.stream])
          <5>1. i \in 1..Len(log'[a.stream])
            BY <4>2
          <5>2. j \in 1..Len(a.changes) /\ log'[a.stream][i] = a.changes[j]
            BY <3>1, <4>2, <5>1, AppendedLog
          <5> HIDE DEF j
          <5> QED
            BY <3>2, <4>2, <5>2
        <4>3. CASE x = a.stream /\ ~(i > Len(log[a.stream]))
          <5>1. i \in 1..Len(log[a.stream])
            BY <3>1, <4>3, AppendedLog
          <5>2. log'[x][i] = log[x][i]
            BY <3>1, <4>3, <5>1, AppendedLog
          <5> QED
            BY <1>1, <4>3, <5>1, <5>2
        <4> QED
          BY <4>1, <4>2, <4>3
      <3> QED
        BY <2>3, <3>3
    <2>4. ASSUME NEW s \in Sessions, SaveCommitted(s) \/ SaveFailed(s)
          PROVE  UNCHANGED raised
      BY <2>4 DEF SaveCommitted, SaveFailed
    <2>5. \/ UNCHANGED raised
          \/ \E s \in Sessions : TrackChange(s)
      <3>1. ASSUME NEW s \in Sessions, Finish(s)
            PROVE  UNCHANGED raised
        BY <3>1 DEF Finish, SaveCommitted, SaveFailed, Deliver, PublishNext
      <3>2. ASSUME NEW s \in Sessions, Prepare(s)
            PROVE  UNCHANGED raised \/ TrackChange(s)
        BY <3>2 DEF Prepare, NewAggregate, Load, Save, SaveRejected
      <3>3. ASSUME NEW h \in Handlers, AddHandler(h)
            PROVE  UNCHANGED raised
        BY <3>3 DEF AddHandler
      <3> QED
        BY <3>1, <3>2, <3>3 DEF Next, Crash, vars
    <2> QED
      BY <2>1, <2>2, <2>3, <2>4, <2>5, LogSteps
  \* what a session holds
  <1>4. ASSUME NEW s \in Sessions, NewAggregate(s)
        PROVE  \A c \in Sessions : Own(c)'
    <2>1. PICK b : /\ aggregate' = [aggregate EXCEPT ![s] = {b}]
                   /\ b.changes = <<>>
      <3>1. PICK x \in StreamIds :
              aggregate' = [aggregate EXCEPT ![s] =
                {[stream |-> x, version |-> 0, applied |-> <<>>,
                  changes |-> <<>>]}]
        BY <1>4 DEF NewAggregate
      <3> DEFINE b == [stream |-> x, version |-> 0, applied |-> <<>>,
                       changes |-> <<>>]
      <3>2. b.changes = <<>> /\ aggregate' = [aggregate EXCEPT ![s] = {b}]
        BY <3>1
      <3> QED
        BY <3>2
    <2>2. UNCHANGED <<raised, queue>>
      BY <1>4 DEF NewAggregate
    <2>3. RaisedBy(s, <<>>)'
      BY DEF RaisedBy
    <2>4. \A c \in Sessions : \A q : RaisedBy(c, q) => RaisedBy(c, q)'
      BY <2>2 DEF RaisedBy
    <2>5. aggregate'[s] = {b} /\ \A c \in Sessions \ {s} : aggregate'[c] = aggregate[c]
      BY <2>1 DEF TypeOK
    <2> QED
      BY <1>1, <2>1, <2>2, <2>3, <2>4, <2>5
  <1>5. ASSUME NEW s \in Sessions, Load(s)
        PROVE  \A c \in Sessions : Own(c)'
    <2>1. PICK a \in aggregate[s], b \in Aggregate :
            /\ b.changes = a.changes
            /\ aggregate' = [aggregate EXCEPT ![s] = {b}]
      BY <1>5, LoadEffect
    <2>2. UNCHANGED <<raised, queue>>
      BY <1>5 DEF Load
    <2>3. \A c \in Sessions : \A q : RaisedBy(c, q) => RaisedBy(c, q)'
      BY <2>2 DEF RaisedBy
    <2>4. aggregate'[s] = {b} /\ \A c \in Sessions \ {s} : aggregate'[c] = aggregate[c]
      BY <2>1 DEF TypeOK
    <2> QED
      BY <1>1, <2>1, <2>2, <2>3, <2>4
  <1>6. ASSUME NEW s \in Sessions, TrackChange(s)
        PROVE  \A c \in Sessions : Own(c)'
    <2>1. PICK a \in aggregate[s], b \in Aggregate, e \in Event :
            /\ e.by = s /\ e.no = raised[s] + 1
            /\ b.changes = Append(a.changes, e)
            /\ aggregate' = [aggregate EXCEPT ![s] = {b}]
      BY <1>6, TrackEffect
    <2>2. /\ raised' = [raised EXCEPT ![s] = @ + 1]
          /\ UNCHANGED queue /\ pc[s] = "idle"
      BY <1>6 DEF TrackChange
    <2>3. aggregate'[s] = {b} /\ \A c \in Sessions \ {s} : aggregate'[c] = aggregate[c]
      BY <2>1 DEF TypeOK
    <2>4. a.changes \in Seq(Event)
      BY AggregateFields DEF TypeOK
    <2>5. RaisedBy(s, b.changes)'
      <3>1. RaisedBy(s, a.changes)
        BY <1>1
      <3>2. RaisedBy(s, Append(a.changes, e))'
        BY <2>1, <2>2, <2>4, <3>1, RaisedMore
      <3> QED
        BY <2>1, <3>2 DEF RaisedBy
    <2>6. queue[s] = <<>>
      BY <2>2 DEF TypeOK
    <2>7. \A c \in Sessions : \A q \in Seq(Event) : RaisedBy(c, q) => RaisedBy(c, q)'
      BY <2>2, RaisedStill
    <2>8. \A c \in Sessions : /\ queue[c] \in Seq(Event)
                              /\ \A d \in aggregate[c] : d.changes \in Seq(Event)
      BY AggregateFields DEF TypeOK
    <2>9. \A c \in Sessions : RaisedBy(c, queue[c])'
      <3>1. \A c \in Sessions : RaisedBy(c, queue[c])
        BY <1>1
      <3> QED
        BY <2>2, <2>7, <2>8, <3>1 DEF RaisedBy
    <2>10. ASSUME NEW c \in Sessions \ {s}, NEW d \in aggregate[c]
           PROVE  /\ RaisedBy(c, d.changes)'
                  /\ queue'[c] # <<>> => d.changes = <<>>
      BY <1>1, <2>2, <2>7, <2>8, <2>10
    <2> QED
      BY <2>2, <2>3, <2>5, <2>6, <2>9, <2>10
  <1>7. ASSUME NEW s \in Sessions, SaveCommitted(s)
        PROVE  \A c \in Sessions : Own(c)'
    <2>1. PICK a \in aggregate[s] :
            /\ a \in Aggregate
            /\ aggregate' = [aggregate EXCEPT ![s] = {Saved(a)}]
            /\ queue' = [queue EXCEPT ![s] = a.changes]
      BY <1>7, CommittedEffect
    <2>2. UNCHANGED raised
      BY <1>7 DEF SaveCommitted
    <2>3. \A c \in Sessions : \A q : RaisedBy(c, q) => RaisedBy(c, q)'
      BY <2>2 DEF RaisedBy
    <2>4. /\ aggregate'[s] = {Saved(a)} /\ queue'[s] = a.changes
          /\ \A c \in Sessions \ {s} : aggregate'[c] = aggregate[c]
                                     /\ queue'[c] = queue[c]
      BY <2>1 DEF TypeOK
    <2>5. Saved(a).changes = <<>> /\ RaisedBy(s, <<>>)'
      BY <2>1, SavedFields DEF RaisedBy
    <2>6. RaisedBy(s, a.changes)'
      BY <1>1, <2>3
    <2>7. Own(s)'
      <3>1. RaisedBy(s, queue[s])'
        BY <2>4, <2>6 DEF RaisedBy
      <3>2. ASSUME NEW d \in aggregate'[s]
            PROVE  RaisedBy(s, d.changes)' /\ d.changes = <<>>
        <4>1. d.changes = <<>>
          BY <2>4, <2>5
        <4> QED
          BY <4>1 DEF RaisedBy
      <3> QED
        BY <3>1, <3>2
    <2>8. ASSUME NEW c \in Sessions \ {s}
          PROVE  Own(c)'
      <3>1. RaisedBy(c, queue[c])'
        BY <1>1, <2>3, <2>4 DEF RaisedBy
      <3>2. \A d \in aggregate'[c] : RaisedBy(c, d.changes)'
        BY <1>1, <2>3, <2>4
      <3> QED
        BY <1>1, <2>4, <3>1, <3>2
    <2> QED
      BY <2>7, <2>8
  <1>8. ASSUME NEW s \in Sessions, PublishNext(s)
        PROVE  \A c \in Sessions : Own(c)'
    <2>1. /\ queue' = [queue EXCEPT ![s] = Tail(queue[s])]
          /\ UNCHANGED <<aggregate, raised>>
          /\ queue[s] # <<>>
      BY <1>8 DEF PublishNext, TypeOK
    <2>2. \A c \in Sessions : \A q : RaisedBy(c, q) => RaisedBy(c, q)'
      BY <2>1 DEF RaisedBy
    <2>3. RaisedBy(s, Tail(queue[s]))
      <3>1. /\ Len(Tail(queue[s])) = Len(queue[s]) - 1
            /\ Len(queue[s]) \in Nat
            /\ \A i \in 1..Len(Tail(queue[s])) : Tail(queue[s])[i] = queue[s][i + 1]
        BY <2>1, FirstAndOthers DEF TypeOK
      <3>2. RaisedBy(s, queue[s])
        BY <1>1
      <3> DEFINE r == Tail(queue[s])
                 q == queue[s]
      <3>3. /\ \A i \in 1..Len(r) : i + 1 \in 1..Len(q) /\ r[i] = q[i + 1]
            /\ \A i, j \in 1..Len(r) : i < j => i + 1 < j + 1
        BY <3>1
      <3>4. /\ \A i \in 1..Len(q) : q[i].by = s /\ q[i].no <= raised[s]
            /\ \A i, j \in 1..Len(q) : i < j => q[i].no < q[j].no
        BY <3>2 DEF RaisedBy
      <3> HIDE DEF r, q
      <3>5. RaisedBy(s, r)
        BY <3>3, <3>4 DEF RaisedBy
      <3> QED
        BY <3>5 DEF r
    <2>4. /\ queue'[s] = Tail(queue[s])
          /\ \A c \in Sessions \ {s} : queue'[c] = queue[c]
      BY <2>1 DEF TypeOK
    <2>5. ASSUME NEW c \in Sessions
          PROVE  RaisedBy(c, queue[c])'
      <3>1. CASE c = s
        BY <2>1, <2>3, <2>4, <3>1 DEF RaisedBy
      <3>2. CASE c # s
        BY <1>1, <2>2, <2>4, <3>2 DEF RaisedBy
      <3> QED
        BY <3>1, <3>2
    <2>6. \A c \in Sessions : \A d \in aggregate[c] : RaisedBy(c, d.changes)'
      BY <1>1, <2>2
    <2> QED
      BY <1>1, <2>1, <2>4, <2>5, <2>6
  <1>9. CASE UNCHANGED <<aggregate, raised, queue>>
    <2>1. \A c \in Sessions : \A q : RaisedBy(c, q) => RaisedBy(c, q)'
      BY <1>9 DEF RaisedBy
    <2>2. \A c \in Sessions : RaisedBy(c, queue[c])'
      BY <1>1, <1>9 DEF RaisedBy
    <2>3. \A c \in Sessions : Own(c)'
      BY <1>1, <1>9, <2>1, <2>2
    <2> QED
      BY <1>3, <2>3 DEF Ordered
  <1>10. ASSUME NEW s \in Sessions,
               Save(s) \/ SaveRejected(s) \/ SaveFailed(s) \/ Deliver(s)
         PROVE  UNCHANGED <<aggregate, raised, queue>>
    BY <1>10 DEF Save, SaveRejected, SaveFailed, Deliver
  <1>11. ASSUME NEW h \in Handlers, AddHandler(h)
         PROVE  UNCHANGED <<aggregate, raised, queue>>
    BY <1>11 DEF AddHandler
  <1>12. ASSUME Crash
         PROVE  \A c \in Sessions : Own(c)'
    BY <1>12 DEF Crash, RaisedBy
  <1>13. UNCHANGED vars => UNCHANGED <<aggregate, raised, queue>>
    BY DEF vars
  <1>14. (\A c \in Sessions : Own(c)') => Ordered'
    BY <1>3 DEF Ordered
  <1> QED
    BY <1>4, <1>5, <1>6, <1>7, <1>8, <1>9, <1>10, <1>11, <1>12, <1>13, <1>14
       DEF Next, Prepare, Finish

-----------------------------------------------------------------------------
(* Prefixes                                                                  *)

\* What is known of the beginning of a log survives what is appended to it.
LEMMA PrefixStays ==
    ASSUME NEW S, NEW p \in Seq(S), NEW q \in Seq(S), Extends(p, q),
           NEW n \in Nat, n <= Len(p)
    PROVE  n <= Len(q) /\ SubSeq(q, 1, n) = SubSeq(p, 1, n)
  <1>1. Len(p) \in Nat /\ Len(q) \in Nat /\ n <= Len(q)
    BY DEF Extends
  <1>2. \A i \in 1..n : i \in 1..Len(p) /\ q[i] = p[i]
    BY <1>1 DEF Extends
  <1>3. /\ SubSeq(p, 1, n) = [i \in 1..n |-> p[i]]
        /\ SubSeq(q, 1, n) = [i \in 1..n |-> q[i]]
    BY <1>1
  <1> QED
    BY <1>1, <1>2, <1>3

\* The empty prefix with nothing behind it, a prefix and something behind it.
LEMMA PrefixAndRest ==
    ASSUME NEW S, NEW p \in Seq(S), NEW c \in Seq(S), NEW e \in S,
           NEW n \in Nat, n <= Len(p)
    PROVE  /\ SubSeq(p, 1, 0) \o <<>> = <<>>
           /\ SubSeq(p, 1, n) \in Seq(S)
           /\ Len(SubSeq(p, 1, n) \o c) = n + Len(c)
           /\ SubSeq(p, 1, n) \o Append(c, e) = Append(SubSeq(p, 1, n) \o c, e)
  <1>1. SubSeq(p, 1, n) \in Seq(S) /\ Len(SubSeq(p, 1, n)) = n
    OBVIOUS
  <1>2. SubSeq(p, 1, 0) = <<>>
    OBVIOUS
  <1> DEFINE x == SubSeq(p, 1, n)
  <1>3. x \in Seq(S) /\ Len(x) = n
    BY <1>1
  <1> HIDE DEF x
  <1>4. Len(x \o c) = n + Len(c)
    BY <1>3
  <1>5. x \o Append(c, e) = Append(x \o c, e)
    BY <1>3
  <1> QED
    BY <1>1, <1>2, <1>4, <1>5 DEF x

\* All of a sequence, all of it with something behind.
LEMMA WholePrefix ==
    ASSUME NEW S, NEW p \in Seq(S), NEW c \in Seq(S)
    PROVE  /\ SubSeq(p, 1, Len(p)) = p
           /\ p \o <<>> = p
           /\ SubSeq(p \o c, 1, Len(p) + Len(c)) = p \o c
           /\ Len(p \o c) = Len(p) + Len(c)
  <1>1. \A q \in Seq(S) : SubSeq(q, 1, Len(q)) = q
    OBVIOUS
  <1>2. p \o c \in Seq(S) /\ Len(p \o c) = Len(p) + Len(c)
    OBVIOUS
  <1>3. p \o <<>> = p
    OBVIOUS
  <1>4. SubSeq(p \o c, 1, Len(p \o c)) = p \o c
    BY <1>1, <1>2
  <1> QED
    BY <1>1, <1>2, <1>3, <1>4

\* An aggregate that has applied what is saved of it, and its changes.
UpToDate(a) ==
    /\ a.version <= Len(log[a.stream])
    /\ a.applied = SubSeq(log[a.stream], 1, a.version) \o a.changes

\* An aggregate that is not touched stays up to date.
LEMMA StaysUpToDate ==
    ASSUME TypeOK, Working, [Next]_vars, NEW a \in Aggregate, UpToDate(a)
    PROVE  UpToDate(a)'
  <1>1. /\ a.stream \in StreamIds /\ a.version \in Nat
        /\ Extends(log[a.stream], log'[a.stream])
    BY AggregateFields, LogGrows
  <1>2. TypeOK'
    BY StepTyping
  <1>3. log[a.stream] \in Seq(Event) /\ log'[a.stream] \in Seq(Event)
    BY <1>1, <1>2 DEF TypeOK
  <1>4. a.version <= Len(log'[a.stream])
        /\ SubSeq(log'[a.stream], 1, a.version) = SubSeq(log[a.stream], 1, a.version)
    BY <1>1, <1>3, PrefixStays DEF UpToDate
  <1> QED
    BY <1>4 DEF UpToDate

\* An aggregate that is not empty has a version or changes.
LEMMA FreshAggregate ==
    ASSUME TypeOK, NEW a \in Aggregate, UpToDate(a), a.applied = <<>>
    PROVE  a.version = 0 /\ a.changes = <<>>
  <1>1. /\ a.stream \in StreamIds /\ a.version \in Nat /\ a.changes \in Seq(Event)
        /\ log[a.stream] \in Seq(Event)
    BY AggregateFields DEF TypeOK
  <1> DEFINE p == SubSeq(log[a.stream], 1, a.version)
             c == a.changes
  <1>2. p \in Seq(Event) /\ Len(p) = a.version
    BY <1>1 DEF UpToDate
  <1>3. p \o c = <<>> /\ c \in Seq(Event)
    BY <1>1 DEF UpToDate
  <1> HIDE DEF p, c
  <1>4. Len(p) + Len(c) = 0 /\ Len(c) \in Nat /\ Len(p) \in Nat
    BY <1>2, <1>3
  <1>5. a.version = 0 /\ Len(c) = 0
    BY <1>1, <1>2, <1>4
  <1> QED
    BY <1>3, <1>5 DEF c

\* What Append has put behind the version of an aggregate with an expectation is
\* what the aggregate has applied.
LEMMA AppliedIsStored ==
    ASSUME TypeOK, NEW a \in Aggregate, UpToDate(a),
           a.changes # <<>> => Len(log[a.stream]) = a.version
    PROVE  /\ a.changes # <<>> => log[a.stream] \o a.changes = a.applied
           /\ a.version + Len(a.changes) <= Len(log[a.stream] \o a.changes)
           /\ SubSeq(log[a.stream] \o a.changes, 1, a.version + Len(a.changes))
                = a.applied
  <1> DEFINE p == log[a.stream]
             c == a.changes
  <1>1. a.version \in Nat /\ p \in Seq(Event) /\ c \in Seq(Event)
    BY AggregateFields DEF TypeOK
  <1>2. a.version <= Len(p) /\ a.applied = SubSeq(p, 1, a.version) \o c
    BY DEF UpToDate
  <1>3. c # <<>> => Len(p) = a.version
    OBVIOUS
  <1> HIDE DEF p, c
  <1>4. CASE c # <<>>
    <2>1. a.applied = p \o c
      BY <1>1, <1>2, <1>3, <1>4, WholePrefix
    <2>2. /\ Len(p \o c) = a.version + Len(c)
          /\ SubSeq(p \o c, 1, a.version + Len(c)) = p \o c
      BY <1>1, <1>3, <1>4, WholePrefix
    <2>3. Len(p \o c) \in Nat
      BY <1>1
    <2>4. /\ p \o c = a.applied
          /\ a.version + Len(c) <= Len(p \o c)
          /\ SubSeq(p \o c, 1, a.version + Len(c)) = a.applied
      BY <2>1, <2>2, <2>3
    <2> QED
      BY <2>4 DEF p, c
  <1>5. CASE c = <<>>
    <2>1. p \o c = p /\ Len(c) = 0 /\ a.version + Len(c) = a.version
      BY <1>1, <1>5
    <2>2. SubSeq(p, 1, a.version) \in Seq(Event)
      BY <1>1, <1>2
    <2>3. a.applied = SubSeq(p, 1, a.version)
      BY <1>2, <1>5, <2>2
    <2> QED
      BY <1>2, <1>5, <2>1, <2>3 DEF p, c
  <1> QED
    BY <1>4, <1>5

\* What a guarded session has applied stays the beginning of its stream and its changes.
LEMMA StepPrefix ==
    ASSUME TypeOK, Working, AggregateIsPrefix, [Next]_vars
    PROVE  AggregateIsPrefix'
  <1> SUFFICES ASSUME NEW g \in Guarded, NEW b \in aggregate'[g]
               PROVE  UpToDate(b)'
    BY DEF AggregateIsPrefix, UpToDate
  <1>1. g \in Sessions /\ \A a \in aggregate[g] : a \in Aggregate /\ UpToDate(a)
    BY DomainAssumption DEF AggregateIsPrefix, UpToDate, TypeOK
  <1>2. CASE b \in aggregate[g]
    BY <1>1, <1>2, StaysUpToDate
  <1>3. ASSUME NEW s \in Sessions, NEW d, aggregate' = [aggregate EXCEPT ![s] = {d}],
               b \notin aggregate[g]
        PROVE  g = s /\ b = d
    BY <1>1, <1>3 DEF TypeOK
  <1>4. ASSUME NEW s \in Sessions, NewAggregate(s), b \notin aggregate[g]
        PROVE  UpToDate(b)'
    <2>1. PICK x \in StreamIds :
              aggregate' = [aggregate EXCEPT ![s] =
                {[stream |-> x, version |-> 0, applied |-> <<>>,
                  changes |-> <<>>]}]
      BY <1>4 DEF NewAggregate
    <2>2. b = [stream |-> x, version |-> 0, applied |-> <<>>, changes |-> <<>>]
      BY <1>3, <1>4, <2>1
    <2>3. log' = log /\ log[x] \in Seq(Event)
      BY <1>4 DEF NewAggregate, storeVars, TypeOK
    <2>4. SubSeq(log[x], 1, 0) \o <<>> = <<>> /\ 0 <= Len(log[x])
      BY <2>3
    <2> QED
      BY <2>2, <2>3, <2>4 DEF UpToDate
  <1>5. ASSUME NEW s \in Sessions, Load(s), b \notin aggregate[g]
        PROVE  UpToDate(b)'
    <2>1. PICK a \in aggregate[s], d \in Aggregate :
            /\ a.applied = <<>>
            /\ d.stream = a.stream
            /\ d.version = a.version + Len(log[a.stream])
            /\ d.applied = log[a.stream]
            /\ d.changes = a.changes
            /\ aggregate' = [aggregate EXCEPT ![s] = {d}]
      BY <1>5, LoadEffect
    <2>2. g = s /\ b = d
      BY <1>3, <1>5, <2>1
    <2>3. a.version = 0 /\ a.changes = <<>>
      BY <1>1, <2>1, <2>2, FreshAggregate
    <2>4. log' = log /\ log[a.stream] \in Seq(Event)
      BY <1>5, AggregateFields DEF Load, storeVars, TypeOK
    <2>5. SubSeq(log[a.stream], 1, Len(log[a.stream])) \o <<>> = log[a.stream]
      BY <2>4, WholePrefix
    <2>6. Len(log[a.stream]) \in Nat /\ b.version = Len(log[a.stream])
      BY <2>1, <2>2, <2>3, <2>4
    <2> QED
      BY <2>1, <2>2, <2>3, <2>4, <2>5, <2>6 DEF UpToDate
  <1>6. ASSUME NEW s \in Sessions, TrackChange(s), b \notin aggregate[g]
        PROVE  UpToDate(b)'
    <2>1. PICK a \in aggregate[s], d \in Aggregate, e \in Event :
            /\ d.stream = a.stream
            /\ d.version = a.version
            /\ d.applied = Append(a.applied, e)
            /\ d.changes = Append(a.changes, e)
            /\ aggregate' = [aggregate EXCEPT ![s] = {d}]
      BY <1>6, TrackEffect
    <2>2. g = s /\ b = d
      BY <1>3, <1>6, <2>1
    <2>3. log' = log
      BY <1>6 DEF TrackChange, storeVars
    <2>4. a \in Aggregate /\ UpToDate(a)
      BY <1>1, <2>2
    <2>5. /\ a.version \in Nat /\ a.changes \in Seq(Event)
          /\ log[a.stream] \in Seq(Event) /\ a.version <= Len(log[a.stream])
      BY <2>4, AggregateFields DEF TypeOK, UpToDate
    <2>6. SubSeq(log[a.stream], 1, a.version) \o Append(a.changes, e)
            = Append(SubSeq(log[a.stream], 1, a.version) \o a.changes, e)
      <3> DEFINE p == log[a.stream]
                 c == a.changes
                 n == a.version
      <3>1. p \in Seq(Event) /\ c \in Seq(Event) /\ n \in Nat /\ n <= Len(p)
        BY <2>5
      <3> HIDE DEF p, c, n
      <3>2. SubSeq(p, 1, n) \o Append(c, e) = Append(SubSeq(p, 1, n) \o c, e)
        BY <3>1, PrefixAndRest
      <3> QED
        BY <3>2 DEF p, c, n
    <2> QED
      BY <2>1, <2>2, <2>3, <2>4, <2>6 DEF UpToDate
  <1>7. ASSUME NEW s \in Sessions, SaveCommitted(s), b \notin aggregate[g]
        PROVE  UpToDate(b)'
    <2>1. PICK a \in aggregate[s] :
            /\ a \in Aggregate
            /\ log' = [log EXCEPT ![a.stream] = @ \o a.changes]
            /\ s \in Guarded /\ a.changes # <<>> =>
                  Len(a.changes) = 1 /\ Len(log[a.stream]) = a.version
            /\ aggregate' = [aggregate EXCEPT ![s] = {Saved(a)}]
      BY <1>7, CommittedEffect
    <2>2. g = s /\ b = Saved(a)
      BY <1>3, <1>7, <2>1
    <2>3. /\ b.stream = a.stream /\ b.version = a.version + Len(a.changes)
          /\ b.applied = a.applied /\ b.changes = <<>>
      BY <2>1, <2>2, SavedFields
    <2>4. log'[a.stream] = log[a.stream] \o a.changes
      BY <2>1, AppendedLog
    <2>5. /\ a.version + Len(a.changes) <= Len(log'[a.stream])
          /\ SubSeq(log'[a.stream], 1, a.version + Len(a.changes)) = a.applied
      BY <1>1, <2>1, <2>2, <2>4, AppliedIsStored
    <2>6. a.applied \o <<>> = a.applied
      BY <2>1, AggregateFields, WholePrefix
    <2> QED
      BY <2>3, <2>5, <2>6 DEF UpToDate
  <1>8. CASE aggregate' = aggregate
    BY <1>2, <1>8
  <1>9. ASSUME NEW s \in Sessions, SaveFailed(s) \/ Save(s) \/ SaveRejected(s)
                                   \/ Deliver(s) \/ PublishNext(s)
        PROVE  aggregate' = aggregate
    BY <1>9 DEF SaveFailed, Save, SaveRejected, Deliver, PublishNext
  <1>10. ASSUME NEW h \in Handlers, AddHandler(h)
         PROVE  aggregate' = aggregate
    BY <1>10 DEF AddHandler
  <1>11. CASE Crash
    BY <1>1, <1>11 DEF Crash
  <1>12. UNCHANGED vars => aggregate' = aggregate
    BY DEF vars
  <1> QED
    BY <1>2, <1>4, <1>5, <1>6, <1>7, <1>8, <1>9, <1>10, <1>11, <1>12
       DEF Next, Prepare, Finish

-----------------------------------------------------------------------------
(* Once                                                                      *)

\* An element of a log after an Append was there before or is a change.
LEMMA AppendedAt ==
    ASSUME TypeOK, NEW s \in Sessions, NEW a \in aggregate[s],
           log' = [log EXCEPT ![a.stream] = @ \o a.changes],
           NEW x \in StreamIds, NEW i \in 1..Len(log'[x])
    PROVE  \/ i \in 1..Len(log[x]) /\ log'[x][i] = log[x][i]
           \/ /\ x = a.stream /\ i > Len(log[x])
              /\ i - Len(log[x]) \in 1..Len(a.changes)
              /\ log'[x][i] = a.changes[i - Len(log[x])]
  <1>1. CASE x # a.stream
    <2>1. log'[x] = log[x]
      BY <1>1, AppendedLog
    <2> QED
      BY <2>1
  <1>2. CASE x = a.stream /\ i > Len(log[a.stream])
    <2>1. i \in 1..Len(log'[a.stream])
      BY <1>2
    <2>2. /\ i - Len(log[a.stream]) \in 1..Len(a.changes)
          /\ log'[a.stream][i] = a.changes[i - Len(log[a.stream])]
      BY <1>2, <2>1, AppendedLog
    <2> QED
      BY <1>2, <2>2
  <1>3. CASE x = a.stream /\ ~(i > Len(log[a.stream]))
    <2>1. log[a.stream] \in Seq(Event)
      BY AppendedLog
    <2>2. i \in 1..Len(log[a.stream])
      BY <1>3, <2>1
    <2>3. log'[a.stream][i] = log[a.stream][i]
      BY <2>2, AppendedLog
    <2> QED
      BY <1>3, <2>2, <2>3
  <1> QED
    BY <1>1, <1>2, <1>3

\* What an aggregate still has to save is stored behind its version, if at all.
UnsavedOf(a) ==
    \A x \in StreamIds : \A i \in 1..Len(log[x]), j \in 1..Len(a.changes) :
        log[x][i] = a.changes[j] => x = a.stream /\ a.version < i

\* Appends do not change that: those of other sessions hold other events, its own
\* come behind its version.
LEMMA StaysUnsaved ==
    ASSUME TypeOK, Working, Ordered, AggregateIsPrefix, [Next]_vars,
           NEW g \in Guarded, NEW b \in aggregate[g], UnsavedOf(b)
    PROVE  UnsavedOf(b)'
  <1>1. CASE UNCHANGED log
    BY <1>1 DEF UnsavedOf
  <1>2. ASSUME NEW s \in Sessions, AppendsChanges(s)
        PROVE  UnsavedOf(b)'
    <2>1. PICK a \in aggregate[s] : log' = [log EXCEPT ![a.stream] = @ \o a.changes]
      BY <1>2 DEF AppendsChanges
    <2> SUFFICES ASSUME NEW x \in StreamIds, NEW i \in 1..Len(log'[x]),
                        NEW j \in 1..Len(b.changes),
                        log'[x][i] = b.changes[j]
                 PROVE  x = b.stream /\ b.version < i
      BY DEF UnsavedOf
    <2>2. CASE i \in 1..Len(log[x]) /\ log'[x][i] = log[x][i]
      BY <2>2 DEF UnsavedOf
    <2>3. ASSUME x = a.stream, i > Len(log[x]),
                 NEW k \in 1..Len(a.changes), log'[x][i] = a.changes[k]
          PROVE  x = b.stream /\ b.version < i
      <3>1. g \in Sessions
        BY DomainAssumption
      <3>2. a.changes[k].by = s /\ b.changes[j].by = g
        BY <3>1 DEF Ordered, RaisedBy
      <3>3. s = g /\ a = b
        BY <2>3, <3>1, <3>2 DEF Working, Works
      <3>4. b \in Aggregate /\ b.version <= Len(log[b.stream])
        BY <3>1 DEF AggregateIsPrefix, TypeOK
      <3>5. b.version \in Nat /\ log[b.stream] \in Seq(Event)
        BY <3>4, AggregateFields DEF TypeOK
      <3>6. Len(log[b.stream]) \in Nat
        BY <3>5
      <3> QED
        BY <2>3, <3>3, <3>4, <3>5, <3>6
    <2> QED
      BY <2>1, <2>2, <2>3, AppendedAt
  <1> QED
    BY <1>1, <1>2, LogSteps

\* The changes of a guarded session are in the log only behind what it had seen, and so
\* only if its next Save is refused.
LEMMA StepUnsaved ==
    ASSUME TypeOK, Working, Ordered, AggregateIsPrefix, Unsaved, [Next]_vars
    PROVE  Unsaved'
  <1> SUFFICES ASSUME NEW g \in Guarded, NEW b \in aggregate'[g]
               PROVE  UnsavedOf(b)'
    BY DEF Unsaved, UnsavedOf
  <1>1. g \in Sessions /\ \A a \in aggregate[g] : a \in Aggregate /\ UpToDate(a)
    BY DomainAssumption DEF AggregateIsPrefix, UpToDate, TypeOK
  <1>2. \A a \in aggregate[g] : UnsavedOf(a)
    BY DEF Unsaved, UnsavedOf
  <1>3. CASE b \in aggregate[g]
    BY <1>2, <1>3, StaysUnsaved
  <1>4. CASE b.changes = <<>>
    BY <1>4 DEF UnsavedOf
  <1>5. ASSUME NEW s \in Sessions, NEW d, aggregate' = [aggregate EXCEPT ![s] = {d}],
               b \notin aggregate[g]
        PROVE  g = s /\ b = d
    BY <1>1, <1>5 DEF TypeOK
  <1>6. ASSUME NEW s \in Sessions, NewAggregate(s), b \notin aggregate[g]
        PROVE  b.changes = <<>>
    <2>1. PICK x \in StreamIds :
              aggregate' = [aggregate EXCEPT ![s] =
                {[stream |-> x, version |-> 0, applied |-> <<>>,
                  changes |-> <<>>]}]
      BY <1>6 DEF NewAggregate
    <2>2. b = [stream |-> x, version |-> 0, applied |-> <<>>, changes |-> <<>>]
      BY <1>5, <1>6, <2>1
    <2> QED
      BY <2>2
  <1>7. ASSUME NEW s \in Sessions, Load(s), b \notin aggregate[g]
        PROVE  b.changes = <<>>
    <2>1. PICK a \in aggregate[s], d \in Aggregate :
            /\ a.applied = <<>> /\ d.changes = a.changes
            /\ aggregate' = [aggregate EXCEPT ![s] = {d}]
      BY <1>7, LoadEffect
    <2>2. g = s /\ b = d
      BY <1>5, <1>7, <2>1
    <2> QED
      BY <1>1, <2>1, <2>2, FreshAggregate
  <1>8. ASSUME NEW s \in Sessions, SaveCommitted(s), b \notin aggregate[g]
        PROVE  b.changes = <<>>
    <2>1. PICK a \in Aggregate : aggregate' = [aggregate EXCEPT ![s] = {Saved(a)}]
      BY <1>8, CommittedEffect
    <2>2. b = Saved(a)
      BY <1>5, <1>8, <2>1
    <2> QED
      BY <2>2, SavedFields
  <1>9. ASSUME NEW s \in Sessions, TrackChange(s), b \notin aggregate[g]
        PROVE  UnsavedOf(b)'
    <2>1. PICK a \in aggregate[s], d \in Aggregate, e \in Event :
            /\ e.by = s /\ e.no = raised[s] + 1
            /\ d.stream = a.stream
            /\ d.version = a.version
            /\ d.changes = Append(a.changes, e)
            /\ aggregate' = [aggregate EXCEPT ![s] = {d}]
      BY <1>9, TrackEffect
    <2>2. g = s /\ b = d
      BY <1>5, <1>9, <2>1
    <2>3. log' = log
      BY <1>9 DEF TrackChange, storeVars
    <2>4. a.changes \in Seq(Event) /\ UnsavedOf(a)
      BY <1>1, <1>2, <2>2, AggregateFields
    <2> SUFFICES ASSUME NEW x \in StreamIds, NEW i \in 1..Len(log[x]),
                        NEW j \in 1..Len(b.changes),
                        log[x][i] = b.changes[j]
                 PROVE  x = b.stream /\ b.version < i
      BY <2>3 DEF UnsavedOf
    <2>5. CASE j \in 1..Len(a.changes)
      <3>1. b.changes[j] = a.changes[j]
        BY <2>1, <2>2, <2>4, <2>5
      <3> QED
        BY <2>1, <2>2, <2>4, <2>5, <3>1 DEF UnsavedOf
    <2>6. CASE j \notin 1..Len(a.changes)
      <3>1. b.changes[j] = e
        BY <2>1, <2>2, <2>4, <2>6
      <3>2. log[x][i].no <= raised[log[x][i].by]
        BY DEF Ordered
      <3>3. raised[s] \in Nat
        BY DomainAssumption DEF TypeOK
      <3> QED
        BY <2>1, <3>1, <3>2, <3>3
    <2> QED
      BY <2>5, <2>6
  <1>10. CASE aggregate' = aggregate
    BY <1>3, <1>10
  <1>11. ASSUME NEW s \in Sessions, SaveFailed(s) \/ Save(s) \/ SaveRejected(s)
                                   \/ Deliver(s) \/ PublishNext(s)
         PROVE  aggregate' = aggregate
    BY <1>11 DEF SaveFailed, Save, SaveRejected, Deliver, PublishNext
  <1>12. ASSUME NEW h \in Handlers, AddHandler(h)
         PROVE  aggregate' = aggregate
    BY <1>12 DEF AddHandler
  <1>13. CASE Crash
    BY <1>1, <1>13 DEF Crash
  <1>14. UNCHANGED vars => aggregate' = aggregate
    BY DEF vars
  <1> QED
    BY <1>3, <1>4, <1>6, <1>7, <1>8, <1>9, <1>10, <1>11, <1>12, <1>13, <1>14
       DEF Next, Prepare, Finish

\* A guarded session's event that is appended was in no stream, and it comes
\* alone.
LEMMA AppendedOnce ==
    ASSUME TypeOK, Working, Ordered, Unsaved, NEW s \in Sessions,
           NEW a \in aggregate[s],
           log' = [log EXCEPT ![a.stream] = @ \o a.changes],
           s \in Guarded /\ a.changes # <<>> =>
              Len(a.changes) = 1 /\ Len(log[a.stream]) = a.version,
           NEW k \in 1..Len(a.changes), a.changes[k].by \in Guarded
    PROVE  /\ Len(a.changes) = 1
           /\ \A y \in StreamIds : \A j \in 1..Len(log[y]) :
                log[y][j] # a.changes[k]
  <1>1. a.changes \in Seq(Event)
    BY AppendedLog
  <1>2. a.changes[k].by = s
    BY DEF Ordered, RaisedBy
  <1>3. s \in Guarded /\ a.changes # <<>>
    BY <1>1, <1>2
  <1>4. Len(a.changes) = 1 /\ Len(log[a.stream]) = a.version
    BY <1>3
  <1>5. ASSUME NEW y \in StreamIds, NEW j \in 1..Len(log[y]),
               log[y][j] = a.changes[k]
        PROVE  FALSE
    <2>1. y = a.stream /\ a.version < j
      BY <1>3, <1>5 DEF Unsaved
    <2>2. log[y] \in Seq(Event)
      BY DEF TypeOK
    <2>3. Len(log[y]) \in Nat /\ j <= Len(log[y])
      BY <2>2
    <2> QED
      BY <1>4, <2>1, <2>3
  <1> QED
    BY <1>4, <1>5

\* No step stores an event of a guarded session a second time.
LEMMA StepRaisedOnce ==
    ASSUME TypeOK, Working, Ordered, Unsaved, RaisedOnce, [Next]_vars
    PROVE  RaisedOnce'
  <1>1. TypeOK'
    BY StepTyping
  <1>2. \A x \in StreamIds : DOMAIN log[x] = 1..Len(log[x])
                             /\ DOMAIN log'[x] = 1..Len(log'[x])
    BY <1>1 DEF TypeOK
  <1>3. CASE UNCHANGED log
    BY <1>3 DEF RaisedOnce
  <1>4. ASSUME NEW s \in Sessions, AppendsChanges(s)
        PROVE  RaisedOnce'
    <2>1. PICK a \in aggregate[s] :
            /\ log' = [log EXCEPT ![a.stream] = @ \o a.changes]
            /\ s \in Guarded /\ a.changes # <<>> =>
                  Len(a.changes) = 1 /\ Len(log[a.stream]) = a.version
      BY <1>4 DEF AppendsChanges
    <2> DEFINE Old(x, i) == i \in 1..Len(log[x]) /\ log'[x][i] = log[x][i]
               New(x, i) == /\ x = a.stream /\ i > Len(log[x])
                            /\ i - Len(log[x]) \in 1..Len(a.changes)
                            /\ log'[x][i] = a.changes[i - Len(log[x])]
    <2> SUFFICES ASSUME NEW x \in StreamIds, NEW y \in StreamIds,
                        NEW i \in 1..Len(log'[x]), NEW j \in 1..Len(log'[y]),
                        log'[x][i] = log'[y][j], log'[x][i].by \in Guarded
                 PROVE  x = y /\ i = j
      BY <1>2 DEF RaisedOnce
    <2>2. (Old(x, i) \/ New(x, i)) /\ (Old(y, j) \/ New(y, j))
      BY <2>1, AppendedAt
    <2>3. CASE Old(x, i) /\ Old(y, j)
      <3>1. i \in DOMAIN log[x] /\ j \in DOMAIN log[y]
        BY <1>2, <2>3
      <3>2. log[x][i] = log[y][j] /\ log[x][i].by \in Guarded
        BY <2>3
      <3> QED
        BY <3>1, <3>2 DEF RaisedOnce
    <2> DEFINE Alone(e) ==
                /\ Len(a.changes) = 1
                /\ \A z \in StreamIds : \A n \in 1..Len(log[z]) : log[z][n] # e
    <2>4. ASSUME NEW k \in 1..Len(a.changes), a.changes[k].by \in Guarded
          PROVE  Alone(a.changes[k])
      BY <2>1, <2>4, AppendedOnce
    <2>5. /\ New(x, i) => Alone(log'[x][i])
          /\ New(y, j) => Alone(log'[y][j])
      BY <2>4
    <2>6. CASE New(x, i) /\ Old(y, j)
      BY <2>6, <2>5
    <2>7. CASE Old(x, i) /\ New(y, j)
      BY <2>7, <2>5
    <2>8. CASE New(x, i) /\ New(y, j)
      <3>1. Len(a.changes) = 1
        BY <2>8, <2>5
      <3>2. Len(log[a.stream]) \in Nat
        BY AppendedLog, <2>1
      <3> QED
        BY <2>8, <3>1, <3>2
    <2> QED
      BY <2>2, <2>3, <2>6, <2>7, <2>8
  <1> QED
    BY <1>3, <1>4, LogSteps

\* What a step that ends a guarded session's Save does to the stream.
LEMMA StepDecision ==
    ASSUME TypeOK, Working, AggregateIsPrefix, [Next]_vars,
           NEW g \in Guarded, NEW a \in aggregate[g],
           active[g] # {}, active'[g] = {}, log'[a.stream] # log[a.stream]
    PROVE  log'[a.stream] = a.applied
  <1>1. g \in Sessions
    BY DomainAssumption
  <1>2. PICK s \in Sessions : /\ SaveCommitted(s) \/ SaveFailed(s)
                              /\ AppendsChanges(s)
    BY LogSteps
  <1>3. active' = [active EXCEPT ![s] = {}]
    BY <1>2, CommittedEffect, FailedEffect
  <1>4. s = g
    BY <1>1, <1>3 DEF TypeOK
  <1>5. PICK b \in aggregate[s] :
            /\ log' = [log EXCEPT ![b.stream] = @ \o b.changes]
            /\ s \in Guarded /\ b.changes # <<>> =>
                  Len(b.changes) = 1 /\ Len(log[b.stream]) = b.version
    BY <1>2 DEF AppendsChanges
  <1>6. a = b
    BY <1>1, <1>4, <1>5 DEF Working, Works
  <1>7. log'[a.stream] = log[a.stream] \o a.changes /\ log[a.stream] \in Seq(Event)
    BY <1>4, <1>5, <1>6, AppendedLog
  <1>8. a.changes # <<>>
    <2>1. log[a.stream] \o <<>> = log[a.stream]
      BY <1>7, WholePrefix
    <2> QED
      BY <1>7, <2>1
  <1>9. a \in Aggregate /\ UpToDate(a)
    BY <1>1 DEF TypeOK, AggregateIsPrefix, UpToDate
  <1> QED
    BY <1>4, <1>5, <1>6, <1>7, <1>8, <1>9, AppliedIsStored

-----------------------------------------------------------------------------
(* Delivery                                                                  *)

\* What is stored stays stored.
LEMMA StaysInLog ==
    ASSUME TypeOK, Working, [Next]_vars, NEW e, InLog(e)
    PROVE  InLog(e)'
  <1>1. PICK x \in StreamIds : \E i \in 1..Len(log[x]) : log[x][i] = e
    BY DEF InLog
  <1>2. PICK i \in 1..Len(log[x]) : log[x][i] = e
    BY <1>1
  <1>3. Extends(log[x], log'[x])
    BY LogGrows
  <1>4. log[x] \in Seq(Event) /\ log'[x] \in Seq(Event)
    BY StepTyping DEF TypeOK
  <1>5. Len(log[x]) \in Nat /\ Len(log'[x]) \in Nat
    BY <1>4
  <1>6. i \in 1..Len(log'[x]) /\ log'[x][i] = e
    BY <1>2, <1>3, <1>5 DEF Extends
  <1> QED
    BY <1>6 DEF InLog

\* What Append has stored is in the log.
LEMMA ChangesInLog ==
    ASSUME TypeOK, NEW s \in Sessions, NEW a \in aggregate[s],
           log' = [log EXCEPT ![a.stream] = @ \o a.changes],
           NEW k \in 1..Len(a.changes)
    PROVE  InLog(a.changes[k])'
  <1>1. /\ a.stream \in StreamIds
        /\ log[a.stream] \in Seq(Event) /\ a.changes \in Seq(Event)
        /\ log'[a.stream] = log[a.stream] \o a.changes
    BY AppendedLog, AggregateFields DEF TypeOK
  <1> DEFINE p == log[a.stream]
             c == a.changes
  <1>2. p \in Seq(Event) /\ c \in Seq(Event) /\ k \in 1..Len(c)
    BY <1>1
  <1> HIDE DEF p, c
  <1>3. Len(p) + k \in 1..Len(p \o c) /\ (p \o c)[Len(p) + k] = c[k]
    BY <1>2
  <1>4. Len(p) + k \in 1..Len(log'[a.stream]) /\ log'[a.stream][Len(p) + k] = c[k]
    BY <1>1, <1>3 DEF p, c
  <1>5. log'[a.stream][Len(p) + k] = a.changes[k]
    BY <1>4 DEF c
  <1> HIDE DEF p
  <1> QED
    BY <1>1, <1>4, <1>5 DEF InLog

\* Which steps change what is published: the end of a Save, the loop of Save over
\* its events, a handler that is called, one that is added, and a crash.
LEMMA PublishingSteps ==
    ASSUME [Next]_vars
    PROVE  \/ UNCHANGED <<queue, todo, eventHandlers, delivered>>
           \/ \E s \in Sessions : SaveCommitted(s) \/ PublishNext(s) \/ Deliver(s)
           \/ \E h \in Handlers : AddHandler(h)
           \/ Crash
  <1>1. ASSUME NEW s \in Sessions, Prepare(s) \/ SaveFailed(s)
        PROVE  UNCHANGED <<queue, todo, eventHandlers, delivered>>
    BY <1>1 DEF Prepare, NewAggregate, Load, TrackChange, Save, SaveRejected,
                SaveFailed
  <1>2. UNCHANGED vars => UNCHANGED <<queue, todo, eventHandlers, delivered>>
    BY DEF vars
  <1> QED
    BY <1>1, <1>2 DEF Next, Finish

\* Handlers joining an event under way are subscribed to it, and were not before.
LEMMA AddHandlerEffect ==
    ASSUME TypeOK, NEW h \in Handlers, AddHandler(h)
    PROVE  /\ UNCHANGED <<aggregate, raised, queue, delivered, log, pc>>
           /\ \A k \in Kinds : eventHandlers[k] \subseteq eventHandlers'[k]
           /\ \A s \in Sessions :
                \/ todo'[s] = todo[s]
                \/ /\ todo'[s] = todo[s] \cup {h}
                   /\ queue[s] # <<>>
                   /\ h \notin eventHandlers[queue[s][1].kind]
                   /\ h \in eventHandlers'[queue[s][1].kind]
  <1>1. PICK events \in SUBSET Kinds :
            /\ eventHandlers' = [k \in Kinds |-> IF k \in events
                                                 THEN eventHandlers[k] \cup {h}
                                                 ELSE eventHandlers[k]]
            /\ \E meeting \in SUBSET {s \in Sessions : Joins(s, h, events)} :
                todo' = [s \in Sessions |-> IF s \in meeting
                                            THEN todo[s] \cup {h} ELSE todo[s]]
    BY DEF AddHandler
  <1>2. PICK meeting \in SUBSET {s \in Sessions : Joins(s, h, events)} :
            todo' = [s \in Sessions |-> IF s \in meeting
                                        THEN todo[s] \cup {h} ELSE todo[s]]
    BY <1>1
  <1>3. UNCHANGED <<aggregate, raised, queue, delivered, log, pc>>
    BY DEF AddHandler, storeVars
  <1>4. \A k \in Kinds : eventHandlers[k] \subseteq eventHandlers'[k]
    BY <1>1
  <1>5. ASSUME NEW s \in Sessions, s \in meeting
        PROVE  /\ queue[s] # <<>>
               /\ h \notin eventHandlers[queue[s][1].kind]
               /\ h \in eventHandlers'[queue[s][1].kind]
    <2>1. /\ queue[s] # <<>> /\ Head(queue[s]).kind \in events
          /\ h \notin eventHandlers[Head(queue[s]).kind]
      BY <1>2, <1>5 DEF Joins
    <2>2. Head(queue[s]) = queue[s][1]
      BY <2>1, FirstAndOthers DEF TypeOK
    <2> QED
      BY <1>1, <2>1, <2>2
  <1> QED
    BY <1>2, <1>3, <1>4, <1>5

\* Deliver calls one handler with the first event of the queue.
LEMMA DeliverEffect ==
    ASSUME TypeOK, NEW s \in Sessions, Deliver(s)
    PROVE  \E h \in todo[s] :
            /\ h \in Handlers /\ queue[s] # <<>> /\ Head(queue[s]) = queue[s][1]
            /\ 1 \in 1..Len(queue[s])
            /\ delivered'[h] = Append(delivered[h], queue[s][1])
            /\ \A g \in Handlers \ {h} : delivered'[g] = delivered[g]
            /\ todo'[s] = todo[s] \ {h}
            /\ \A c \in Sessions \ {s} : todo'[c] = todo[c]
            /\ UNCHANGED <<log, aggregate, raised, pc, queue, eventHandlers>>
  <1>1. PICK h \in todo[s] :
            /\ delivered' = [delivered EXCEPT ![h] = Append(@, Head(queue[s]))]
            /\ todo' = [todo EXCEPT ![s] = @ \ {h}]
            /\ UNCHANGED <<storeVars, aggregate, raised, pc, queue,
                           eventHandlers>>
    BY DEF Deliver
  <1>2. h \in Handlers /\ queue[s] # <<>>
    BY DEF TypeOK
  <1>3. Head(queue[s]) = queue[s][1] /\ Len(queue[s]) \in Nat \ {0}
    BY <1>2, FirstAndOthers DEF TypeOK
  <1>4. /\ delivered'[h] = Append(delivered[h], queue[s][1])
        /\ \A g \in Handlers \ {h} : delivered'[g] = delivered[g]
    BY <1>1, <1>2, <1>3 DEF TypeOK
  <1>5. /\ todo'[s] = todo[s] \ {h}
        /\ \A c \in Sessions \ {s} : todo'[c] = todo[c]
    BY <1>1 DEF TypeOK
  <1> QED
    BY <1>1, <1>2, <1>3, <1>4, <1>5 DEF storeVars

\* PublishNext goes on to the next event, with all its handlers.
LEMMA PublishNextEffect ==
    ASSUME TypeOK, NEW s \in Sessions, PublishNext(s)
    PROVE  /\ queue[s] # <<>> /\ todo[s] = {}
           /\ queue'[s] = Tail(queue[s])
           /\ todo'[s] = Subscribed(Tail(queue[s]))
           /\ Tail(queue[s]) \in Seq(Event)
           /\ Len(queue[s]) \in Nat /\ Len(Tail(queue[s])) = Len(queue[s]) - 1
           /\ \A i \in 1..Len(Tail(queue[s])) :
                i + 1 \in 1..Len(queue[s]) /\ Tail(queue[s])[i] = queue[s][i + 1]
           /\ \A c \in Sessions \ {s} : queue'[c] = queue[c] /\ todo'[c] = todo[c]
           /\ UNCHANGED <<log, aggregate, raised, eventHandlers, delivered>>
  <1>1. queue[s] # <<>>
    BY DEF PublishNext, TypeOK
  <1>2. /\ Len(queue[s]) \in Nat \ {0}
        /\ Tail(queue[s]) \in Seq(Event)
        /\ Len(Tail(queue[s])) = Len(queue[s]) - 1
        /\ \A i \in 1..Len(Tail(queue[s])) : Tail(queue[s])[i] = queue[s][i + 1]
    BY <1>1, FirstAndOthers DEF TypeOK
  <1>3. \A i \in 1..Len(Tail(queue[s])) : i + 1 \in 1..Len(queue[s])
    BY <1>2
  <1>4. /\ queue'[s] = Tail(queue[s])
        /\ todo'[s] = Subscribed(Tail(queue[s]))
        /\ \A c \in Sessions \ {s} : queue'[c] = queue[c] /\ todo'[c] = todo[c]
    BY DEF PublishNext, TypeOK
  <1> QED
    BY <1>1, <1>2, <1>3, <1>4 DEF PublishNext, storeVars

\* The same of a session that has just saved.
LEMMA CommittedQueue ==
    ASSUME TypeOK, Working, NEW s \in Sessions, SaveCommitted(s)
    PROVE  \E a \in aggregate[s] :
            /\ a.changes \in Seq(Event)
            /\ log' = [log EXCEPT ![a.stream] = @ \o a.changes]
            /\ aggregate'[s] = {Saved(a)} /\ Saved(a).changes = <<>>
            /\ queue'[s] = a.changes
            /\ todo'[s] = Subscribed(a.changes)
            /\ \A c \in Sessions \ {s} : /\ queue'[c] = queue[c]
                                         /\ todo'[c] = todo[c]
                                         /\ aggregate'[c] = aggregate[c]
            /\ UNCHANGED <<raised, eventHandlers, delivered>>
  <1>1. PICK a \in aggregate[s] :
            /\ a \in Aggregate
            /\ log' = [log EXCEPT ![a.stream] = @ \o a.changes]
            /\ aggregate' = [aggregate EXCEPT ![s] = {Saved(a)}]
            /\ queue' = [queue EXCEPT ![s] = a.changes]
            /\ todo' = [todo EXCEPT ![s] = Subscribed(a.changes)]
    BY CommittedEffect
  <1>2. a.changes \in Seq(Event) /\ Saved(a).changes = <<>>
    BY <1>1, AggregateFields, SavedFields
  <1>3. UNCHANGED <<raised, eventHandlers, delivered>>
    BY DEF SaveCommitted
  <1> QED
    BY <1>1, <1>2, <1>3 DEF TypeOK

\* What is stored stays stored, one event after the other.
LEMMA StaysStored ==
    ASSUME TypeOK, Working, [Next]_vars, NEW q, Stored(q)
    PROVE  Stored(q)'
  <1>1. ASSUME NEW e, InLog(e)
        PROVE  InLog(e)'
    BY <1>1, StaysInLog
  <1> QED
    BY <1>1 DEF Stored

\* The handlers still to call are subscribed to the event under way.
Serves(s) == todo[s] # {} => todo[s] \subseteq eventHandlers[queue[s][1].kind]

\* A loop that has just begun still has every handler to call.
LEMMA SubscribedServe ==
    ASSUME TypeOK, NEW q \in Seq(Event), eventHandlers' = eventHandlers,
           NEW s \in Sessions, queue'[s] = q, todo'[s] = Subscribed(q)
    PROVE  Serves(s)'
  BY SubscribedAreHandlers DEF TypeOK, Serves

\* What waits to be published stays stored, and in the order it was raised.
LEMMA StepPublishes ==
    ASSUME TypeOK, Working, Publishes, [Next]_vars
    PROVE  Publishes'
  <1>1. /\ \A s \in Sessions : Stored(queue[s]) /\ Serves(s)
        /\ \A h \in Handlers : Stored(delivered[h])
    BY DEF Publishes, Serves
  <1>2. /\ \A q : Stored(q) => Stored(q)'
        /\ \A e : InLog(e) => InLog(e)'
    BY StaysStored, StaysInLog
  <1>3. ASSUME \A s \in Sessions : Stored(queue[s])' /\ Serves(s)',
               \A h \in Handlers : Stored(delivered[h])'
        PROVE  Publishes'
    BY <1>3 DEF Publishes, Serves
  <1>4. ASSUME UNCHANGED delivered
        PROVE  \A h \in Handlers : Stored(delivered[h])'
    <2>1. \A h \in Handlers : \E q : q = delivered[h] /\ Stored(q)
      BY <1>1
    <2> QED
      BY <1>2, <1>4, <2>1 DEF Stored
  <1>5. ASSUME NEW s \in Sessions, queue'[s] = queue[s]
        PROVE  Stored(queue[s])'
    <2>1. PICK q : q = queue[s] /\ Stored(q)
      BY <1>1
    <2> QED
      BY <1>2, <1>5, <2>1 DEF Stored
  <1>6. ASSUME NEW s \in Sessions, queue'[s] = queue[s], todo'[s] = todo[s],
               eventHandlers' = eventHandlers
        PROVE  Serves(s)'
    BY <1>1, <1>6 DEF Serves
  <1>7. CASE UNCHANGED <<queue, todo, eventHandlers, delivered>>
    BY <1>3, <1>4, <1>5, <1>6, <1>7
  <1>8. ASSUME NEW s \in Sessions, SaveCommitted(s)
        PROVE  Publishes'
    <2>1. PICK a \in aggregate[s] :
            /\ a.changes \in Seq(Event)
            /\ log' = [log EXCEPT ![a.stream] = @ \o a.changes]
            /\ queue'[s] = a.changes
            /\ todo'[s] = Subscribed(a.changes)
            /\ \A c \in Sessions \ {s} : queue'[c] = queue[c] /\ todo'[c] = todo[c]
            /\ UNCHANGED <<eventHandlers, delivered>>
      BY <1>8, CommittedQueue
    <2>2. Stored(queue[s])'
      BY <2>1, ChangesInLog DEF Stored
    <2>3. Serves(s)'
      BY <2>1, SubscribedServe
    <2>4. \A c \in Sessions \ {s} : Stored(queue[c])' /\ Serves(c)'
      BY <1>5, <1>6, <2>1
    <2> QED
      BY <1>3, <1>4, <2>1, <2>2, <2>3, <2>4
  <1>9. ASSUME NEW s \in Sessions, PublishNext(s)
        PROVE  Publishes'
    <2>1. /\ queue'[s] = Tail(queue[s])
          /\ todo'[s] = Subscribed(Tail(queue[s]))
          /\ Tail(queue[s]) \in Seq(Event)
          /\ \A i \in 1..Len(Tail(queue[s])) :
                i + 1 \in 1..Len(queue[s]) /\ Tail(queue[s])[i] = queue[s][i + 1]
          /\ \A c \in Sessions \ {s} : queue'[c] = queue[c] /\ todo'[c] = todo[c]
          /\ UNCHANGED <<eventHandlers, delivered>>
      BY <1>9, PublishNextEffect
    <2>2. PICK r \in Seq(Event) : r = Tail(queue[s])
      BY <2>1
    <2>3. Stored(r)
      BY <1>1, <2>1, <2>2 DEF Stored
    <2>4. Stored(queue[s])'
      BY <1>2, <2>1, <2>2, <2>3 DEF Stored
    <2>5. Serves(s)'
      BY <2>1, <2>2, SubscribedServe
    <2>6. \A c \in Sessions \ {s} : Stored(queue[c])' /\ Serves(c)'
      BY <1>5, <1>6, <2>1
    <2> QED
      BY <1>3, <1>4, <2>1, <2>4, <2>5, <2>6
  <1>10. ASSUME NEW s \in Sessions, Deliver(s)
         PROVE  Publishes'
    <2>1. PICK h \in todo[s] :
            /\ h \in Handlers
            /\ 1 \in 1..Len(queue[s])
            /\ delivered'[h] = Append(delivered[h], queue[s][1])
            /\ \A g \in Handlers \ {h} : delivered'[g] = delivered[g]
            /\ todo'[s] = todo[s] \ {h}
            /\ \A c \in Sessions \ {s} : todo'[c] = todo[c]
            /\ UNCHANGED <<queue, eventHandlers>>
      BY <1>10, DeliverEffect
    <2>2. \A c \in Sessions : Serves(c)'
      BY <1>1, <2>1 DEF Serves
    <2>3. PICK d \in Seq(Event), e \in Event : d = delivered[h] /\ e = queue[s][1]
      BY <2>1 DEF TypeOK
    <2>4. Stored(d)' /\ InLog(e)'
      BY <1>1, <1>2, <2>1, <2>3 DEF Stored
    <2>5. \A i \in 1..Len(Append(d, e)) :
            \/ i \in 1..Len(d) /\ Append(d, e)[i] = d[i]
            \/ Append(d, e)[i] = e
      BY <2>3
    <2>6. Stored(delivered[h])'
      BY <2>1, <2>3, <2>4, <2>5 DEF Stored
    <2>7. ASSUME NEW g \in Handlers \ {h}
          PROVE  Stored(delivered[g])'
      <3>1. PICK q : q = delivered[g] /\ Stored(q)
        BY <1>1
      <3> QED
        BY <1>2, <2>1, <3>1 DEF Stored
    <2> QED
      BY <1>3, <1>5, <2>1, <2>2, <2>6, <2>7
  <1>11. ASSUME NEW h \in Handlers, AddHandler(h)
         PROVE  Publishes'
    <2>1. /\ UNCHANGED <<queue, delivered>>
          /\ \A k \in Kinds : eventHandlers[k] \subseteq eventHandlers'[k]
          /\ \A s \in Sessions :
                \/ todo'[s] = todo[s]
                \/ /\ todo'[s] = todo[s] \cup {h}
                   /\ queue[s] # <<>>
                   /\ h \in eventHandlers'[queue[s][1].kind]
      BY <1>11, AddHandlerEffect
    <2>2. ASSUME NEW s \in Sessions
          PROVE  Serves(s)'
      <3>1. todo'[s] # {} => queue[s] # <<>>
        BY <2>1 DEF TypeOK
      <3>2. queue[s] # <<>> => queue[s][1].kind \in Kinds
        BY FirstAndOthers, EventFields DEF TypeOK
      <3> QED
        BY <1>1, <2>1, <3>1, <3>2 DEF Serves
    <2> QED
      BY <1>3, <1>4, <1>5, <2>1, <2>2
  <1>12. CASE Crash
    <2>1. UNCHANGED delivered /\ \A s \in Sessions : queue'[s] = <<>> /\ todo'[s] = {}
      BY <1>12 DEF Crash
    <2>2. \A s \in Sessions : Stored(queue[s])' /\ Serves(s)'
      BY <2>1 DEF Stored, Serves
    <2> QED
      BY <1>3, <1>4, <2>1, <2>2
  <1> QED
    BY <1>7, <1>8, <1>9, <1>10, <1>11, <1>12, PublishingSteps

\* Past, in its two parts.
PastQueue(h, s, e) ==
    \A j \in 1..Len(queue[s]) :
        \/ e.no < queue[s][j].no
        \/ /\ j = 1
           /\ e.no = queue[s][1].no
           /\ h \notin todo[s]
           /\ h \in eventHandlers[queue[s][1].kind]

PastChanges(s, e) ==
    \A a \in aggregate[s] : \A j \in 1..Len(a.changes) : e.no < a.changes[j].no

\* An event that was delivered stays behind what its session has to publish.
LEMMA StaysBehindQueue ==
    ASSUME TypeOK, Working, [Next]_vars, NEW h \in Handlers,
           NEW s \in Sessions, NEW e \in Event, PastQueue(h, s, e), PastChanges(s, e)
    PROVE  PastQueue(h, s, e)'
  <1>1. CASE queue'[s] = queue[s] /\ todo'[s] = todo[s]
             /\ eventHandlers' = eventHandlers
    BY <1>1 DEF PastQueue
  <1>2. ASSUME NEW c \in Sessions, SaveCommitted(c)
        PROVE  PastQueue(h, s, e)'
    <2>1. PICK a \in aggregate[c] :
            /\ queue'[c] = a.changes
            /\ \A d \in Sessions \ {c} : queue'[d] = queue[d] /\ todo'[d] = todo[d]
            /\ UNCHANGED eventHandlers
      BY <1>2, CommittedQueue
    <2>2. CASE c = s
      BY <2>1, <2>2 DEF PastQueue, PastChanges
    <2> QED
      BY <1>1, <2>1, <2>2
  <1>3. ASSUME NEW c \in Sessions, PublishNext(c)
        PROVE  PastQueue(h, s, e)'
    <2>1. /\ queue'[c] = Tail(queue[c])
          /\ \A i \in 1..Len(Tail(queue[c])) :
                i + 1 \in 1..Len(queue[c]) /\ Tail(queue[c])[i] = queue[c][i + 1]
          /\ \A d \in Sessions \ {c} : queue'[d] = queue[d] /\ todo'[d] = todo[d]
          /\ UNCHANGED eventHandlers
      BY <1>3, PublishNextEffect
    <2>2. ASSUME c = s, NEW j \in 1..Len(queue'[s])
          PROVE  e.no < queue'[s][j].no
      <3>1. j + 1 \in 1..Len(queue[s]) /\ queue'[s][j] = queue[s][j + 1]
        BY <2>1, <2>2
      <3>2. j + 1 # 1
        BY <2>2
      <3> QED
        BY <3>1, <3>2 DEF PastQueue
    <2> QED
      BY <1>1, <2>1, <2>2 DEF PastQueue
  <1>4. ASSUME NEW c \in Sessions, Deliver(c)
        PROVE  PastQueue(h, s, e)'
    <2>1. /\ \A d \in Sessions : todo'[d] \subseteq todo[d]
          /\ UNCHANGED <<queue, eventHandlers>>
      BY <1>4, DeliverEffect
    <2> QED
      BY <2>1 DEF PastQueue
  <1>5. ASSUME NEW g \in Handlers, AddHandler(g)
        PROVE  PastQueue(h, s, e)'
    <2>1. /\ UNCHANGED queue
          /\ \A k \in Kinds : eventHandlers[k] \subseteq eventHandlers'[k]
          /\ \/ todo'[s] = todo[s]
             \/ /\ todo'[s] = todo[s] \cup {g}
                /\ g \notin eventHandlers[queue[s][1].kind]
      BY <1>5, AddHandlerEffect
    <2>2. ASSUME NEW j \in 1..Len(queue[s]), j = 1
          PROVE  queue[s][1].kind \in Kinds
      BY <2>2, EventFields DEF TypeOK
    <2> QED
      BY <2>1, <2>2 DEF PastQueue
  <1>6. CASE Crash
    BY <1>6 DEF Crash, PastQueue
  <1> QED
    BY <1>1, <1>2, <1>3, <1>4, <1>5, <1>6, PublishingSteps

\* ... and behind what it has still to save.
LEMMA StaysBehindChanges ==
    ASSUME TypeOK, Working, [Next]_vars,
           NEW s \in Sessions, NEW e \in Event, PastChanges(s, e),
           e.no <= raised[s]
    PROVE  PastChanges(s, e)'
  <1>1. CASE aggregate'[s] = aggregate[s]
    BY <1>1 DEF PastChanges
  <1>2. ASSUME NEW b, aggregate'[s] = {b}, b.changes = <<>>
        PROVE  PastChanges(s, e)'
    BY <1>2 DEF PastChanges
  <1>3. ASSUME NEW c \in Sessions, NewAggregate(c)
        PROVE  PastChanges(s, e)'
    <2>1. PICK x \in StreamIds :
              aggregate' = [aggregate EXCEPT ![c] =
                {[stream |-> x, version |-> 0, applied |-> <<>>,
                  changes |-> <<>>]}]
      BY <1>3 DEF NewAggregate
    <2>2. [stream |-> x, version |-> 0, applied |-> <<>>,
           changes |-> <<>>].changes = <<>>
      OBVIOUS
    <2>3. aggregate'[s] = aggregate[s]
            \/ aggregate'[s] = {[stream |-> x, version |-> 0, applied |-> <<>>,
                                 changes |-> <<>>]}
      BY <2>1 DEF TypeOK
    <2> QED
      BY <1>1, <1>2, <2>2, <2>3
  <1>4. ASSUME NEW c \in Sessions, Load(c)
        PROVE  PastChanges(s, e)'
    <2>1. PICK a \in aggregate[c], b \in Aggregate :
            /\ b.changes = a.changes
            /\ aggregate' = [aggregate EXCEPT ![c] = {b}]
      BY <1>4, LoadEffect
    <2>2. aggregate'[s] = aggregate[s] \/ (c = s /\ aggregate'[s] = {b})
      BY <2>1 DEF TypeOK
    <2> QED
      BY <1>1, <2>1, <2>2 DEF PastChanges
  <1>5. ASSUME NEW c \in Sessions, TrackChange(c)
        PROVE  PastChanges(s, e)'
    <2>1. PICK a \in aggregate[c], b \in Aggregate, new \in Event :
            /\ new.no = raised[c] + 1
            /\ b.changes = Append(a.changes, new)
            /\ aggregate' = [aggregate EXCEPT ![c] = {b}]
      BY <1>5, TrackEffect
    <2>2. aggregate'[s] = aggregate[s] \/ (c = s /\ aggregate'[s] = {b})
      BY <2>1 DEF TypeOK
    <2>3. ASSUME c = s, NEW j \in 1..Len(b.changes)
          PROVE  e.no < b.changes[j].no
      <3>1. a.changes \in Seq(Event)
        BY AggregateFields DEF TypeOK
      <3>2. \/ j \in 1..Len(a.changes) /\ b.changes[j] = a.changes[j]
            \/ b.changes[j] = new
        BY <2>1, <2>3, <3>1
      <3>3. e.no < new.no
        <4>1. raised[s] \in Nat /\ e.no \in Nat
          BY DomainAssumption, EventFields DEF TypeOK
        <4> QED
          BY <2>1, <2>3, <4>1
      <3> QED
        BY <2>3, <3>2, <3>3 DEF PastChanges
    <2> QED
      BY <1>1, <2>2, <2>3 DEF PastChanges
  <1>6. ASSUME NEW c \in Sessions, SaveCommitted(c)
        PROVE  PastChanges(s, e)'
    <2>1. PICK a \in aggregate[c] :
            /\ aggregate'[c] = {Saved(a)} /\ Saved(a).changes = <<>>
            /\ \A d \in Sessions \ {c} : aggregate'[d] = aggregate[d]
      BY <1>6, CommittedQueue
    <2>2. CASE s = c
      BY <1>2, <2>1, <2>2
    <2> QED
      BY <1>1, <2>1, <2>2
  <1>7. ASSUME NEW c \in Sessions, SaveFailed(c) \/ Save(c) \/ SaveRejected(c)
                                   \/ Deliver(c) \/ PublishNext(c)
        PROVE  aggregate' = aggregate
    BY <1>7 DEF SaveFailed, Save, SaveRejected, Deliver, PublishNext
  <1>8. ASSUME NEW h \in Handlers, AddHandler(h)
        PROVE  aggregate' = aggregate
    BY <1>8 DEF AddHandler
  <1>9. CASE Crash
    BY <1>9 DEF Crash, PastChanges
  <1>10. UNCHANGED vars => aggregate' = aggregate
    BY DEF vars
  <1> QED
    BY <1>1, <1>3, <1>4, <1>5, <1>6, <1>7, <1>8, <1>9, <1>10
       DEF Next, Prepare, Finish

\* A handler is given at most one event by a step: the first of a queue.
LEMMA DeliverySteps ==
    ASSUME TypeOK, [Next]_vars, NEW h \in Handlers
    PROVE  \/ delivered'[h] = delivered[h]
           \/ \E s \in Sessions :
                /\ h \in todo[s] /\ h \notin todo'[s] /\ queue'[s] = queue[s]
                /\ aggregate'[s] = aggregate[s] /\ queue[s] # <<>>
                /\ UNCHANGED eventHandlers
                /\ 1 \in 1..Len(queue[s])
                /\ delivered'[h] = Append(delivered[h], queue[s][1])
  <1>1. ASSUME NEW s \in Sessions, Deliver(s), delivered'[h] # delivered[h]
        PROVE  /\ h \in todo[s] /\ h \notin todo'[s] /\ queue'[s] = queue[s]
               /\ aggregate'[s] = aggregate[s] /\ queue[s] # <<>>
               /\ UNCHANGED eventHandlers
               /\ 1 \in 1..Len(queue[s])
               /\ delivered'[h] = Append(delivered[h], queue[s][1])
    <2>1. PICK g \in todo[s] :
            /\ g \in Handlers /\ queue[s] # <<>>
            /\ 1 \in 1..Len(queue[s])
            /\ delivered'[g] = Append(delivered[g], queue[s][1])
            /\ \A f \in Handlers \ {g} : delivered'[f] = delivered[f]
            /\ todo'[s] = todo[s] \ {g}
            /\ UNCHANGED <<aggregate, queue, eventHandlers>>
      BY <1>1, DeliverEffect
    <2>2. g = h
      BY <1>1, <2>1
    <2> QED
      BY <2>1, <2>2
  <1>2. ASSUME NEW s \in Sessions, SaveCommitted(s) \/ PublishNext(s)
        PROVE  UNCHANGED delivered
    BY <1>2 DEF SaveCommitted, PublishNext
  <1>3. ASSUME NEW g \in Handlers, AddHandler(g)
        PROVE  UNCHANGED delivered
    BY <1>3, AddHandlerEffect
  <1>4. Crash => UNCHANGED delivered
    BY DEF Crash
  <1> QED
    BY <1>1, <1>2, <1>3, <1>4, PublishingSteps

\* What a handler was given, was raised.
LEMMA GivenWasRaised ==
    ASSUME TypeOK, Ordered, Publishes, NEW h \in Handlers,
           NEW i \in 1..Len(delivered[h])
    PROVE  /\ delivered[h][i] \in Event
           /\ delivered[h][i].by \in Sessions
           /\ delivered[h][i].no <= raised[delivered[h][i].by]
  <1>1. delivered[h][i] \in Event
    BY DEF TypeOK
  <1>2. InLog(delivered[h][i])
    BY DEF Publishes, Stored
  <1> QED
    BY <1>1, <1>2, EventFields DEF Ordered, InLog

\* A handler stays behind what the session has still to publish.
LEMMA StepBehind ==
    ASSUME TypeOK, Working, Ordered, Publishes, Behind, [Next]_vars
    PROVE  Behind'
  <1> SUFFICES ASSUME NEW h \in Handlers, NEW i \in 1..Len(delivered'[h])
               PROVE  Past(h, delivered[h][i].by, delivered[h][i])'
    BY DEF Behind
  <1>1. ASSUME NEW s \in Sessions, NEW e \in Event
        PROVE  /\ Past(h, s, e) <=> PastQueue(h, s, e) /\ PastChanges(s, e)
               /\ Past(h, s, e)' <=> PastQueue(h, s, e)' /\ PastChanges(s, e)'
    BY DEF Past, PastQueue, PastChanges
  <1>2. delivered[h] \in Seq(Event)
    BY DEF TypeOK
  <1>3. ASSUME i \in 1..Len(delivered[h]), delivered'[h][i] = delivered[h][i]
        PROVE  Past(h, delivered[h][i].by, delivered[h][i])'
    <2>1. PICK e \in Event, s \in Sessions :
            e = delivered[h][i] /\ s = e.by /\ e.no <= raised[s]
      BY <1>3, GivenWasRaised
    <2>2. Past(h, s, e)
      BY <1>3, <2>1 DEF Behind
    <2>3. PastQueue(h, s, e)' /\ PastChanges(s, e)'
      BY <1>1, <2>1, <2>2, StaysBehindQueue, StaysBehindChanges
    <2>4. Past(h, s, e)'
      BY <1>1, <2>3
    <2>5. e = delivered'[h][i] /\ s = delivered'[h][i].by
      BY <1>3, <2>1
    <2> QED
      BY <2>4, <2>5 DEF Past
  <1>4. CASE delivered'[h] = delivered[h]
    BY <1>3, <1>4
  <1>5. ASSUME NEW s \in Sessions,
               h \in todo[s], h \notin todo'[s], queue'[s] = queue[s],
               aggregate'[s] = aggregate[s], queue[s] # <<>>,
               UNCHANGED eventHandlers,
               1 \in 1..Len(queue[s]),
               delivered'[h] = Append(delivered[h], queue[s][1])
        PROVE  Past(h, delivered[h][i].by, delivered[h][i])'
    <2>1. PICK e \in Event : e = queue[s][1]
      BY <1>5 DEF TypeOK
    <2>2. \/ i \in 1..Len(delivered[h]) /\ delivered'[h][i] = delivered[h][i]
          \/ delivered'[h][i] = e
      BY <1>2, <1>5, <2>1
    <2>3. ASSUME delivered'[h][i] = e
          PROVE  Past(h, delivered[h][i].by, delivered[h][i])'
      <3>1. e.by = s
        BY <1>5, <2>1 DEF Ordered, RaisedBy
      <3>2. PastChanges(s, e)'
        <4>1. \A a \in aggregate[s] : a.changes = <<>>
          BY <1>5 DEF Ordered
        <4> QED
          BY <1>5, <4>1 DEF PastChanges
      <3>3. h \in eventHandlers[queue[s][1].kind]
        BY <1>5 DEF Publishes
      <3>4. ASSUME NEW j \in 1..Len(queue[s]), j # 1
            PROVE  e.no < queue[s][j].no
        <4>1. 1 < j
          BY <3>4
        <4> QED
          BY <1>5, <2>1, <4>1 DEF Ordered, RaisedBy
      <3>5. PastQueue(h, s, e)'
        BY <1>5, <2>1, <3>3, <3>4 DEF PastQueue
      <3>6. Past(h, s, e)'
        BY <1>1, <3>2, <3>5
      <3> QED
        BY <2>3, <3>1, <3>6 DEF Past
    <2> QED
      BY <1>3, <2>2, <2>3
  <1> QED
    BY <1>4, <1>5, DeliverySteps

\* No delivery repeats an event of a session or comes before an earlier one.
LEMMA StepInOrder ==
    ASSUME TypeOK, Working, Ordered, Publishes, Behind, DeliveredInOrder,
           [Next]_vars
    PROVE  DeliveredInOrder'
  <1>1. \A h \in Handlers : /\ delivered[h] \in Seq(Event)
                            /\ DOMAIN delivered[h] = 1..Len(delivered[h])
                            /\ delivered'[h] \in Seq(Event)
                            /\ DOMAIN delivered'[h] = 1..Len(delivered'[h])
    BY StepTyping DEF TypeOK
  <1> SUFFICES ASSUME NEW h \in Handlers,
                      NEW i \in 1..Len(delivered'[h]), NEW j \in 1..Len(delivered'[h]),
                      i < j, delivered'[h][i].by = delivered'[h][j].by
               PROVE  delivered'[h][i].no < delivered'[h][j].no
    BY <1>1 DEF DeliveredInOrder
  <1>2. ASSUME i \in 1..Len(delivered[h]), j \in 1..Len(delivered[h]),
               delivered'[h][i] = delivered[h][i],
               delivered'[h][j] = delivered[h][j]
        PROVE  delivered'[h][i].no < delivered'[h][j].no
    BY <1>1, <1>2 DEF DeliveredInOrder
  <1>3. CASE delivered'[h] = delivered[h]
    BY <1>2, <1>3
  <1>4. ASSUME NEW s \in Sessions, h \in todo[s], 1 \in 1..Len(queue[s]),
               delivered'[h] = Append(delivered[h], queue[s][1])
        PROVE  delivered'[h][i].no < delivered'[h][j].no
    <2>1. /\ Len(delivered[h]) \in Nat
          /\ i \in 1..Len(delivered[h]) /\ delivered'[h][i] = delivered[h][i]
      BY <1>1, <1>4
    <2>2. \/ j \in 1..Len(delivered[h]) /\ delivered'[h][j] = delivered[h][j]
          \/ delivered'[h][j] = queue[s][1]
      BY <1>1, <1>4
    <2>3. ASSUME delivered'[h][j] = queue[s][1]
          PROVE  delivered'[h][i].no < delivered'[h][j].no
      <3>1. queue[s][1].by = s
        BY <1>4 DEF Ordered, RaisedBy
      <3>2. Past(h, s, delivered[h][i])
        BY <2>1, <2>3, <3>1 DEF Behind
      <3> QED
        BY <1>4, <2>1, <2>3, <3>2 DEF Past
    <2> QED
      BY <1>2, <2>1, <2>2, <2>3
  <1> QED
    BY <1>3, <1>4, DeliverySteps

-----------------------------------------------------------------------------
(* The theorems                                                              *)

\* An empty log, no aggregates and idle handlers are as the invariant says.
LEMMA InitInvariant == Init => IInv
  <1> SUFFICES ASSUME Init
               PROVE  IInv
    OBVIOUS
  <1>1. TypeOK
    BY InitTyping
  <1>2. /\ \A s \in Sessions : /\ aggregate[s] = {} /\ pc[s] = "idle"
                               /\ active[s] = {} /\ queue[s] = <<>> /\ todo[s] = {}
        /\ \A x \in StreamIds : log[x] = <<>>
        /\ \A h \in Handlers : delivered[h] = <<>>
    BY DEF Init, Store!Init
  <1>3. Working
    BY <1>2 DEF Working, Works
  <1>4. Ordered
    BY <1>2 DEF Ordered, RaisedBy
  <1>5. AggregateIsPrefix /\ Unsaved
    BY <1>2, DomainAssumption DEF AggregateIsPrefix, Unsaved
  <1>6. RaisedOnce
    <2>1. \A x \in StreamIds : DOMAIN log[x] = {}
      BY <1>2
    <2> QED
      BY <2>1 DEF RaisedOnce
  <1>7. Publishes
    BY <1>2 DEF Publishes, Stored
  <1>8. Behind
    BY <1>2 DEF Behind
  <1>9. DeliveredInOrder
    <2>1. \A h \in Handlers : DOMAIN delivered[h] = {}
      BY <1>2
    <2> QED
      BY <2>1 DEF DeliveredInOrder
  <1> QED
    BY <1>1, <1>3, <1>4, <1>5, <1>6, <1>7, <1>8, <1>9 DEF IInv

\* Every step keeps the invariant.
LEMMA StepInvariant ==
    ASSUME IInv, [Next]_vars
    PROVE  IInv'
  <1> USE DEF IInv
  <1>1. TypeOK' /\ Working' /\ Ordered'
    BY StepTyping, StepWorking, StepOrdered
  <1>2. AggregateIsPrefix' /\ Unsaved' /\ RaisedOnce'
    BY StepPrefix, StepUnsaved, StepRaisedOnce
  <1>3. Publishes' /\ Behind' /\ DeliveredInOrder'
    BY StepPublishes, StepBehind, StepInOrder
  <1> QED
    BY <1>1, <1>2, <1>3

\* The invariant holds in every reachable state.
LEMMA Invariant == Spec => []IInv
  <1>1. Init => IInv
    BY InitInvariant
  <1>2. IInv /\ [Next]_vars => IInv'
    BY StepInvariant
  <1> QED
    BY <1>1, <1>2, PTL DEF Spec

\* What a guarded session has loaded or saved is the beginning of its stream, and
\* its changes come on top (SqlDomainRepo.Load, Save): no other session's Append
\* ever slips in between.
THEOREM LoadedIsPrefix == Spec => []AggregateIsPrefix
  <1>1. IInv => AggregateIsPrefix
    BY DEF IInv
  <1> QED
    BY <1>1, Invariant, PTL

\* A Save that passes OriginalVersion and is repeated after a lost answer stores
\* its events once (Save keeps the changes of the aggregate when Append fails).
THEOREM GuardedOnce == Spec => []RaisedOnce
  <1>1. IInv => RaisedOnce
    BY DEF IInv
  <1> QED
    BY <1>1, Invariant, PTL

\* Handlers are told only of events of the repository (Save publishes after
\* Append has returned).
THEOREM OnlyStoredDelivered == Spec => []DeliveredIsStored
  <1>1. IInv => DeliveredIsStored
    <2> SUFFICES ASSUME IInv, NEW h \in Handlers, NEW e \in Range(delivered[h])
                 PROVE  \E x \in StreamIds : e \in Range(log[x])
      BY DEF DeliveredIsStored
    <2>1. delivered[h] \in Seq(Event) /\ \A x \in StreamIds : log[x] \in Seq(Event)
      BY DEF IInv, TypeOK
    <2>2. PICK i \in 1..Len(delivered[h]) : e = delivered[h][i]
      BY <2>1 DEF Range
    <2>3. InLog(e)
      BY <2>2 DEF IInv, Publishes, Stored
    <2>4. PICK x \in StreamIds : \E j \in 1..Len(log[x]) : log[x][j] = e
      BY <2>3 DEF InLog
    <2> QED
      BY <2>1, <2>4 DEF Range
  <1> QED
    BY <1>1, Invariant, PTL

\* No handler is given an event twice, and it gets the events of a session in the
\* order they were raised (InternalEventBus.PublishEvent, Save's loop).
THEOREM OrderedDelivery == Spec => []DeliveredInOrder
  <1>1. IInv => DeliveredInOrder
    BY DEF IInv
  <1> QED
    BY <1>1, Invariant, PTL

\* A guarded session's events enter the stream only behind exactly the events its
\* aggregate had applied when it raised them (Save, Append's expectedVersion).
THEOREM NoStaleDecision == Spec => DecisionsAreCurrent
  <1>1. IInv /\ [Next]_vars =>
            [\A s \in Guarded : \A a \in aggregate[s] :
               /\ active[s] # {} /\ active'[s] = {}
               /\ log'[a.stream] # log[a.stream]
               => log'[a.stream] = a.applied]_vars
    BY StepDecision DEF IInv
  <1> QED
    BY <1>1, Invariant, PTL DEF Spec, DecisionsAreCurrent

================================================================================
