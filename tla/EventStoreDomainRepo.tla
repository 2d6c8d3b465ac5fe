------------------------- MODULE EventStoreDomainRepo -------------------------
(***************************************************************************)
(* EventStoreDomainRepo (repository.go): Load and Save of an aggregate     *)
(* against one stream of a GetEventStore server, through the client        *)
(* go.geteventstore.                                                       *)
(*                                                                         *)
(* The server numbers the events of a stream from 0.  An append that       *)
(* expects a number is refused unless it is that of the last event; -1     *)
(* stands for a stream without events, and no number for any stream.  The  *)
(* client reads event after event, so the stream may grow under a Load.    *)
(***************************************************************************)
EXTENDS Integers, Sequences, SequencesExt

CONSTANTS
    Sessions,     \* goroutines that use the repository
    Passing,      \* what each of them gives Save as expectedVersion
    MaxRaised,    \* bound: events a session raises
    MaxStream,    \* bound: a stream as long as this is not saved to
    MaxFailures   \* bound: failures of the server or the process

\* "nil" is none, "original" is Int(OriginalVersion()), as the command handlers
\* of examples/simplecqrs and the tests pass it, "number" is one less: the
\* number of the last event the aggregate has been loaded with.
ASSUME GesAssumption ==
    /\ Passing \in [Sessions -> {"nil", "original", "number"}]
    /\ MaxRaised \in Nat /\ MaxStream \in Nat /\ MaxFailures \in Nat

VARIABLES
    stream,     \* the server: the events of the stream
    late,       \* appends whose answer nobody waits for any more
    agg,        \* the aggregate a session works on, if any
    pc,         \* what a session is doing
    outcome,    \* the answer of its last Load or Save
    raised,     \* events a session has raised so far
    outbox,     \* saved events still to publish, with their versions
    published,  \* the events and versions the bus has been given
    failures

vars == <<stream, late, agg, pc, outcome, raised, outbox, published, failures>>

NoOne == "another application"
\* seen: CurrentVersion() of the aggregate when it raised the event.
Event == [by : Sessions, no : 1..MaxRaised, seen : Nat]
Foreign == [by |-> NoOne, no |-> 0, seen |-> 0]

Stored == Event \cup {Foreign}

Aggregate == [version : Nat, applied : Seq(Stored),
              changes : Seq(Event), loaded : BOOLEAN]

Publication == [event : Event, version : Int]
Request == [expected : SUBSET Int, events : Seq(Event)]

\* Variant: the version of an aggregate without events is -1.
NewAggregateBaseBelow == [version |-> -1, applied |-> <<>>, changes |-> <<>>,
                          loaded |-> FALSE]

NewAggregateBase == [version |-> 0, applied |-> <<>>, changes |-> <<>>,
                     loaded |-> FALSE]

OriginalVersion(a) == a.version
CurrentVersion(a) == a.version + Len(a.changes)

Init ==
    /\ stream = <<>>
    /\ late = {}
    /\ agg = [s \in Sessions |-> {}]
    /\ pc = [s \in Sessions |-> "idle"]
    /\ outcome = [s \in Sessions |-> "none"]
    /\ raised = [s \in Sessions |-> 0]
    /\ outbox = [s \in Sessions |-> <<>>]
    /\ published = {}
    /\ failures = 0

Goes(s, to, answer) ==
    /\ pc' = [pc EXCEPT ![s] = to]
    /\ outcome' = [outcome EXCEPT ![s] = answer]

Becomes(s, a) == agg' = [agg EXCEPT ![s] = {a}]

NewAggregate(s) ==
    /\ pc[s] = "idle"
    /\ Becomes(s, NewAggregateBase)
    /\ Goes(s, "idle", "none")
    /\ UNCHANGED <<stream, late, raised, outbox, published, failures>>

-----------------------------------------------------------------------------
(* Load                                                                    *)

Load(s) ==
    /\ pc[s] = "idle"
    /\ agg[s] = {NewAggregateBase}
    /\ Goes(s, "loading", "none")
    /\ UNCHANGED <<stream, late, agg, raised, outbox, published, failures>>

Loaded(a) == [version |-> a.version, applied |-> a.applied,
              changes |-> a.changes, loaded |-> TRUE]

\* InventoryItemRepo turns ErrAggregateNotFound into no aggregate and no error.
NoAggregate(s) == agg' = [agg EXCEPT ![s] = {}] /\ Goes(s, "idle", "not found")

\* ErrNoMoreEvents ends the loop; the first read of a stream without events is
\* ErrNotFound.
LoadEnds(s) ==
    /\ pc[s] = "loading"
    /\ \E a \in agg[s] :
        /\ Len(a.applied) = Len(stream)
        /\ IF stream = <<>>
           THEN NoAggregate(s)
           ELSE Becomes(s, Loaded(a)) /\ Goes(s, "idle", "ok")
    /\ UNCHANGED <<stream, late, raised, outbox, published, failures>>

\* Variant: the event is applied and the version left alone.
AppliedUncounted(a, e) ==
    [version |-> a.version, applied |-> Append(a.applied, e),
     changes |-> a.changes, loaded |-> a.loaded]

\* Apply and IncrementVersion.
Applied(a, e) ==
    [version |-> a.version + 1, applied |-> Append(a.applied, e),
     changes |-> a.changes, loaded |-> a.loaded]

LoadNext(s) ==
    /\ pc[s] = "loading"
    /\ \E a \in agg[s] :
        /\ Len(a.applied) < Len(stream)
        /\ Becomes(s, Applied(a, stream[Len(a.applied) + 1]))
    /\ UNCHANGED <<stream, late, pc, outcome, raised, outbox, published, failures>>

\* GetEvent has no delegate for the name and returns nil: Scan or Apply may
\* refuse it, and what has been applied stays.  LoadNext is when neither does.
LoadUnknown(s) ==
    /\ pc[s] = "loading"
    /\ \E a \in agg[s] :
        /\ Len(a.applied) < Len(stream)
        /\ stream[Len(a.applied) + 1] = Foreign
    /\ Goes(s, "idle", "error")
    /\ UNCHANGED <<stream, late, agg, raised, outbox, published, failures>>

\* Unauthorized, unavailable or unexpected, at any event.
LoadFails(s) ==
    /\ pc[s] = "loading"
    /\ failures < MaxFailures
    /\ failures' = failures + 1
    /\ Goes(s, "idle", "error")
    /\ UNCHANGED <<stream, late, agg, raised, outbox, published>>

-----------------------------------------------------------------------------
(* Raising events, and Save                                                *)

\* The event the session raises, and the aggregate that keeps it.
NextEvent(s, a) == [by |-> s, no |-> raised[s] + 1, seen |-> CurrentVersion(a)]
Raised(s, a) == [version |-> a.version, applied |-> a.applied,
                 changes |-> Append(a.changes, NextEvent(s, a)),
                 loaded |-> a.loaded]

TrackChange(s) ==
    /\ pc[s] = "idle"
    /\ raised[s] < MaxRaised
    /\ \E a \in agg[s] : Becomes(s, Raised(s, a))
    /\ raised' = [raised EXCEPT ![s] = @ + 1]
    /\ UNCHANGED <<stream, late, pc, outcome, outbox, published, failures>>

ExpectedVersion(s, a) ==
    IF Passing[s] = "nil" THEN {}
    ELSE IF Passing[s] = "original" THEN {OriginalVersion(a)}
    ELSE {OriginalVersion(a) - 1}

\* Variant: Save does not pass the expected version on.
AcceptedUnasked(expected) == TRUE

\* What the server compares.
Accepted(expected) == \A v \in expected : v = Len(stream) - 1

\* Variant: the first event is given the number that was expected.
VersionsOffByOne(expected, events) ==
    [k \in DOMAIN events |->
        [event |-> events[k],
         version |-> IF expected = {} THEN events[k].seen
                     ELSE (CHOOSE v \in expected : TRUE) + k - 1]]

\* The versions Save publishes: its own of an event, or counted on from the
\* number expected.
Versions(expected, events) ==
    [k \in DOMAIN events |->
        [event |-> events[k],
         version |-> IF expected = {} THEN events[k].seen
                     ELSE (CHOOSE v \in expected : TRUE) + k]]

\* Variant: the changes stay with the aggregate.
ClearChangesNot(a) == a

ClearChanges(a) == [version |-> a.version, applied |-> a.applied,
                    changes |-> <<>>, loaded |-> a.loaded]

Save(s) ==
    /\ pc[s] = "idle"
    /\ Len(stream) < MaxStream
    /\ \E a \in agg[s] : \E expected \in {ExpectedVersion(s, a)} :
        /\ a.changes = <<>> \/ Accepted(expected)
        /\ stream' = stream \o a.changes
        /\ outbox' = [outbox EXCEPT ![s] = Versions(expected, a.changes)]
        /\ Becomes(s, ClearChanges(a))
    /\ Goes(s, "publishing", "none")
    /\ UNCHANGED <<late, raised, published, failures>>

SaveRefused(s) ==
    /\ pc[s] = "idle"
    /\ \E a \in agg[s] : a.changes # <<>> /\ ~Accepted(ExpectedVersion(s, a))
    /\ Goes(s, "idle", "refused")
    /\ UNCHANGED <<stream, late, agg, raised, outbox, published, failures>>

\* The call fails, and what it sent may be lost or arrive at any time later:
\* the changes stay, and the next Save sends them under new event ids.
SaveFails(s) ==
    /\ pc[s] = "idle"
    /\ failures < MaxFailures
    /\ failures' = failures + 1
    /\ \E a \in agg[s] :
        /\ a.changes # <<>>
        /\ late' = late \cup {[expected |-> ExpectedVersion(s, a),
                              events |-> a.changes]}
    /\ Goes(s, "idle", "error")
    /\ UNCHANGED <<stream, agg, raised, outbox, published>>

LateAppend ==
    /\ Len(stream) < MaxStream
    /\ \E request \in late :
        /\ Accepted(request.expected)
        /\ stream' = stream \o request.events
        /\ late' = late \ {request}
    /\ UNCHANGED <<agg, pc, outcome, raised, outbox, published, failures>>

PublishNext(s) ==
    /\ pc[s] = "publishing"
    /\ IF outbox[s] = <<>>
       THEN Goes(s, "idle", "ok") /\ UNCHANGED <<outbox, published>>
       ELSE /\ published' = published \cup {Head(outbox[s])}
            /\ outbox' = [outbox EXCEPT ![s] = Tail(@)]
            /\ UNCHANGED <<pc, outcome>>
    /\ UNCHANGED <<stream, late, agg, raised, failures>>

\* Another application writes an event of a name the factory does not know.
ForeignAppend ==
    /\ Len(stream) < MaxStream
    /\ stream' = Append(stream, Foreign)
    /\ UNCHANGED <<late, agg, pc, outcome, raised, outbox, published, failures>>

\* The process ends, and starts again with nothing but the stream.
Crash ==
    /\ failures < MaxFailures
    /\ failures' = failures + 1
    /\ agg' = [s \in Sessions |-> {}]
    /\ pc' = [s \in Sessions |-> "idle"]
    /\ outcome' = [s \in Sessions |-> "none"]
    /\ outbox' = [s \in Sessions |-> <<>>]
    /\ UNCHANGED <<stream, late, raised, published>>

Next ==
    \/ ForeignAppend \/ LateAppend \/ Crash
    \/ \E s \in Sessions :
        \/ NewAggregate(s) \/ Load(s) \/ LoadNext(s) \/ LoadEnds(s)
        \/ LoadUnknown(s) \/ LoadFails(s)
        \/ TrackChange(s) \/ Save(s) \/ SaveRefused(s) \/ SaveFails(s)
        \/ PublishNext(s)

Spec == Init /\ [][Next]_vars

-----------------------------------------------------------------------------
\* Every variable keeps its type.
TypeOK ==
    /\ stream \in Seq(Stored)
    /\ late \subseteq Request
    /\ agg \in [Sessions -> SUBSET Aggregate]
    /\ pc \in [Sessions -> {"idle", "loading", "publishing"}]
    /\ outcome \in [Sessions -> {"none", "ok", "not found", "refused", "error"}]
    /\ raised \in [Sessions -> 0..MaxRaised]
    /\ outbox \in [Sessions -> Seq(Publication)]
    /\ published \subseteq Publication
    /\ failures \in 0..MaxFailures

\* However a Load has ended, the aggregate has applied the beginning of the
\* stream, and its version is the number of events that is.
AggregateIsLoadedPrefix ==
    \A s \in Sessions : \A a \in agg[s] :
        /\ IsPrefix(a.applied, stream)
        /\ a.version = Len(a.applied)

Numbered(s) == Passing[s] = "number"
StoredAt(i, e) == i \in DOMAIN stream /\ stream[i] = e

\* A session that expects the number of the last event it knows stores an event
\* under the number its aggregate gave it: nothing has come in between, no event
\* is stored twice by a retry, and a Load that broke off cannot be built on.
NumberedAsDecided ==
    \A i \in DOMAIN stream :
        stream[i] # Foreign /\ Numbered(stream[i].by) => stream[i].seen = i - 1

\* Every event published by a session that expects a number is in the stream
\* under the version it is published with.
PublishedAsNumbered ==
    \A p \in published :
        Passing[p.event.by] # "nil" => StoredAt(p.version + 1, p.event)

\* A save that expects OriginalVersion() gets through only when there is exactly
\* one event the aggregate has not seen: its events are one number further on
\* than the aggregate that raised them knows.
OriginalMissesOne ==
    \A i \in DOMAIN stream :
        stream[i] # Foreign /\ Passing[stream[i].by] = "original" =>
            stream[i].seen = i - 2

\* As long as no call fails, an event is stored once, whatever Save is given and
\* however often it is called; what is stored is what sessions have raised.
StoredOnce ==
    failures = 0 => \A i, j \in DOMAIN stream :
        stream[i] # Foreign =>
            /\ stream[i] = stream[j] => i = j
            /\ stream[i].no <= raised[stream[i].by]

\* aggregate.go:51-53, "an aggregate with one event applied will be at version 0
\* this allows the aggregates to match the version in the eventstore where the
\* first event will be version 0": the version of an aggregate that has just been
\* loaded is the number of the event it was loaded with last.
OriginalVersionIsLastNumber ==
    \A s \in Sessions : \A a \in agg[s] :
        a.loaded => OriginalVersion(a) = Len(a.applied) - 1
=============================================================================
