----------------------------- MODULE SqlDomainRepo -----------------------------
(***************************************************************************)
(* SqlDomainRepo (sqlrepository.go) with the aggregates it loads and saves *)
(* (aggregate.go) and the InternalEventBus it publishes to (eventbus.go),  *)
(* on top of the event repository as EventLog describes it.                *)
(*                                                                         *)
(* A session is a goroutine that handles one command after the other: it   *)
(* makes an aggregate, loads it, raises events on it and saves it, as the  *)
(* command handlers of examples/simplecqrs do.  Save publishes to the bus  *)
(* in the same goroutine, handler after handler.  A crash ends the process *)
(* between any two steps.                                                  *)
(***************************************************************************)
EXTENDS Integers, Sequences, FiniteSets, SequencesExt

CONSTANTS
    Sessions,       \* goroutines that use the repository
    Guarded,        \* those that pass Int(OriginalVersion()); others pass nil
    StreamIds, EmptyStreamId,
    Kinds,          \* event names
    Known,          \* event names the event factory has a delegate for
    Handlers,       \* event handlers
    MaxChanges,     \* bound: events a session raises
    MaxEvents,      \* bound: a stream as long as this is not saved to
    MaxCrashes      \* bound: crashes of the process

ASSUME DomainAssumption ==
    /\ Guarded \subseteq Sessions
    /\ EmptyStreamId \in StreamIds
    /\ Known \subseteq Kinds
    /\ MaxChanges \in Nat
    /\ MaxEvents \in Nat
    /\ MaxCrashes \in Nat

VARIABLES
    log, active, outcome,  \* the event repository, see EventLog
    aggregate,      \* the aggregate a session works on, if any
    raised,         \* events a session has raised so far
    pc,             \* what a session is doing
    queue,          \* saved events still to publish, the first under way
    todo,           \* handlers the first of them still goes to
    eventHandlers,  \* the bus: the handlers of each event name
    delivered,      \* the events each handler has been given, in order
    crashes

storeVars == <<log, active, outcome>>
vars == <<log, active, outcome, aggregate, raised, pc, queue, todo,
          eventHandlers, delivered, crashes>>

\* An event is known by who raised it, and as which of the events it raised.
Event == [by : Sessions, no : 1..MaxChanges, kind : Kinds]

Aggregate == [stream : StreamIds, version : Nat, applied : Seq(Event),
              changes : Seq(Event)]

Store == INSTANCE EventLog WITH Clients <- Sessions, Events <- Event

Init ==
    /\ Store!Init
    /\ aggregate = [s \in Sessions |-> {}]
    /\ raised = [s \in Sessions |-> 0]
    /\ pc = [s \in Sessions |-> "idle"]
    /\ queue = [s \in Sessions |-> <<>>]
    /\ todo = [s \in Sessions |-> {}]
    /\ eventHandlers = [k \in Kinds |-> {}]
    /\ delivered = [h \in Handlers |-> <<>>]
    /\ crashes = 0

OriginalVersion(a) == a.version
CurrentVersion(a) == a.version + Len(a.changes)

-----------------------------------------------------------------------------
NewAggregate(s) ==
    /\ pc[s] = "idle"
    /\ \E stream \in StreamIds \ {EmptyStreamId} :
        aggregate' = [aggregate EXCEPT ![s] =
            {[stream |-> stream, version |-> 0, applied |-> <<>>,
              changes |-> <<>>]}]
    /\ UNCHANGED <<storeVars, raised, pc, queue, todo, eventHandlers, delivered,
                   crashes>>

\* One query reads the stream; every event is converted before the first one
\* is applied, so an unknown event name leaves the aggregate as it was.
Load(s) ==
    /\ pc[s] = "idle"
    /\ \E a \in aggregate[s] :
        /\ a.applied = <<>>
        /\ \A i \in DOMAIN log[a.stream] : log[a.stream][i].kind \in Known
        /\ aggregate' = [aggregate EXCEPT ![s] =
              {[a EXCEPT !.applied = @ \o log[a.stream],
                         !.version = @ + Len(log[a.stream])]}]
    /\ UNCHANGED <<storeVars, raised, pc, queue, todo, eventHandlers, delivered,
                   crashes>>

\* The aggregate raises an event: it applies it and tracks it as a change.
TrackChange(s) ==
    /\ pc[s] = "idle"
    /\ raised[s] < MaxChanges
    /\ \E a \in aggregate[s], k \in Kinds :
        LET e == [by |-> s, no |-> raised[s] + 1, kind |-> k]
        IN  aggregate' = [aggregate EXCEPT ![s] =
                {[a EXCEPT !.applied = Append(@, e),
                           !.changes = Append(@, e)]}]
    /\ raised' = [raised EXCEPT ![s] = @ + 1]
    /\ UNCHANGED <<storeVars, pc, queue, todo, eventHandlers, delivered, crashes>>

\* Variant: the version after the save instead of the one before.
ExpectedVersionCurrent(s, a) == IF s \in Guarded THEN {CurrentVersion(a)} ELSE {}

ExpectedVersion(s, a) == IF s \in Guarded THEN {OriginalVersion(a)} ELSE {}

\* Save hands the changes to Append ...
Save(s) ==
    /\ pc[s] = "idle"
    /\ \E a \in aggregate[s] :
        /\ Len(log[a.stream]) < MaxEvents
        /\ Store!BeginWith(s, [op |-> "append", stream |-> a.stream,
                               ids |-> a.changes,
                               expected |-> ExpectedVersion(s, a)])
    /\ pc' = [pc EXCEPT ![s] = "saving"]
    /\ UNCHANGED <<aggregate, raised, queue, todo, eventHandlers, delivered,
                   crashes>>

\* ... which refuses the empty stream name and events that do not marshal,
SaveRejected(s) ==
    /\ pc[s] = "idle"
    /\ aggregate[s] # {}
    /\ Store!Reject(s)
    /\ UNCHANGED <<aggregate, raised, pc, queue, todo, eventHandlers, delivered,
                   crashes>>

\* The handlers PublishEvent finds for the first event of a queue.
Subscribed(events) ==
    IF events = <<>> THEN {} ELSE eventHandlers[Head(events).kind]

\* Variant: the loop does not notice that there are no changes.
PublishingAlways(events) == "publishing"

Publishing(events) == IF events = <<>> THEN "idle" ELSE "publishing"

\* Variant: publishes although Append has failed.
SaveFailedPublishes(s) ==
    /\ pc[s] = "saving"
    /\ Store!Refuse(s) \/ Store!Fail(s)
    /\ \E a \in aggregate[s] :
        /\ queue' = [queue EXCEPT ![s] = a.changes]
        /\ todo' = [todo EXCEPT ![s] = Subscribed(a.changes)]
        /\ pc' = [pc EXCEPT ![s] = Publishing(a.changes)]
    /\ UNCHANGED <<aggregate, raised, eventHandlers, delivered, crashes>>

\* ... or fails, and the aggregate keeps its changes for another Save,
SaveFailed(s) ==
    /\ pc[s] = "saving"
    /\ \/ Store!AppendBatch(s) /\ outcome'[s] = "error"
       \/ Store!Refuse(s)
       \/ Store!Fail(s)
    /\ pc' = [pc EXCEPT ![s] = "idle"]
    /\ UNCHANGED <<aggregate, raised, queue, todo, eventHandlers, delivered,
                   crashes>>

\* Variants: setVersion is missing; ClearChanges is missing.
SavedKeepsVersion(a) == [a EXCEPT !.changes = <<>>]

SavedKeepsChanges(a) == [a EXCEPT !.version = CurrentVersion(a)]

\* The aggregate moves to its current version and forgets its changes.
Saved(a) == [a EXCEPT !.version = CurrentVersion(a), !.changes = <<>>]

\* Variant: the last event first.
ToPublishBackwards(a) == Reverse(a.changes)

ToPublish(a) == a.changes

\* ... or succeeds, and the events are published one by one.
SaveCommitted(s) ==
    /\ pc[s] = "saving"
    /\ Store!AppendBatch(s)
    /\ outcome'[s] = "ok"
    /\ \E a \in aggregate[s] :
        /\ aggregate' = [aggregate EXCEPT ![s] = {Saved(a)}]
        /\ queue' = [queue EXCEPT ![s] = ToPublish(a)]
        /\ todo' = [todo EXCEPT ![s] = Subscribed(ToPublish(a))]
        /\ pc' = [pc EXCEPT ![s] = Publishing(ToPublish(a))]
    /\ UNCHANGED <<raised, eventHandlers, delivered, crashes>>

\* PublishEvent calls the handlers of the event in any order.
Deliver(s) ==
    \E h \in todo[s] :
        /\ delivered' = [delivered EXCEPT ![h] = Append(@, Head(queue[s]))]
        /\ todo' = [todo EXCEPT ![s] = @ \ {h}]
        /\ UNCHANGED <<storeVars, aggregate, raised, pc, queue, eventHandlers,
                       crashes>>

\* Variant: the loop ends after the first event.
PublishNextFirstOnly(s) ==
    /\ pc[s] = "publishing"
    /\ todo[s] = {}
    /\ queue' = [queue EXCEPT ![s] = <<>>]
    /\ pc' = [pc EXCEPT ![s] = "idle"]
    /\ UNCHANGED <<storeVars, aggregate, raised, todo, eventHandlers, delivered,
                   crashes>>

PublishNext(s) ==
    /\ pc[s] = "publishing"
    /\ todo[s] = {}
    /\ queue' = [queue EXCEPT ![s] = Tail(@)]
    /\ todo' = [todo EXCEPT ![s] = Subscribed(Tail(queue[s]))]
    /\ pc' = [pc EXCEPT ![s] = Publishing(Tail(queue[s]))]
    /\ UNCHANGED <<storeVars, aggregate, raised, eventHandlers, delivered,
                   crashes>>

\* h becomes a handler of the event that s publishes.
Joins(s, h, events) ==
    /\ queue[s] # <<>>
    /\ Head(queue[s]).kind \in events
    /\ h \notin eventHandlers[Head(queue[s]).kind]

\* A goroutine that is ranging over the handlers of an event when another one
\* is registered for it may meet the new one or not.  The bus has no lock: Go may
\* also end the process here, which is Crash.
AddHandler(h) ==
    \E events \in SUBSET Kinds :
        /\ eventHandlers' = [k \in Kinds |-> IF k \in events
                                             THEN eventHandlers[k] \cup {h}
                                             ELSE eventHandlers[k]]
        /\ \E meeting \in SUBSET {s \in Sessions : Joins(s, h, events)} :
            todo' = [s \in Sessions |-> IF s \in meeting THEN todo[s] \cup {h}
                                                        ELSE todo[s]]
        /\ UNCHANGED <<storeVars, aggregate, raised, pc, queue, delivered,
                       crashes>>

\* The process dies and starts again: aggregates, registrations and what was
\* not published are gone, an Append under way is rolled back.
Crash ==
    /\ crashes < MaxCrashes
    /\ crashes' = crashes + 1
    /\ active' = [s \in Sessions |-> {}]
    /\ outcome' = [s \in Sessions |-> "none"]
    /\ aggregate' = [s \in Sessions |-> {}]
    /\ pc' = [s \in Sessions |-> "idle"]
    /\ queue' = [s \in Sessions |-> <<>>]
    /\ todo' = [s \in Sessions |-> {}]
    /\ eventHandlers' = [k \in Kinds |-> {}]
    /\ UNCHANGED <<log, raised, delivered>>

-----------------------------------------------------------------------------
Prepare(s) == NewAggregate(s) \/ Load(s) \/ TrackChange(s) \/ Save(s)
              \/ SaveRejected(s)

Finish(s) == SaveCommitted(s) \/ SaveFailed(s) \/ Deliver(s) \/ PublishNext(s)

Next ==
    \/ \E s \in Sessions : Prepare(s) \/ Finish(s)
    \/ \E h \in Handlers : AddHandler(h)
    \/ Crash

Spec == Init /\ [][Next]_vars

\* A Save under way goes on: Append returns, and the loop over the events and
\* their handlers, which do not block, runs to its end.
FairSpec == Spec /\ \A s \in Sessions : WF_vars(Finish(s))

-----------------------------------------------------------------------------
\* Every variable keeps its type, and only a session that publishes has events
\* left to publish.
TypeOK ==
    /\ log \in [StreamIds -> Seq(Event)]
    /\ active \in [Sessions -> SUBSET Store!Request]
    /\ aggregate \in [Sessions -> SUBSET Aggregate]
    /\ raised \in [Sessions -> 0..MaxChanges]
    /\ pc \in [Sessions -> {"idle", "saving", "publishing"}]
    /\ queue \in [Sessions -> Seq(Event)]
    /\ todo \in [Sessions -> SUBSET Handlers]
    /\ eventHandlers \in [Kinds -> SUBSET Handlers]
    /\ delivered \in [Handlers -> Seq(Event)]
    /\ \A s \in Sessions :
        /\ pc[s] = "publishing" <=> queue[s] # <<>>
        /\ todo[s] # {} => queue[s] # <<>>

\* What a guarded session has saved or loaded is the beginning of the stream,
\* whatever other sessions, guarded or not, append meanwhile: version counts
\* it, and the changes come on top.  A fresh aggregate has saved nothing.
AggregateIsPrefix ==
    \A s \in Guarded : \A a \in aggregate[s] :
        /\ a.version <= Len(log[a.stream])
        /\ a.applied = SubSeq(log[a.stream], 1, a.version) \o a.changes

\* A guarded session's event is in the streams at most once, also when the
\* answer to its Append was lost and the session saves the aggregate again.
RaisedOnce ==
    \A x, y \in StreamIds : \A i \in DOMAIN log[x], j \in DOMAIN log[y] :
        log[x][i] = log[y][j] /\ log[x][i].by \in Guarded => x = y /\ i = j

\* A guarded session's events enter a stream only behind exactly the events
\* its aggregate had applied when it raised them: no decision is made on a
\* history that another session has continued.
DecisionsAreCurrent ==
    [][\A s \in Guarded : \A a \in aggregate[s] :
          /\ active[s] # {} /\ active'[s] = {}
          /\ log'[a.stream] # log[a.stream]
          => log'[a.stream] = a.applied]_vars

\* No handler is told of an event that is not in the repository: events are
\* published after the transaction that stores them.
DeliveredIsStored ==
    \A h \in Handlers : \A e \in Range(delivered[h]) :
        \E x \in StreamIds : e \in Range(log[x])

\* No handler is given an event twice, and each gets the events of a session in
\* the order they were raised, although handlers are called in any order and a
\* crash may cut a batch short.
DeliveredInOrder ==
    \A h \in Handlers : \A i, j \in DOMAIN delivered[h] :
        i < j /\ delivered[h][i].by = delivered[h][j].by =>
            delivered[h][i].no < delivered[h][j].no

\* Without crashes, a handler that is registered for an event before its Save
\* ends is given the event, or Save has returned an error.
EventuallyDelivered ==
    \A s \in Sessions, h \in Handlers, e \in Event :
        (/\ pc[s] = "saving"
         /\ \E a \in aggregate[s] : e \in Range(a.changes)
         /\ h \in eventHandlers[e.kind])
        ~> \/ e \in Range(delivered[h])
           \/ pc[s] = "idle" /\ outcome[s] # "ok"
=============================================================================
