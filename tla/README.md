# go.cqrs in TLA+

This directory specifies go.cqrs (package `ycq`): the event store on SQL tables,
its reader, the two domain repositories, the event bus, the registries, and the
inventory application of `examples/simplecqrs`. TLC checks the specification on small
instances, TLAPS proves every safety property of every part for instances of any size. Paths
below are relative to the repository; line numbers are those of the source the modules were
written from.

- [The system](#the-system): its components, their state and operations, what is hard about them
- [The modules](#the-modules): which module models which code, and how
- [What is checked](#what-is-checked): the runs, their bounds, the fairness they assume
- [What is proved](#what-is-proved): the theorems, the invariant, the assumptions
- [What the models found](#what-the-models-found)
- [What is not modelled](#what-is-not-modelled)
- [Plan](#plan)

## The system

go.cqrs is a library for event-sourced programs. A command reaches a handler
through a dispatcher; the handler loads an aggregate by replaying its event
stream, lets it raise events, and saves it; saving appends the events to the
stream under optimistic concurrency and then publishes them to handlers in the
same process, which build read models.

    HTTP request --> Dispatcher --> CommandHandler --> DomainRepository --+--> EventRepository --> PostgreSQL
                                        |  raise events     Load / Save   |       Append, Link, DeleteStream, Read
                                        v                                 |
                                     AggregateBase                        +--> EventBus --> EventHandlers (read models)

Everything but the database lives in one process. Goroutines are the caller's:
the library starts none and takes no lock (outside `internal/uuid`). Whatever
several goroutines do to a stream meets in the database, in the transactions of
`sqleventrepository.go` and the unique index on `(stream_id, stream_version)`.

### Components

| Component | State | Operations | What is hard | What makes it correct |
|---|---|---|---|---|
| **SqlEventRepository, writing** (`sqleventrepository.go` 290-449) | tables `event_store` (the events) and `event_stream` (stream, version, event; replayed by `id`) | `Append`: one transaction that inserts the events, then for each event reads the last version, compares `expectedVersion` and inserts a row. `Link`: the same loop over existing events, without a transaction. `DeleteStream`: one `DELETE` | two writers read the same last version; ids are drawn before commits; a batch fails half-way; `Link` has no transaction; a commit succeeds and its answer is lost | versions without gap or duplicate; replay order is version order; streams only grow at the end; an expected version holds at the moment the events become visible; batches are all or nothing; calls return |
| **SqlEventRepository, reading** (50-283) | one reader object per `Read(ctx)`, which every builder call changes | `Stream`, `FromTime` ... `Limit` build it; `Event`, `Events`, `Count`, `ToList`, `Last`, `GetStreamIdOf`, ... run it | combinations of bounds nobody tries; a reader asked twice, which is one mutable statement; ids that become visible out of order | a reader that answers gives the events within its bounds; lookups agree with one another; a follower misses nothing of a stream |
| **SqlDomainRepo** (`sqlrepository.go`) | none of its own | `Load`: read the stream, make the events, replay. `Save`: `Append`, then set the aggregate's version, clear its changes, publish | the three effects of `Save` are not atomic: lost answers, retries and crashes fall between them | what the aggregate believes of its stream is true; an event is stored once; what is published is stored |
| **AggregateBase** (`aggregate.go`) | `version`, `changes` | `TrackChange`, `ClearChanges`, `setVersion`, `IncrementVersion`, `OriginalVersion`, `CurrentVersion` | `version` is counted here, and compared there | `version` is the length of the prefix of the stream it has seen |
| **InternalEventBus** (`eventbus.go`) | handlers of each event name | `AddHandler`, `PublishEvent` (synchronous, handlers in map order) | a map without a lock; publication cut short by a crash | every handler gets every event once, a session's events in order |
| **EventStoreDomainRepo** (`repository.go`) | none of its own; an external GetEventStore server | `Load` event by event, `Save` | errors in the middle of a stream; appends that arrive late; a server that numbers from 0 and an aggregate that counts from 1 | the aggregate is a prefix of the stream; events are stored and published under the numbers they were decided with |
| **Registries** (`dispatcher.go`, `eventfactory.go`, `aggregatefactory.go`, `streamnamer.go`) | a map each | register one or several instances, look up | a registration of several names that is refused half-way; types whose names differ in the package only | a name is bound to the first delegate it was given, for good |
| **Inventory application** (`examples/simplecqrs`) | the in-memory repository, the list view, the detail view | five commands and the pages, each in its HTTP goroutine | maps and slices shared without a lock; an ignored expected version; dropped errors; handlers that end the process | as long as requests keep to different items: stock never negative, views follow the history, accepted commands are stored |
| Messages, errors, UUIDs, ORM, migrations | | | data, vendored and generated code, I/O | |

`PROJECT.json` lists the components with their files and status, and under
`hazards` the places where this code can go wrong in ways a unit test hardly
reaches, each with the properties that would notice.

## The modules

| Module | Models |
|---|---|
| `EventLog` | what the `EventRepository` interface gives its callers: each stream a log, `Append` one atomic step, `Link` one step per event |
| `SqlEventRepository` | `Append`, `Link` and `DeleteStream` statement by statement, with the tables and transactions they run on |
| `SqlEventRepositoryProofs` | proofs about its tables: versions, order, expectations |
| `SqlEventRepositoryCallsProofs` | proofs about its calls: what each one leaves in the tables |
| `SqlEventRepositoryRefinement` | the proof that it implements `EventLog` |
| `EventReader` | the reader and everything it can be asked, over tables that change meanwhile; followers |
| `EventReaderProofs` | proofs about it |
| `SqlDomainRepo` | `SqlDomainRepo`, `AggregateBase` and `InternalEventBus` together, over `EventLog` |
| `SqlDomainRepoProofs` | proofs about them |
| `EventStoreDomainRepo` | `EventStoreDomainRepo` with `AggregateBase`, against a GetEventStore server |
| `EventStoreDomainRepoProofs` | proofs about it |
| `Registries` | the dispatcher, both factories and the stream namer |
| `RegistriesProofs` | proofs about them |
| `SimpleCqrs` | the inventory application from its HTTP handlers down to its in-memory repository |
| `SimpleCqrsProofs` | proofs about it |
| `MC...` | model values, symmetry sets and functions for the small instances; the `.cfg` of a run says which |

The parts meet in two places. `SqlEventRepository` implements `EventLog` (checked and proved)
and `SqlDomainRepo` is built on `EventLog`, so the domain repository is checked against
the few steps of the log instead of the statements of two tables. `EventReader` has
the same two tables as `SqlEventRepository`, with the writers in the coarser steps that a
reader can tell apart: begin, an insert that draws its id, the same insert done, commit, roll back.

Definitions marked "Variant" are slips one could make in the code (a guard
dropped, a reset forgotten). No specification uses them; putting one in the place
of the definition after it must break the property named in `PROJECT.json`.

### SqlEventRepository

State and code correspond as follows.

- `eventStore`, `eventStream`: the committed rows of the two tables. A row of
  `event_stream` is `[id, stream, version, event]`; creation times, event names
  and payloads are left out.
- `txStore`, `txStream`: rows a transaction has written and not committed.
- `lastId`: the sequence behind the `BIGSERIAL` `id`. As in PostgreSQL it is
  advanced by an insert that later waits, fails or is rolled back.
- `pc`, `call`, `done`, `last`, `inserting`: where each goroutine is in
  `appendToStream` or `Link`: its arguments, how many events of the loop are
  done, the `lastVersion` it has read, and the row it is trying to insert.
- `result`: what its latest call returned. `calls`: how many have begun (a bound,
  and the source of fresh event ids).

An action is one statement, the unit at which the database lets calls
interleave: `AppendToStream`/`Link` (the call starts), `InsertEvents`,
`CheckEvents`/`EventMissing`, `ReadLastVersion`/`WrongVersion`, `StartInsert`
(the row's id is drawn), `FinishInsert`/`UniqueViolation`, `Commit`,
`FinishLink`, and `DeleteStream`. `Reject` is the early return on an empty
stream name or an event that does not marshal. Each statement can also fail
(`DbError`: connection lost, context cancelled), and a commit can succeed
while its answer is lost (`Commit` with result `"error"`,
`LinkUnacknowledged`).

The database is the external part. It is PostgreSQL at READ COMMITTED, what
`Transaction` gets when it asks for no level: a statement sees what is committed
plus its own transaction's rows (`Visible`); an insert whose key an open
transaction holds waits for that transaction (`Blocked`), and fails if the key is
committed by then (`Taken`), or when its event is not there, which the foreign key on `event_id`
asks for (`Referenced`). Reads do not wait. A crash of the process or of the
server is, to the tables, every open transaction rolled back, which `DbError` of
each client already does; nothing else of the writer's state outlives it.

A nil-able `*int` is a set with at most one element: `{}` is nil.

`Deletable` names the streams the program ever deletes. Promises about versions
and order are stated for the others (`Kept`): `DeleteStream` between the
statements of an `Append` on the same stream leaves whatever the interleaving
leaves, and neither code nor docs promise otherwise.

### EventLog

`log` (the events of each stream), `active` (the request a client has under
way) and `outcome` (what its latest one returned). The refinement mapping in
`SqlEventRepository` reads the log off the committed rows by version; the moment an
`Append` takes effect is its `COMMIT`, the moment a `Link` takes effect is each of its
inserts, whose remaining ids are the request still active. Weak spots of the
code are kept, as they are what a caller really gets: a batch of several events
with an expected version is always refused, and an answer `"error"` may follow a
commit.

### SqlDomainRepo

A session is a goroutine that works as the command handlers of
`examples/simplecqrs` do: `NewAggregate`, `Load`, `TrackChange` (the aggregate
raises an event), `Save`. Guarded sessions pass `Int(OriginalVersion())`, the
others nil. `aggregate` holds the session's aggregate: its `version`, its `changes`
and, in `applied`, the events its state is made of. `Save` is followed through:
the request to the log, then `SaveCommitted` (set the version, clear the changes,
start publishing), or `SaveFailed`. `queue` and `todo` are the positions of the
publishing loop and of the loop over handlers in `PublishEvent`; handlers are
called in any order, as Go ranges over a map. `AddHandler` may come at any moment;
a goroutine ranging over the handlers of the event then may or may not meet the new one, and
that Go may end the process on such a race is `Crash`. `Crash` clears everything in
the process, between any two steps; the log stays, with or without a
request that was under way. After it sessions start again with new aggregates
and handlers are registered again.

`Load` is given a new aggregate, as by every caller in the repository. It reads
with one query, makes every event before it applies the first, and so either
applies the whole stream or nothing (an event name the factory does not know is
outside `Known`).

An event is known by who raised it and as which of that session's events, so
the same event stored twice is recognised.

### EventReader

`eventStore`, `rows`, `lastId` are the committed tables and the sequence behind
`event_stream.id`; `open` holds the transaction of each writer: its clock at `BEGIN`
(PostgreSQL's `now()`, the default of `created_at`, is that moment for all its rows), the rows it has
inserted, and the row of an `INSERT` that has drawn its id and still waits, perhaps in vain.
`Writers` are goroutines inside `Append` or `Link`. A batch of `Append` is one transaction with rows of
one stream; each `Create` of `Link` (lines 421-429) is a transaction of its own, with one row
of an event that exists. `DeleteStream` is one step.

`reader` is the object behind `Read(ctx)`: the bounds, the direction and the limit of
`sqlEventRepositoryReaderSpec`, and what has come on the gorm statement it holds. `Clauses` makes that
statement when the reader is made, and everything chained behind changes it in place, so a question
is an operation that changes the reader too (`Ask`): its conditions stay (`earlier`, `events`), the first
`ORDER BY` stays in front (`order`), the column list of `Count` stays (`counted`), a second `JOIN` is refused
(`joined`) and an error stays (`failed`). `BuildQuery`, `Join`, `Fail` and `Among` are those effects, and
`AfterCount`, `AfterToList`, `AfterEvents`, `AfterEvent`, `AfterLast` what a question leaves. That much of gorm
is external. What comes of it: `ToList` after `Count` gives every event version 0, a second `ToList`
fails, and `Last` after `Forward` and `Count` gives the first event.

`Build` puts any builder call to the reader, in any order and any number of times. `Refused` and
`Panics` are the two ways `BuildQuery` ends without a query: an upper bound without its lower
one, and the `nil` it dereferences for `FromTime` without `FromId` (line 80). `InIds` is the branch it
takes, `Selected`, `Sorted`, `Cut` the query that comes of it, and `ToList`, `Events`, `Event`, `Count`,
`LastEvent`, `HasEvent`, `GetStreamIdOf`, `GetVersionInStream`, `IsEventInStream` what the operations answer.

A follower (`Poll`) is a caller that goes on behind the last id it has read, with
the only query that can say so: `FromId` with a `ToId`. Nothing of that kind is in the
repository; it is what `FromId` is for. `overtaken` are the ids that open transactions had drawn, inserted
or not, when a follower of all streams read.

### EventStoreDomainRepo

`stream` is the server's stream, numbered from 0; an append that expects a number is
taken only when that is the last event's (`Accepted`). `agg`, `pc`, `outcome` are a
session's aggregate and where it is; `outbox` and `published` are the loop that
publishes, with the version each event is given. `Load`/`LoadNext`/`LoadEnds` is the loop
over the events, which may end on an error at every one of them
(`LoadFails`, `LoadUnknown`) and during which the stream may grow. `Save` appends, clears the
changes, and starts to publish; it leaves the version alone. `SaveRefused`,
`SaveFails` are its errors; an append that failed for the caller may be
lost or still arrive, once, at any time (`late`, `LateAppend`). `ForeignAppend` is another
application, `Crash` the end of the process.

`Passing` says what a session gives `Save`: nothing, `Int(OriginalVersion())` as in
the example's command handlers and the tests, or one less, which is the number of
the last event it knows. No caller in the repository passes that: it is what a caller has to pass for
`Save` to be guarded as `repository.go` intends, since `OriginalVersion()` is refused unless the aggregate has
missed exactly one event (run `ges_version`, theorem `OriginalNumbers`). The run `ges` has such a session and
one that passes nothing; the theorems hold for callers of all three kinds. The server and the client `go.geteventstore` are not part of the
repository: they are modelled from how `repository.go` uses them. A second `Load` into one
aggregate is outside the model, as nothing in the repository does it.

### Registries

All four registries are one module: a map from names to delegates each (`bound`), and
two kinds of registration. `RegisterHandler` and the stream namer take any number of
instances and go through them (`RegisterNext`) until one's name is taken
(`RegisterRefused`), one is no pointer, for which `TypeOf` panics (`RegisterPanics`, `ycq.go` 29), or none is
left (`RegisterDone`); the factories take one.
`accepted` and `refused` remember the calls that have ended, `answer` the last lookup. Types and
names are different things, because `TypeOf` drops the package (`ycq.go` 29):
`Name` maps one to the other.

Registration happens in one goroutine while a program starts, so calls do not
overlap; two goroutines in one of the maps would be a race that Go may answer by
ending the process.

### SimpleCqrs

`current` is the map of the in-memory repository, `list` with `shown` the list view,
`details` the detail view. A request is a record in `req`, whose `phase` is the next thing its
goroutine does: load (`Handle...`), read the slice of the repository's map, write it
back (`SaveRead`, `SaveWrite`), then each view in any order, as `PublishEvent` ranges over a map
(`ListBegin`/`ListHandle`, `DetailsBegin`/`DetailsHandle`), then the answer (`Respond`). What
reads something shared and writes it back is two steps. `Apply`, `RebuildFromEvents`,
`Refuses`, `Raised` are the inventory item. Its stock is Go's `int`, whose sums wrap around
(`Number`, `Wrap`; `MaxInt` is its largest value). `Atoi` is what `strconv.Atoi` makes of a form: 0 of what is
no number, the largest or smallest `int` of one that is out of range; the handler answers the error
and goes on with that value.

The process ends (`fatal`) where the code says `log.Fatal`: a page or a redirect
of an item without details ("template"), a form that cannot be parsed ("form"), a detail event
without its entry ("details"); and where Go ends it: two goroutines in one map, one of them writing
("race"). A panic ends only its request. The list view is a slice, on which two goroutines
inside it at once can leave anything (`torn`).

The application is written for an earlier signature of the package (its `Handle` returns
one value, `AddHandler` gets events where names are due) and does not build against this
commit; the module says what its code does, with those differences passed over.
`contended` are the items that two requests were about at once; the properties are
about the others, for on a contended item the code promises nothing: the in-memory
repository ignores the expected version, so two requests can take the last piece
each. What the properties add is that a request for another item does no harm to it.

## What is checked

| Run | Question | Instance | Properties |
|---|---|---|---|
| `calls` | do two goroutines calling `Append` and `Link` on the same streams, with failures anywhere, keep the streams right, and do the statements implement the log? | 2 clients, 1 stream and the empty name, 3 calls, batches and links up to 2, expected versions 0-1 or nil | `TypeOK`, `VersionsContiguous`, `ReplayOrder`, `EventsOfRowsStored`, `AppendAtomic`, `LinkedInOrder`, `WriterInv`, `ImplementsEventLog`, `StreamAppendOnly`, `ExpectedVersionHonoured` |
| `returns` | does every call come back, and does deleting one stream leave another alone? | 2 clients, 2 calls, one kept and one deletable stream and the empty name, batches and links up to 2, fair | `StreamAppendOnly`, `CallReturns` |
| `reader` | does a reader answer the question put to it, and the next one? | 4 calls put to one reader, builders and questions; 1 writer of `Append` or `Link`, `DeleteStream` beside it, 2 streams, one of them deletable, 2 ids, 2 times; 2 id bounds, 1 time bound, limit 1 | `TypeOK`, `AnswersTheQuestion` |
| `follow` | what does a program that polls by id miss, and what is said of one event? | 2 writers of `Append` or `Link`, 2 streams, 4 ids, a follower of one stream and one of all | `LookupsAgree`, `LastIsCount`, `StreamFollowed`, `MissedWereOpen` |
| `sessions` | does `Save` keep aggregate, stream and handlers in step through lost answers, retries, races and a crash? | a guarded and an unguarded session on one stream, 2 events each, 2 event names (one unknown to the factory), 1 handler, 1 crash | `TypeOK`, `AggregateIsPrefix`, `RaisedOnce`, `DecisionsAreCurrent`, `DeliveredIsStored`, `DeliveredInOrder` |
| `delivery` | do saved events reach the handlers? | 2 sessions, 2 events each, 2 handlers, no crash, fair | `EventuallyDelivered` |
| `ges` | do aggregate, stream and publication agree on numbers, through failing, late and repeated calls? | a session that passes nothing and one that passes the last event's number, 2 events each, another application, a stream of 3, 1 failure or crash | `TypeOK`, `AggregateIsLoadedPrefix`, `PublishedAsNumbered`, `NumberedAsDecided`, `StoredOnce` |
| `registries` | who is bound to a name after any registrations? | 4 types, two and two of which share a name, one of them not given by a pointer, 2 delegates, 2 different calls of up to 2 instances | `TypeOK`, `AcceptedIsBound`, `BoundByCalls`, `AnswerLasts` |
| `inventory` | what stays right of an item that one request at a time is about, and what ends the process? | 2 requests at once, 2 items, 3 events, 1 name and the empty one, an `int` up to 2, the numbers 1, 0 and both ends of the `int` | `TypeOK`, `StockNeverNegative`, `VersionsAreIndexes`, `ReadModelMatches`, `AcceptedIsStored`, `DetailsFound` |
| `refusal` | is a caller refused only when the version is wrong? (violated) | 1 client, 1 call | `RefusedOnlyWhenWrong` |
| `missing_entry` | does no command end the process for want of an entry? (violated) | 1 request at a time, 1 item, 3 events | `EntryNeverMissing` |
| `ges_version` | is the version of a loaded aggregate the number of its last event? (violated) | 2 sessions, 1 event | `OriginalVersionIsLastNumber` |

**Why the bounds are enough.** The guards of the writer compare a row's stream
and version with another row's and a version with an expectation; they never look
further. A race needs two writers on one stream; an append and a link need one call
each and a third to meet what they left. A third writer, waiting
for one that is overtaken, is covered by the proofs, which hold for any number of them. Batches
of two are the smallest with a middle, where a failure leaves something to roll back,
and the second event of a batch is the first to see the transaction's own row.
`returns` needs two calls, one to hold a key and one to wait for it, each with
more than one row to hold.

A reader looks at one row at a time and then at the order of two, and two rows leave one outside a
bound, an order or a limit of 1. Four calls are two bounds of one kind with a question before
and after, or `FromId`, `ToId`, a question and another bound; a fifth adds one more of the same. One
writer is enough there; `follow` has two, so that ids become visible out of order, and four ids hold an
event linked twice into a stream between other rows.

In `sessions` a second event is what a session can raise
after a lost answer; a third session would be one more unguarded writer. A
stream that has `MaxEvents` events is not saved to again, since an unguarded
session that retries a lost answer grows it for ever; the streams still get to five
events, for a batch may start below the bound.
Sessions of `delivery` stop earlier, but two batches of two may be published at once.
In `ges` a stream of three can hold an event of another application and a batch of
two on either side of it; one failure is one late append, one broken Load or one crash. The
proofs remove these bounds.

In `registries` two instances make a call that can be refused half-way, or panic there, and the
second call meets what the first has left; calls that are put again count once, and lookups are
not counted. In `inventory` an item can be
created, stocked and emptied or created, deactivated and stocked again with three events, with
a request for another item, or for the same one, running between any two
of their steps; a history that needs four is the same command once more.

`CHECK_DEADLOCK FALSE` stands in the configurations of the writer, of
`SqlDomainRepo` and of the inventory: once the bound on calls, events
or crashes is reached, or the process has ended, nothing is left to do. That no call is
stuck is `CallReturns`. The other runs check for deadlock.

**Symmetry** is used in runs without liveness where nothing picks a value: for clients
(`calls`), writers (`follow`), delegates (`registries`), requests and names
(`inventory`).

**Fairness.** `CallReturns` assumes weak fairness of `Progress(c)`, the next
statement of a goroutine that is inside a call: the Go scheduler runs a runnable
goroutine and the database answers a statement that no lock holds back. It does not
assume a statement succeeds, nor that a lock is granted: a blocked insert is not
enabled, and its wait ends because the holder's own progress ends its transaction.
Starting calls is not fair. `EventuallyDelivered` assumes the same of a session
inside `Save`: `Append` answers, and the publishing loop, whose handlers in the
model return at once, goes on. Handlers that block block `Save`, by construction of the
code. Raising events, saving again and registering handlers are not fair.

**The properties, in words.**

*The writer.* Versions of a stream are 1, 2, 3, ..., each once
(`VersionsContiguous`). A reader that replays by `id` gets them in that order
(`ReplayOrder`), and one that has seen `n` events sees more only at the end, at
all times (`StreamAppendOnly`). A caller that gave an expected version overtakes
nobody: at the moment its rows become visible the last committed version is the
one it named (`ExpectedVersionHonoured`). `Append` is all or nothing
(`AppendAtomic`); `Link`, which is not, leaves a prefix of its argument, in order
(`LinkedInOrder`). No stream names an event that does not exist
(`EventsOfRowsStored`).

*The reader.* A reader that answers at all gives exactly the committed events within every
bound of each kind that was put to it last, in the order of the last direction, cut at the last
limit; one that has been asked before gives only those of them that are within the bounds of every
earlier question too, and keeps the direction of the first question that had one
(`AnswersTheQuestion`). Two exceptions of the code are its precondition: it panics
on `FromTime` without `FromId`, and ignores `FromId` when neither `ToId` nor `FromTime` is given.
`IsEventInStream`, `GetVersionInStream`, `Event` and `Events` say the same of an event, however often it is
linked (`LookupsAgree`; not `GetStreamIdOf`, see below), and the version of the last
event is the number of events, which a caller passes on as `expectedVersion`
(`LastIsCount`). Both compare answers in one state: between two queries rows may be committed. A follower of one stream misses nothing (`StreamFollowed`): the unique
index makes ids of one stream visible in order. A follower of all streams does miss
events, but only those whose transaction had drawn the id and was open when it read past it
(`MissedWereOpen`): waiting for those transactions would be enough.

*Domain repositories.* What a guarded session's aggregate is made of is the beginning of
its stream plus its own changes, whoever else writes (`AggregateIsPrefix`); its
events are stored at most once, also when it retries after a lost answer
(`RaisedOnce`), and only right behind the history they were decided on
(`DecisionsAreCurrent`). Handlers see only stored events (`DeliveredIsStored`), a
session's in order and once (`DeliveredInOrder`), and without a crash all of them
(`EventuallyDelivered`). Against a GetEventStore server: however a `Load` ended, the
aggregate is the beginning of the stream and its version the length of it
(`AggregateIsLoadedPrefix`); a session that expects the last event's number stores its events where
its aggregate numbered them, so a late append, a retry or a broken `Load` never
puts them behind something it has not seen (`NumberedAsDecided`); what is
published with a version is in the stream under it (`PublishedAsNumbered`); without
failures nothing is stored twice (`StoredOnce`).

*Registries.* An accepted call has bound all its names (`AcceptedIsBound`); a name is
bound exactly when some call has come to it, also one that was refused later
(`BoundByCalls`); what a lookup found it would find again (`AnswerLasts`).

*The inventory.* For items that one request at a time is about: no removal, and no number a form
can hold, takes the stock below zero; a check-in does, when it overflows Go's `int`, and nothing else
(`StockNeverNegative`). Every event is stored once at the place its version
says (`VersionsAreIndexes`), the views agree with the history when no request is at the item
(`ReadModelMatches`), and a command answered without an error is in the history, except those whose
errors the handlers drop (`AcceptedIsStored`). Of an event that misses its entry in the detail view,
the item itself is deactivated, or two requests were about it, unless two were inside the
list at once (`DetailsFound`). That this message comes at all, though it says of itself that it should
not, is `missing_entry`.

## What is proved

Each theorem holds for every value of the constants that the module's `ASSUME` allows, and its
proof is checked to the last leaf.

### The writer

`SqlEventRepositoryProofs` proves, for any set of clients and streams, any number of
calls and any sizes of batches:

| Theorem | Statement |
|---|---|
| `TypeCorrect` | `Spec => []TypeOK` |
| `WriterInvariant` | `Spec => []WriterInv` |
| `Contiguous` | `Spec => []VersionsContiguous` |
| `ReplayInOrder` | `Spec => []ReplayOrder` |
| `AppendOnly` | `Spec => StreamAppendOnly` |
| `OptimisticConcurrency` | `Spec => ExpectedVersionHonoured` |

The assumption is `RepositoryAssumption`: there is a client, the empty name is a
stream name, deletable streams are streams, and the bounds are naturals. Beyond
it the proofs rest on what the actions say of the database.

`VersionsContiguous` and `ReplayOrder` are not inductive: they speak of
committed rows, and what is about to be committed was read and written many steps
before. `WriterInv` adds what the uncommitted rows and the local variables must
satisfy meanwhile:

- `InBatch`, `TxOwned`: a row is prepared only while events are left;
  uncommitted rows belong to an `Append` under way and to its stream.
- `KeysUnique`: no two rows share a key, committed or not. This is what the
  unique index and the wait for its holder give.
- `VisibleContiguous`: neither the committed rows nor what any client sees has a
  gap.
- `LastStillVisible`: the version a client has read stays visible to it until
  its row is in. Committed rows of kept streams are never removed, and its
  own transaction's rows only when its call ends.
- `ExpectedCompared`: a row whose caller expects a version follows that version,
  although the comparison is some statements old.
- `IdsOrdered`: ids grow with versions among the rows a client sees, the row being
  inserted included.

Two lemmas carry the argument. `OneHolder`: two clients never hold uncommitted rows
of one kept stream, because what the holder of the higher row sees has no gap, and
so contains a second row with the key of the lower one. `BelowPresent`: below a row that a client
sees or is inserting every version is visible to it; so when the id of a row was
drawn before an insert waited, the rows it comes above had theirs already, and a
row that went in meanwhile has taken the key and makes the insert fail.
`StepRows` sorts all actions into four kinds by what they do to the rows (nothing
or a rollback; a row into a transaction; an autocommitted row; a commit), so
that each conjunct is proved by four cases.

The two action properties follow from the invariant in the state before the step
(`StepAppendOnly`, `StepExpectedHonoured`).

`SqlEventRepositoryCallsProofs` goes from rows to the calls they belong to:

| Theorem | Statement |
|---|---|
| `CallInvariant` | `Spec => []CallInv` |
| `RowsHaveEvents` | `Spec => []EventsOfRowsStored` |
| `AllOrNone` | `Spec => []AppendAtomic` |
| `LinksInOrder` | `Spec => []LinkedInOrder` |

`AppendAtomic` speaks of committed rows, and a batch is committed in one step; so what has to be
known is what the transaction holds before that. `CallInv` says it for every statement of
the loop: the events are at hand (`CallEvents`), no two batches share one (`IdsFresh`), and
the rows written so far are the first events of the batch, numbered on from some version,
with the version last read right behind them (`BatchNumbered`). `BatchReadsItself` is where the
database comes in: the largest version a transaction sees in the middle of its batch is its own,
since `TxAbove` puts what it has written above everything committed. The loop of `Link` has no
transaction and others commit between its rows; what it has linked is found again in
order because each row goes above all there is (`LinkExtends`). `AllFoundStored` says why `Link`'s
check, which compares two counts, is enough.

`SqlEventRepositoryRefinement` proves

| Theorem | Statement |
|---|---|
| `LogImplemented` | `Deletable = {}` implies `Spec => ImplementsEventLog` |

under the mapping of the module itself. The hypothesis is that of the run: `EventLog` has no
operation that deletes. Its invariant, `RefInv`, is the three before together with the
finiteness of the tables. From it the log of a stream is a sequence with an event at each
version (`LogIs`), as long as its last version (`LastIsLength`). Then each statement is mapped by a
lemma of its own: `MapsStutter` for statements that commit nothing and return nothing, `MapsCommit`
for the one moment at which an `Append` takes effect, `MapsLinkNext` for each row of a
`Link`, `MapsRefuse` for the comparison, `MapsFail`, `MapsReject`, `MapsBegin`, `MapsLinkDone`. The hard
one is `MapsCommit`: that the whole batch was compared with the log it is appended to,
although it is compared event by event and others commit meanwhile.

### The repository on a GetEventStore server

`EventStoreDomainRepoProofs` proves, for any sessions, whatever they pass as expected
version, and any number of events, failures and late appends:

| Theorem | Statement |
|---|---|
| `Typing` | `Spec => []TypeOK` |
| `PrefixLoaded` | `Spec => []AggregateIsLoadedPrefix` |
| `DecidedNumbers` | `Spec => []NumberedAsDecided` |
| `OriginalNumbers` | `Spec => []OriginalMissesOne` |
| `PublishedNumbers` | `Spec => []PublishedAsNumbered` |
| `RaisedStoredOnce` | `Spec => []StoredOnce` |

from `GesAssumption`: sessions pass nothing, `OriginalVersion()` or one less, and the bounds
are naturals. What an event was decided on has to be remembered between the decision and the
server's comparison, which another goroutine, a lost answer and a retry may put far apart. The
invariant is `Numbers`: an aggregate that is being loaded has no changes (`LoadsUnchanged`);
changes are numbered on from the version (`ChangesInOrder`), and so are the requests that may still
arrive, each guarded by the version it was made with (`RequestsInOrder`); hence what the server accepts
is stored in place (`StreamInPlace`), and what waits to be published points to where it
is stored (`PublicationsInPlace`). `AppendInPlace` is the step common to
`Save` and `LateAppend`. `OriginalMissesOne`, which no run checks, is the
consequence for callers that do as the example does: `Save` gets through only if the
aggregate has missed exactly one event.

`StoredOnce` needs `Once`: while nothing has failed, nothing is late, no event in the stream is
there twice, and the changes of an aggregate are new (`Fresh`). The changes are cleared by the same
step that stores them, which is what keeps this; a session that saves again is refused or stores
later events.

### The reader

`EventReaderProofs` proves, for any streams, writers and followers, any bounds and limits:

| Theorem | Statement |
|---|---|
| `TypeCorrect` | `Spec => []TypeOK` |
| `ReaderIsRight` | `Spec => []AnswersTheQuestion` |
| `LookupsNeverDiffer` | `Spec => []LookupsAgree` (four lookups, not `GetStreamIdOf`) |
| `LastCounts` | `Spec => []LastIsCount` |
| `StreamIsFollowed` | `Spec => []StreamFollowed` |
| `OnlyOpenMissed` | `Spec => []MissedWereOpen` |
| `SelectAnswers` | every `Spec` state has an answer to the reader's query |

from `ReaderAssumption`: ids and times are naturals and there is a time, a limit is not 0,
followed streams are not deleted. The invariant has three parts.

- `TableInv`, about rows that are committed or inserted (`Known`) and those being inserted as well
  (`Given`): transactions are well formed (`WellFormed`) and a row is in one place (`Apart`); ids are
  distinct, and so are the versions of a stream, which the unique index sees to when an insert is
  done (`IdsDistinct`, `VersionsDistinct`, `DrawnBehindOwn`). In a stream that is not deleted versions have no gaps
  and ids are in the order of versions (`NoGaps`, `IdsInOrder`). The id is drawn before the insert
  waits, so this needs `DrawnNext`: a row being inserted comes behind rows that its writer sees, which had
  their ids already; whoever else goes in meanwhile takes its version, and it fails.
  Rows have their events (`EventInv`).
- `FollowInv`: a follower stands at a row it has read, and what it has not read of its stream is
  behind that. For a follower of all streams the invariant has to speak of rows in flight and of those
  being inserted (`MissedKnown`): a row that will be missed had its id drawn when that id was passed.
- `ReaderInv`: whatever is put to it, the reader stays a reader, and the bounds of earlier questions were
  ones `BuildQuery` takes.

`LookupsAgree` follows with `LastVersionLastId`: of the rows an event has in a stream the one with the largest
version has the largest id. `ReaderIsRight` follows from `SelectsWanted`, that the statement with everything
left on it selects what is asked for, and `AnswerIsRight`, which says it of every list the query may give.

### The domain repository

`SqlDomainRepoProofs` proves, for any sessions, streams, handlers and numbers of events and crashes:

| Theorem | Statement |
|---|---|
| `TypeCorrect` | `Spec => []TypeOK` |
| `LoadedIsPrefix` | `Spec => []AggregateIsPrefix` |
| `GuardedOnce` | `Spec => []RaisedOnce` |
| `NoStaleDecision` | `Spec => DecisionsAreCurrent` |
| `OnlyStoredDelivered` | `Spec => []DeliveredIsStored` |
| `OrderedDelivery` | `Spec => []DeliveredInOrder` |

from `DomainAssumption`: guarded sessions are sessions, the empty name is a stream name,
known event names are event names, and the bounds are naturals. The log is `EventLog`, so that
together with `LogImplemented` this is about the two tables. The inductive invariant adds:

- `Working`: what a session is doing and the request it has under way belong together: the request
  is the one its aggregate makes.
- `Ordered`: changes and events to publish are the session's own, in the order raised,
  and never both at once.
- `Unsaved`: a change of a guarded session is in no stream, unless an `Append` whose answer was lost
  put it there, and then above the version it expects. This is why a retry is safe: either the
  events are not stored, or the log is longer than the retry expects and it is refused. The
  statement that they are stored once is not inductive without it.
- `Publishes`, `Behind`: what waits to be published is stored, and a handler has been given, of a
  session's events, only those before the ones still to publish.

`DecisionsAreCurrent` follows from the prefix in the state before the step: the log accepts only
what expects its length, and the aggregate's version is the length of its prefix.

### The inventory

`SimpleCqrsProofs` proves, for any number of requests, items and events and any names and counts:

| Theorem | Statement |
|---|---|
| `TypeCorrect` | `Spec => []TypeOK` |
| `StockStaysPositive` | `Spec => []StockNeverNegative` |
| `EventsNumbered` | `Spec => []VersionsAreIndexes` |
| `AcceptedKept` | `Spec => []AcceptedIsStored` |
| `ReadModelAgrees` | `Spec => []ReadModelMatches` |
| `MissedOnlyInactive` | `Spec => []DetailsFound` |

from `AppAssumption`, that the bounds are numbers. Each action is one of nine kinds by what it does to
requests, histories and views (`StepEffect`: the process stops, a request is begun, dropped, answered,
decides, reads, writes, calls a view, returns from it), and each part of the invariant is proved kind
by kind:

- `Shaped`: which fields of a request are filled at which point.
- `Alone`: two requests about an item make it contended. So the history of an item that
  is not contended changes only by its own request (`OthersHistory`).
- `Drawn`, `Decided`: the event a request carries is the one its command raises on the history
  that is there when it is stored, although loading, deciding, reading and writing are steps of
  their own. With it `StockNeverNegative` and `VersionsAreIndexes` are kept by the one step that
  writes; `Wrapped` says what a sum in an `int` is, `OverflowedMore` that a history which has overflowed once
  has for good.
- `Stored`: what is published is the last event of the history.
- `DetailsSeen`, `CountRead`, `ListSeen`: the views lag behind. `SeenBy` is what a view has been told
  of an item: all of its history, or all but the last event while a request still has to call it.
  The detail view shows what it has seen, and so does the list. When no request is at the
  item that is `ReadModelMatches`; for a request that is about to look for an entry it is
  `EntryFound`, that the entry is there if the item is active, and so `DetailsFound`.

`RebuildFromEvents` is a recursive function of the number of events, as the loop is; `RebuildMore`
(one more event is one more round) is all the proofs use of it.

### The registries

`RegistriesProofs` proves, for any types, names and delegates and any number of
calls of any length:

| Theorem | Statement |
|---|---|
| `Typing` | `Spec => []TypeOK` |
| `AcceptedBinds` | `Spec => []AcceptedIsBound` |
| `CallsBind` | `Spec => []BoundByCalls` |
| `RefusedRightly` | `Spec => []RefusedForTaken` |
| `AnswersLast` | `Spec => []AnswerLasts` |

from `RegistryAssumption`: `None` is no delegate, and the bounds are naturals. The invariant
is `Bindings`: what a call has come past is bound to its delegate (`DoneIsBound`), an accepted call
has come past everything (`AcceptedDone`), every binding is some call's (`BoundBySome`), and
a refused call's name is taken or its instance has none. `BindingsStay` is why none of it is lost: no step changes
a name that is bound. `AnswerLasts` follows with `RegistrationsStay`.

### Only model-checked

`CallReturns` and `EventuallyDelivered`: liveness under fairness is beyond the prover, as it
would have to reason about `ENABLED`. The three properties that do not hold are TLC's
counterexamples. All other properties that a run checks are proved.

Two kinds of statement had to be avoided. What a recursive definition computes is an induction
over data, for which the library's theorems take an operator that none of the installed
provers instantiates; where one was needed (`RebuildFromEvents`, lists cut to a limit), the
proofs use that a set of numbers has a least element (`LeastNumber`), which follows from the
well-foundedness of the naturals without such an operator. And a list that a SELECT answers with is
described by its order (`InOrder`) instead of being built by sorting, so that the proofs
can say of every answer what they say of it; `SelectAnswers` shows that there is one.

## What the models found

- **A batch with an expected version is always refused** (run `refusal`). The
  loop of `appendToStream` compares `expectedVersion` with the last version for every event
  (line 350), and the second event sees the transaction's own first row. So an
  `Append` of two events and a correct expected version answers "Wrong expected
  stream version"; an aggregate that raised two events cannot be saved by a guarded session.
- **A check-in of a deactivated item ends the process** (run `missing_entry`). `CheckIn` does not ask
  whether the item is active, and the detail view, whose entry is deleted, answers "did not find the
  original inventory this shouldn't not happen" (`readmodel.go` 170) to `log.Fatal` (151). One client gets there
  with create, deactivate, check in.
- **The version of a loaded aggregate is not the number of its last event** (run
  `ges_version`). `aggregate.go` 51-53 says an aggregate with one event is at version 0, to match
  the event store's numbers; `Load` (`repository.go` 120) increments once per event and makes it 1.

Found while modelling and certain wherever the call is made, so that no run looks for them:

- `GetStreamIdOf` selects the stream name and returns the event id of the row, which was not
  selected: the empty string for every event (`sqleventrepository.go` 260), where the interface
  (`eventrepository.go` 14) is asked for the stream of an event;
- `Link` (line 380) accepts the empty stream name, which `Append` (line 293) and `DeleteStream` (line 438)
  refuse with "streamId can't be empty"; rows it commits there cannot be deleted through the repository;
- a reader that is asked a second time answers another question, since gorm keeps the clauses of the first
  on one statement (external): `ToList` after `Count` gives version 0 for every event, a second `ToList`, `Events` or `Event` fails on the repeated `JOIN`, and `Last` after a question with a
  direction is the last or first event by id;
- two accepted check-ins can overflow the stock (`inventoryitem.go` 113), which is then negative: `CheckIn`
  compares with nothing.

Behaviour worth knowing that contradicts no promise, recorded under `hazards`:

- a crash between commit and publication loses the publication; handlers may see
  the events of two sessions in another order than the stream has;
- a `DeleteStream` during an `Append` to the same stream leaves a stream that does not start at 1;
- a nil expected version turns a retry after a lost answer into duplicates;
- `FromTime` alone panics, and `FromId` alone is ignored, so a program can only follow the store
  with a `ToId` of its own making;
- `EventStoreDomainRepo.Save` leaves the version where it was: an aggregate that is saved twice is
  refused the second time, or numbers its events as if the first ones were not there;
- the in-memory repository ignores the expected version, so two requests can take the
  last piece each; errors of `Remove` and `CheckIn` are dropped; a number that is out of range is
  answered with an error and handled as the largest or smallest `int`.

## What is not modelled

- Payloads, event names in the store, headers; marshalling is
  either refused before anything happens or does nothing the properties see.
- MySQL, which `internal/orm/conn.go` can also open, but for which there are no migrations. At
  its default isolation, REPEATABLE READ, a transaction reads the last version from its
  snapshot: planned.
- The server and client behind `EventStoreDomainRepo`, and `net/http`: external, modelled as
  far as the code relies on them.
- A second `Load` into one aggregate, which replays the stream on top of itself; no caller in the
  repository does it. `Limit(0)`, which the query builder takes as no limit or as
  none at all, depending on its version.
- The two repository wrappers of the example that its `main.go` does not construct: they
  call the modelled repositories and pass the answers on.
- Generated query builders, logging, connection set-up, migrations, code generation, the handler
  for assets: I/O and tooling without control of its own. The constraints the migrations
  create are in `SqlEventRepository`.
- `internal/uuid` is a copy of a public package of which the library calls one function,
  for random ids; an id is never drawn twice.
- Of gorm, more than the clauses of one statement: its hooks, its logger, its prepared statements.

## Plan

Done: `EventLog`; `SqlEventRepository`, `EventReader`, `SqlDomainRepo`, `EventStoreDomainRepo`,
`Registries` and `SimpleCqrs`, with their safety properties proved, and the refinement of
`EventLog`.

Left, in this order:

1. The writer at REPEATABLE READ, which is what MySQL would give it.
2. A second `Load` into one aggregate, as a separate specification, to say what it does to
   the version.
3. The refinement for stores in which some streams are deleted: a log with an operation that
   empties a stream, and the other streams mapped as now.
