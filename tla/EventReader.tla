------------------------------ MODULE EventReader ------------------------------
(***************************************************************************)
(* The reading half of sqlEventRepository (sqleventrepository.go): the     *)
(* reader that Read returns, its builder calls, BuildQuery and the         *)
(* operations that end in one SELECT, over tables that Append, Link and    *)
(* DeleteStream change meanwhile.                                          *)
(*                                                                         *)
(* A reader is one mutable object.  A builder call changes it and returns  *)
(* it, and every question put to it leaves its clauses on the gorm         *)
(* statement it holds: streamQuery is made by Clauses, which turns the     *)
(* session of GetQuery into one statement, and everything chained behind   *)
(* changes that statement in place.  Conditions add up, the first ORDER BY *)
(* decides, the last LIMIT counts, a second JOIN of the same name is       *)
(* refused, and an error stays.  That much of gorm is external.            *)
(*                                                                         *)
(* A SELECT is one step at READ COMMITTED: it sees the rows committed when *)
(* it starts.  A nil-able pointer is a set of at most one element.  The    *)
(* writers are Append with its transaction, Link, whose every Create is a  *)
(* transaction, and DeleteStream; an INSERT draws its id first, may wait   *)
(* for the version and becomes a row later, or never.                      *)
(***************************************************************************)
EXTENDS Integers, Sequences, FiniteSets, SequencesExt

CONSTANTS
    Writers,     \* goroutines inside Append or Link
    Streams,     \* stream names
    Deletable,   \* streams the program ever deletes
    MaxId,       \* bound: rows ever inserted, and the ToId of a follower
    MaxTime,     \* bound: the database's clock
    IdBounds,    \* the ids a caller passes to FromId and ToId
    TimeBounds,  \* the times a caller passes to FromTime and ToTime
    Limits,      \* the counts a caller passes to Limit
    MaxCalls,    \* bound: calls put to one reader, builders and questions
    Followers    \* what is followed: names of streams, or AllStreams
CONSTANT AllStreams

ASSUME ReaderAssumption ==
    /\ Deletable \subseteq Streams
    /\ MaxId \in Nat
    /\ MaxTime \in Nat \ {0}
    /\ IdBounds \subseteq Nat
    /\ TimeBounds \subseteq Nat
    /\ Limits \subseteq Nat \ {0}
    /\ MaxCalls \in Nat
    /\ Followers \subseteq (Streams \ Deletable) \cup {AllStreams}
    /\ AllStreams \notin Streams

VARIABLES
    eventStore,   \* committed rows of event_store
    rows,         \* committed rows of event_stream
    lastId,       \* the sequence behind event_stream.id
    clock,        \* the database's clock
    open,         \* the transaction of each writer; none when it has none
    reader,       \* the reader in hand
    calls,        \* the calls put to it
    cursor,       \* the largest id each follower has read
    seen,         \* the rows each follower has read
    overtaken     \* ids of open transactions when a follower of all read

tables == <<eventStore, rows, lastId, clock, open>>
readers == <<reader, calls>>
followers == <<cursor, seen, overtaken>>
vars == <<tables, readers, followers>>

Optional(S) == {{}} \cup {{x} : x \in S}
EmptyString == ""

\* An event is known by the id of the row that first had it.
Row == [id : Nat, stream : Streams, version : Nat, event : Nat, created : Nat]
\* The Go value a SELECT of some columns is scanned into.
NoRow == [id |-> 0, stream |-> EmptyString, version |-> 0,
          event |-> EmptyString, created |-> 0]

\* A transaction: now() of its BEGIN, the rows it has inserted, and the row of
\* an INSERT that has drawn its id and is not done.
Transaction == [op : {"append", "link"}, began : Nat, rows : SUBSET Row,
                inserting : Optional(Row)]

Directions == {"unset", "forward", "backward"}
Bounds == [fromTime : Optional(TimeBounds), toTime : Optional(TimeBounds),
           fromId : Optional(IdBounds), toId : Optional(IdBounds)]

\* The spec (bounds, direction, limit) and what is on the statement: the names
\* of streams, the bounds of earlier questions, the direction that came first,
\* the events asked for, whether there are a column list and a JOIN, and
\* whether an error has come.
Reader == [bounds : Bounds, direction : Directions, limit : Optional(Limits),
           streams : SUBSET Streams, earlier : SUBSET Bounds,
           order : Directions, events : SUBSET SUBSET Nat,
           counted : BOOLEAN, joined : BOOLEAN, failed : BOOLEAN]

\* Read(ctx): a new reader, with a statement of its own, asks for everything.
Read == [bounds |-> [fromTime |-> {}, toTime |-> {}, fromId |-> {}, toId |-> {}],
         direction |-> "unset", limit |-> {}, streams |-> {}, earlier |-> {},
         order |-> "unset", events |-> {}, counted |-> FALSE,
         joined |-> FALSE, failed |-> FALSE]

Init ==
    /\ eventStore = {}
    /\ rows = {}
    /\ lastId = 0
    /\ clock = 1
    /\ open = [w \in Writers |-> {}]
    /\ reader = Read
    /\ calls = 0
    /\ cursor = [f \in Followers |-> 0]
    /\ seen = [f \in Followers |-> {}]
    /\ overtaken = {}

-----------------------------------------------------------------------------
(* The builder calls, on the reader q.                                     *)

\* Goes to the statement at once: two names select nothing.
Stream(q, s) == [q EXCEPT !.streams = @ \cup {s}]
FromTime(q, t) == [q EXCEPT !.bounds.fromTime = {t}]
ToTime(q, t) == [q EXCEPT !.bounds.toTime = {t}]
\* Variant: starts behind the id it is given.
FromIdExclusive(q, i) == [q EXCEPT !.bounds.fromId = {i + 1}]

FromId(q, i) == [q EXCEPT !.bounds.fromId = {i}]
ToId(q, i) == [q EXCEPT !.bounds.toId = {i}]
Forward(q) == [q EXCEPT !.direction = "forward"]
Backward(q) == [q EXCEPT !.direction = "backward"]

\* Variant: an index where a count is asked for.
LimitZeroBased(q, n) == [q EXCEPT !.limit = {n - 1}]

Limit(q, n) == [q EXCEPT !.limit = {n}]

-----------------------------------------------------------------------------
(* BuildQuery                                                              *)

Refused(b) ==
    \/ b.toTime # {} /\ b.fromTime = {}
    \/ b.toId # {} /\ b.fromId = {}

\* The branch for a missing toId asks for fromTime and dereferences fromId.
Panics(b) == ~Refused(b) /\ b.toId = {} /\ b.fromTime # {} /\ b.fromId = {}

Answered(q) == ~q.failed /\ ~Refused(q.bounds) /\ ~Panics(q.bounds)

InTime(b, r) ==
    /\ \A t \in b.fromTime : t <= r.created
    /\ \A t \in b.toTime : r.created <= t

\* Variant: an upper bound that is not included.
InIdsExclusive(b, r) ==
    IF b.toId # {} THEN \A i \in b.fromId, j \in b.toId : i <= r.id /\ r.id < j
    ELSE b.fromTime # {} => \A i \in b.fromId : i <= r.id

\* fromId without toId counts only when there is a fromTime.
InIds(b, r) ==
    IF b.toId # {} THEN \A i \in b.fromId, j \in b.toId : i <= r.id /\ r.id <= j
    ELSE b.fromTime # {} => \A i \in b.fromId : i <= r.id

\* Where, Order and Limit put on the statement.
BuildQuery(q) == [q EXCEPT !.earlier = @ \cup {q.bounds},
                           !.order = IF @ = "unset" THEN q.direction ELSE @]

\* The statement of q selects r.
Matches(q, r) ==
    /\ q.streams \subseteq {r.stream}
    /\ \A b \in q.earlier : InTime(b, r) /\ InIds(b, r)
    /\ \A E \in q.events : r.event \in E

Selected(q) == {r \in rows : Matches(BuildQuery(q), r)}

\* ORDER BY id ASC or DESC; without a direction any order may come.
InOrder(q, list) ==
    \A i, j \in DOMAIN list : i < j =>
        /\ BuildQuery(q).order = "forward" => list[i].id < list[j].id
        /\ BuildQuery(q).order = "backward" => list[i].id > list[j].id

Sorted(q, S) == {list \in SetToSeqs(S) : InOrder(q, list)}

Cut(q, list) == SubSeq(list, 1, Min({Len(list)} \cup q.limit))

\* Every list of rows the SELECT may answer with.
Lists(q, S) == {Cut(q, list) : list \in Sorted(q, S)}

\* First() orders by the primary key after every order already there.
First(order, S) ==
    {r \in S : \A x \in S : IF order = "backward" THEN x.id <= r.id
                                                  ELSE r.id <= x.id}

-----------------------------------------------------------------------------
(* What the terminal operations answer a reader q that is Answered, and     *)
(* what they leave of it.                                                  *)

\* What buildEvent takes from a row and the event it is joined with; the
\* column list of an earlier Count leaves the version out.
Message(q, r) == [event |-> r.event, version |-> IF q.counted THEN 0 ELSE r.version]
Messages(q, list) == [i \in DOMAIN list |-> Message(q, list[i])]

\* The JOIN comes on the statement, or is there already: an error, which stays.
Join(q) == [q EXCEPT !.joined = TRUE, !.failed = q.joined]
Fail(q, failed) == [q EXCEPT !.failed = @ \/ failed]
Among(q, ids) == [q EXCEPT !.events = @ \cup {ids}]

ToList(q) == {Messages(q, list) : list \in Lists(q, Selected(q))}
AfterToList(q) == Join(BuildQuery(q))

Events(q, ids) ==
    {Messages(q, list) : list \in Lists(q, Selected(Among(q, ids)))}
AfterEvents(q, ids) == Join(BuildQuery(Among(q, ids)))

Event(q, id) ==
    {Message(q, r) : r \in First(BuildQuery(q).order, Selected(Among(q, {id})))}
AfterEvent(q, id) ==
    Fail(Join(BuildQuery(Among(q, {id}))), Selected(Among(q, {id})) = {})

\* The limit applies to the one row that carries the count.
Count(q) == Cardinality(Selected(q))
AfterCount(q) == [BuildQuery(q) EXCEPT !.counted = TRUE]

Highest(S) == {r \in S : \A x \in S : x.version <= r.version}

\* Variant: ORDER BY stream_version without DESC.
LastEventAscending(q, s) ==
    LET S == {r \in rows : Matches(Stream(q, s), r)}
    IN {Message(q, r) : r \in IF q.order = "unset"
                              THEN {x \in S : \A y \in S : x.version <= y.version}
                              ELSE First(q.order, S)}

\* Last does not call BuildQuery: its own order stands behind that of an
\* earlier question, and only the bounds of those play a part.
LastEvent(q, s) ==
    LET S == {r \in rows : Matches(Stream(q, s), r)}
    IN {Message(q, r) : r \in IF q.order = "unset" THEN Highest(S)
                                                    ELSE First(q.order, S)}
AfterLast(q, s) == Fail(Join(Stream(q, s)), LastEvent(q, s) = {})

HasEvent(id) == id \in eventStore

\* What a row holds after a SELECT of one column.
Scanned(r, column) == [NoRow EXCEPT ![column] = r[column]]

GetStreamIdOf(id) ==
    {Scanned(r, "stream").event : r \in First("unset", {x \in rows : x.event = id})}

RowsWith(s, id) == {r \in rows : r.stream = s /\ r.event = id}

\* Variant: the first version, not the last.
GetFirstVersionInStream(s, id) ==
    {Scanned(r, "version").version :
        r \in {x \in RowsWith(s, id) :
                \A y \in RowsWith(s, id) : x.version <= y.version}}

GetVersionInStream(s, id) ==
    {Scanned(r, "version").version : r \in Highest(RowsWith(s, id))}

IsEventInStream(s, id) == Cardinality(RowsWith(s, id)) > 0

-----------------------------------------------------------------------------
(* The writers                                                             *)

OpenRows(w) == UNION {t.rows : t \in open[w]}
InFlight == UNION {OpenRows(w) : w \in Writers}
DrawnBy(w) == UNION {t.inserting : t \in open[w]}
Drawn == UNION {DrawnBy(w) : w \in Writers}
VersionsIn(S, s) == {r.version : r \in {x \in S : x.stream = s}}
NextVersion(S, s) == 1 + Max({0} \cup VersionsIn(S, s))

\* BEGIN of Append, or of one Create of Link.  now() is the clock of this
\* moment until the end.
Begin(w) ==
    /\ open[w] = {}
    /\ \E op \in {"append", "link"} :
        open' = [open EXCEPT ![w] = {[op |-> op, began |-> clock,
                                      rows |-> {}, inserting |-> {}]}]
    /\ UNCHANGED <<eventStore, rows, lastId, clock, readers, followers>>

\* The row a writer's next INSERT is about to add; DEFAULT now() stamps it.
NextRow(w, t, s, e) ==
    [id |-> lastId + 1, stream |-> s,
     version |-> NextVersion(rows \cup OpenRows(w), s),
     event |-> e, created |-> t.began]

\* SELECT of the last version and INSERT of the next row: the id is drawn.  A
\* version read earlier than this step and passed by others since is one the
\* unique index refuses: the same as a Rollback.  A batch is in one stream; a
\* Create of Link inserts one row, of an event that is there.
StartInsert(w) ==
    /\ lastId < MaxId
    /\ \E t \in open[w], s \in Streams, e \in eventStore \cup {lastId + 1} :
        /\ t.inserting = {}
        /\ \/ t.op = "append" /\ e = lastId + 1 /\ \A x \in t.rows : x.stream = s
           \/ t.op = "link" /\ e \in eventStore /\ t.rows = {}
        /\ open' = [open EXCEPT
                ![w] = {[t EXCEPT !.inserting = {NextRow(w, t, s, e)}]}]
    /\ lastId' = lastId + 1
    /\ UNCHANGED <<eventStore, rows, clock, readers, followers>>

\* Variant: no unique index on (stream_id, stream_version).
TakenByOwnOnly(w, s, n) == n \in VersionsIn(OpenRows(w), s)

\* Another open transaction holds the version.
Taken(w, s, n) == n \in VersionsIn(InFlight \ OpenRows(w), s)

\* The INSERT has waited until no other transaction holds its version, and
\* nobody has committed it.
FinishInsert(w) ==
    /\ \E t \in open[w] : \E r \in t.inserting :
        /\ ~Taken(w, r.stream, r.version)
        /\ r.version \notin VersionsIn(rows, r.stream)
        /\ open' = [open EXCEPT
                ![w] = {[t EXCEPT !.rows = @ \cup {r}, !.inserting = {}]}]
    /\ UNCHANGED <<eventStore, rows, lastId, clock, readers, followers>>

Commit(w) ==
    /\ open[w] # {}
    /\ DrawnBy(w) = {}
    /\ rows' = rows \cup OpenRows(w)
    /\ eventStore' = eventStore \cup {r.event : r \in OpenRows(w)}
    /\ open' = [open EXCEPT ![w] = {}]
    /\ UNCHANGED <<lastId, clock, readers, followers>>

\* A refused expectation, a version taken, a failed statement; the ids drawn
\* are spent.
Rollback(w) ==
    /\ open[w] # {}
    /\ open' = [open EXCEPT ![w] = {}]
    /\ UNCHANGED <<eventStore, rows, lastId, clock, readers, followers>>

\* event_store keeps the events of a deleted stream.
DeleteStream ==
    /\ \E s \in Deletable : rows' = {r \in rows : r.stream # s}
    /\ UNCHANGED <<eventStore, lastId, clock, open, readers, followers>>

Tick ==
    /\ clock < MaxTime
    /\ clock' = clock + 1
    /\ UNCHANGED <<eventStore, rows, lastId, open, readers, followers>>

-----------------------------------------------------------------------------
(* The callers                                                             *)

\* A caller narrows the reader it holds, in any order and as often as it likes.
Build ==
    /\ calls < MaxCalls
    /\ calls' = calls + 1
    /\ \/ \E s \in Streams : reader' = Stream(reader, s)
       \/ \E t \in TimeBounds : reader' = FromTime(reader, t)
       \/ \E t \in TimeBounds : reader' = ToTime(reader, t)
       \/ \E i \in IdBounds : reader' = FromId(reader, i)
       \/ \E i \in IdBounds : reader' = ToId(reader, i)
       \/ reader' = Forward(reader)
       \/ reader' = Backward(reader)
       \/ \E n \in Limits : reader' = Limit(reader, n)
    /\ UNCHANGED <<tables, followers>>

\* It asks, and keeps what the question leaves of the reader.  A question that
\* BuildQuery refuses, or panics in, leaves it as it was.
Ask ==
    /\ calls < MaxCalls
    /\ calls' = calls + 1
    /\ \/ /\ Answered(reader)
          /\ \/ reader' = AfterCount(reader)
             \/ reader' = AfterToList(reader)
             \/ \E e \in eventStore : reader' = AfterEvents(reader, {e})
             \/ \E e \in eventStore : reader' = AfterEvent(reader, e)
       \/ ~reader.failed /\ \E s \in Streams : reader' = AfterLast(reader, s)
    /\ UNCHANGED <<tables, followers>>

\* Read(ctx): a fresh reader.
NewReader ==
    /\ reader' = Read
    /\ calls' = 0
    /\ UNCHANGED <<tables, followers>>

\* A subscription can only be built from FromId, and FromId alone is ignored:
\* it takes a ToId as well.
NextQuery(f) ==
    LET q == ToId(FromId(Forward(Read), cursor[f] + 1), MaxId)
    IN IF f = AllStreams THEN q ELSE Stream(q, f)

Poll(f) ==
    /\ \E list \in Lists(NextQuery(f), Selected(NextQuery(f))) :
        /\ list # <<>>
        /\ cursor' = [cursor EXCEPT ![f] = list[Len(list)].id]
        /\ seen' = [seen EXCEPT ![f] = @ \cup Range(list)]
    /\ overtaken' = IF f = AllStreams
                    THEN overtaken \cup {r.id : r \in InFlight \cup Drawn}
                    ELSE overtaken
    /\ UNCHANGED <<tables, readers>>

Next ==
    \/ \E w \in Writers : \/ Begin(w) \/ StartInsert(w) \/ FinishInsert(w)
                          \/ Commit(w) \/ Rollback(w)
    \/ DeleteStream \/ Tick
    \/ Build \/ Ask \/ NewReader
    \/ \E f \in Followers : Poll(f)

Spec == Init /\ [][Next]_vars

-----------------------------------------------------------------------------
\* Every variable keeps its type.
TypeOK ==
    /\ rows \subseteq Row
    /\ eventStore \subseteq 1..MaxId
    /\ lastId \in 0..MaxId
    /\ clock \in 0..MaxTime
    /\ \A w \in Writers : /\ Cardinality(open[w]) <= 1
                          /\ OpenRows(w) \cup DrawnBy(w) \subseteq Row
    /\ reader \in Reader
    /\ calls \in 0..MaxCalls
    /\ cursor \in [Followers -> 0..MaxId]
    /\ \A f \in Followers : seen[f] \subseteq Row
    /\ overtaken \subseteq 1..MaxId

\* r is within the bounds b, read as the interface names them.
Within(b, r) ==
    /\ \A t \in b.fromTime : t <= r.created
    /\ \A t \in b.toTime : r.created <= t
    /\ \A i \in b.fromId : i <= r.id
    /\ \A i \in b.toId : r.id <= i

\* Bounds that BuildQuery does justice to: FromId comes with one of ToId and
\* FromTime.
Supported(b) == b.fromId # {} => b.toId # {} \/ b.fromTime # {}

\* What a reader is asked for: the streams named, the bounds it has now, those
\* it had at each question before, and the event an earlier question was about.
Wanted(q) ==
    {r \in rows : /\ \A s \in q.streams : r.stream = s
                  /\ \A b \in q.earlier \cup {q.bounds} : Within(b, r)
                  /\ \A E \in q.events : r.event \in E}

\* The direction a list comes in: the one that stood first when it was asked.
Asked(q) == IF q.order = "unset" THEN q.direction ELSE q.order

\* A reader that answers gives the committed events it is asked for and no
\* other: a reader not asked before those within the last bound of each kind,
\* one that is asked again only those that are also within the bounds of every
\* earlier question.  They come in the direction of the first question that
\* had one, and as many as the last limit lets through; Count counts them all.
AnswersTheQuestion ==
    Answered(reader) /\ (\A b \in reader.earlier \cup {reader.bounds} : Supported(b)) =>
        LET S == Wanted(reader)
            order == Asked(reader)
        IN /\ Count(reader) = Cardinality(S)
           /\ \A list \in Lists(reader, Selected(reader)) :
                /\ Len(list) = Min({Cardinality(S)} \cup reader.limit)
                /\ Range(list) \subseteq S
                /\ Cardinality(Range(list)) = Len(list)
                /\ \A i, j \in DOMAIN list : i < j =>
                    /\ order = "forward" =>
                        /\ list[i].id < list[j].id
                        /\ list[i].stream = list[j].stream =>
                            list[i].version < list[j].version \/ list[i].stream \in Deletable
                    /\ order = "backward" => list[i].id > list[j].id
                /\ order # "unset" =>
                    \A r \in S \ Range(list), i \in DOMAIN list :
                        IF order = "forward" THEN list[i].id < r.id
                                             ELSE list[i].id > r.id

\* Four answers about one event of a stream agree in one state of the tables:
\* IsEventInStream, GetVersionInStream, and the message that Event and Events
\* of a fresh reader give for it.  The last two take its row with the largest
\* id and the second the one with the largest version: the same row in a stream
\* that is not deleted.  GetStreamIdOf, which answers the empty string for
\* every event, is not among them.
LookupsAgree ==
    \A e \in {r.event : r \in rows}, s \in Streams :
        LET q == Stream(Read, s)
        IN /\ HasEvent(e)
           /\ IsEventInStream(s, e) <=> GetVersionInStream(s, e) # {}
           /\ IsEventInStream(s, e) <=> Event(q, e) # {}
           /\ s \notin Deletable =>
                \A v \in GetVersionInStream(s, e) :
                    /\ Event(Backward(q), e) = {[event |-> e, version |-> v]}
                    /\ \A list \in Events(Limit(Backward(q), 1), {e}) :
                        list = <<[event |-> e, version |-> v]>>

\* The version Last reports for a stream that is not deleted is the number of
\* its events: what a caller has to pass to Append as expectedVersion.
LastIsCount ==
    \A s \in Streams \ Deletable :
        {m.version : m \in LastEvent(Read, s)} = {Count(Stream(Read, s))} \ {0}

\* A follower of one stream reads every event of it: ids of a stream become
\* visible in order, for the next version is free only after the commit.
StreamFollowed ==
    \A f \in Followers \cap Streams, r \in rows :
        r.stream = f /\ r.id <= cursor[f] => r \in seen[f]

\* A follower of all streams misses an event only when its transaction had
\* drawn the id and was still open when the follower read past it.
MissedWereOpen ==
    \A f \in Followers \ Streams, r \in rows :
        r.id <= cursor[f] /\ r \notin seen[f] => r.id \in overtaken
=============================================================================
