-------------------------- MODULE SqlEventRepository --------------------------
(***************************************************************************)
(* The writing half of sqlEventRepository (sqleventrepository.go): Append, *)
(* Link and DeleteStream, called concurrently by goroutines, each of them  *)
(* a sequence of SQL statements that other calls interleave with.          *)
(*                                                                         *)
(* The database is PostgreSQL at READ COMMITTED, the level a transaction   *)
(* gets when none is asked for: every statement sees what is committed     *)
(* when it starts plus the transaction's own writes, and an INSERT whose   *)
(* key another open transaction holds waits for that transaction to end.   *)
(* Append runs in one transaction; every statement of Link and             *)
(* DeleteStream commits on its own.                                        *)
(*                                                                         *)
(* A nil-able *int is a set with at most one element.  Event ids stand for *)
(* the UUIDs of NewUUID: <<n, i>> is the i-th event of the n-th call.      *)
(***************************************************************************)
EXTENDS Integers, Sequences, FiniteSets, SequencesExt

CONSTANTS
    Clients,        \* goroutines that call the repository
    StreamIds,      \* stream names, the empty string among them
    EmptyStreamId,  \* the stream name ""
    Deletable,      \* streams the program ever deletes
    MaxCalls,       \* bound: calls of Append and Link in a behaviour
    MaxBatch,       \* bound: events of one Append
    MaxLink,        \* bound: event ids of one Link
    MaxExpected     \* bound: largest expectedVersion a caller passes

ASSUME RepositoryAssumption ==
    /\ Clients # {}
    /\ EmptyStreamId \in StreamIds
    /\ Deletable \subseteq StreamIds
    /\ MaxCalls \in Nat
    /\ MaxBatch \in Nat
    /\ MaxLink \in Nat
    /\ MaxExpected \in Nat

VARIABLES
    eventStore,   \* committed rows of table event_store (their event_id)
    eventStream,  \* committed rows of table event_stream
    lastId,       \* the sequence behind event_stream.id
    calls,        \* calls of Append and Link begun so far
    pc,           \* the statement each client executes next
    call,         \* the arguments of each client's latest Append or Link
    done,         \* events of that call inserted into event_stream so far
    last,         \* the last version that call has read
    inserting,    \* the row it is waiting to insert, if any
    txStore,      \* uncommitted rows of event_store, per client
    txStream,     \* uncommitted rows of event_stream, per client
    result        \* what its latest call returned

vars == <<eventStore, eventStream, lastId, calls, pc, call, done, last,
          inserting, txStore, txStream, result>>

db == <<eventStore, eventStream, lastId>>

EventId == Nat \X Nat
NoEvent == <<0, 0>>               \* an id no event ever gets
Expected == {{}} \cup {{v} : v \in 0..MaxExpected}

Row == [id : Nat, stream : StreamIds, version : Nat \ {0}, event : EventId]

Call == [op : {"none", "append", "link"}, stream : StreamIds,
         ids : Seq(EventId), expected : SUBSET Nat]

NoCall == [op |-> "none", stream |-> EmptyStreamId, ids |-> <<>>,
           expected |-> {}]

Results == {"none", "pending", "ok", "refused", "duplicate", "missing",
            "rejected", "error"}

\* Streams that only ever grow.
Kept == StreamIds \ Deletable

RowsOf(rows, s) == {r \in rows : r.stream = s}
Versions(rows, s) == {r.version : r \in RowsOf(rows, s)}

\* Variant: the statements go to the pool instead of the transaction.
VisibleCommittedOnly(c) == eventStream

\* The rows a statement of client c sees.
Visible(c) == eventStream \cup txStream[c]

\* SELECT stream_version ... ORDER BY stream_version DESC LIMIT 1 answers v,
\* or finds no row and lastVersion stays 0.
IsLastVersion(rows, s, v) ==
    /\ v \in {0} \cup Versions(rows, s)
    /\ \A w \in Versions(rows, s) : w <= v

SameKey(r, q) == r.stream = q.stream /\ r.version = q.version

\* Variant: no unique index on (stream_id, stream_version).
TakenNoIndex(c) == FALSE

Taken(c) == \E r \in inserting[c], q \in Visible(c) : SameKey(r, q)

\* FOREIGN KEY (event_id): the event of the row is in event_store, committed or
\* inserted by the same transaction.  Where it is not the insert fails (DbError).
Referenced(c) == \A r \in inserting[c] : r.event \in eventStore \cup txStore[c]

\* Another open transaction holds the key of the row c wants to insert.
Blocked(c) == \E d \in Clients \ {c} : \E r \in inserting[c], q \in txStream[d] :
                  SameKey(r, q)

Init ==
    /\ eventStore = {}
    /\ eventStream = {}
    /\ lastId = 0
    /\ calls = 0
    /\ pc = [c \in Clients |-> "idle"]
    /\ call = [c \in Clients |-> NoCall]
    /\ done = [c \in Clients |-> 0]
    /\ last = [c \in Clients |-> 0]
    /\ inserting = [c \in Clients |-> {}]
    /\ txStore = [c \in Clients |-> {}]
    /\ txStream = [c \in Clients |-> {}]
    /\ result = [c \in Clients |-> "none"]

-----------------------------------------------------------------------------
\* Variant: the transaction is left open when the call fails.
ReturnNoRollback(c, res) ==
    /\ pc' = [pc EXCEPT ![c] = "idle"]
    /\ result' = [result EXCEPT ![c] = res]
    /\ inserting' = [inserting EXCEPT ![c] = {}]
    /\ last' = [last EXCEPT ![c] = 0]
    /\ UNCHANGED <<calls, call, done, txStore, txStream>>

\* A call ends: what its transaction wrote and did not commit is rolled back.
Return(c, res) ==
    /\ pc' = [pc EXCEPT ![c] = "idle"]
    /\ result' = [result EXCEPT ![c] = res]
    /\ inserting' = [inserting EXCEPT ![c] = {}]
    /\ txStore' = [txStore EXCEPT ![c] = {}]
    /\ txStream' = [txStream EXCEPT ![c] = {}]
    /\ last' = [last EXCEPT ![c] = 0]
    /\ UNCHANGED <<calls, call, done>>

Begin(c, request, first) ==
    /\ pc[c] = "idle"
    /\ calls < MaxCalls
    /\ calls' = calls + 1
    /\ call' = [call EXCEPT ![c] = request]
    /\ done' = [done EXCEPT ![c] = 0]
    /\ pc' = [pc EXCEPT ![c] = first]
    /\ result' = [result EXCEPT ![c] = "pending"]
    /\ UNCHANGED <<db, last, inserting, txStore, txStream>>

\* Append: the events get fresh ids before the transaction starts.
AppendToStream(c) ==
    \E s \in StreamIds \ {EmptyStreamId}, n \in 0..MaxBatch, e \in Expected :
        Begin(c, [op |-> "append", stream |-> s, expected |-> e,
                  ids |-> [i \in 1..n |-> <<calls + 1, i>>]], "store")

\* Link has no check for the empty stream name.
Link(c) ==
    \E s \in StreamIds, e \in Expected :
        \E ids \in BoundedSeq(eventStore \cup {NoEvent}, MaxLink) :
            Begin(c, [op |-> "link", stream |-> s, expected |-> e,
                      ids |-> ids], "check")

\* The early returns of Append and DeleteStream, before any statement: an empty
\* stream name, or an event that does not marshal.
Reject(c) ==
    /\ pc[c] = "idle"
    /\ call' = [call EXCEPT ![c] = NoCall]
    /\ result' = [result EXCEPT ![c] = "rejected"]
    /\ UNCHANGED <<db, calls, pc, done, last, inserting, txStore, txStream>>

\* INSERT INTO event_store of the whole batch, first statement of Append.
InsertEvents(c) ==
    /\ pc[c] = "store"
    /\ txStore' = [txStore EXCEPT ![c] = Range(call[c].ids)]
    /\ pc' = [pc EXCEPT ![c] = "version"]
    /\ UNCHANGED <<db, calls, call, done, last, inserting, txStream, result>>

\* Variant: the ids are looked up and the answer is not compared.
AllFoundUnchecked(ids) == TRUE

\* Link's SELECT over event_store must find as many rows as there are ids.
AllFound(ids) == Cardinality(Range(ids) \cap eventStore) = Len(ids)

CheckEvents(c) ==
    /\ pc[c] = "check"
    /\ AllFound(call[c].ids)
    /\ pc' = [pc EXCEPT ![c] = "version"]
    /\ UNCHANGED <<db, calls, call, done, last, inserting, txStore, txStream,
                   result>>

EventMissing(c) ==
    /\ pc[c] = "check"
    /\ ~AllFound(call[c].ids)
    /\ Return(c, "missing")
    /\ UNCHANGED db

\* The loop over the events, shared by Append and Link.
MoreToInsert(c) == pc[c] = "version" /\ done[c] < Len(call[c].ids)
LoopEnded(c) == pc[c] = "version" /\ done[c] = Len(call[c].ids)

ReadsLastVersion(c, v) == IsLastVersion(Visible(c), call[c].stream, v)
\* Variant: only an expectation ahead of the stream is refused.
AsExpectedOrLess(c, v) == \A e \in call[c].expected : e <= v

AsExpected(c, v) == call[c].expected \subseteq {v}

ReadLastVersion(c) ==
    /\ MoreToInsert(c)
    /\ \E v \in {0} \cup Versions(Visible(c), call[c].stream) :
        /\ ReadsLastVersion(c, v)
        /\ AsExpected(c, v)
        /\ last' = [last EXCEPT ![c] = v]
    /\ pc' = [pc EXCEPT ![c] = "insert"]
    /\ UNCHANGED <<db, calls, call, done, inserting, txStore, txStream, result>>

WrongVersion(c) ==
    /\ MoreToInsert(c)
    /\ \E v \in {0} \cup Versions(Visible(c), call[c].stream) :
        ReadsLastVersion(c, v) /\ ~AsExpected(c, v)
    /\ Return(c, "refused")
    /\ UNCHANGED db

\* Variants: versions counted from 0; events taken from the end of the batch.
StartInsertZeroBased(c) ==
    /\ pc[c] = "insert"
    /\ lastId' = lastId + 1
    /\ inserting' = [inserting EXCEPT ![c] =
                        {[id |-> lastId + 1, stream |-> call[c].stream,
                          version |-> last[c],
                          event |-> call[c].ids[done[c] + 1]]}]
    /\ pc' = [pc EXCEPT ![c] = "index"]
    /\ UNCHANGED <<eventStore, eventStream, calls, call, done, last, txStore,
                   txStream, result>>

StartInsertReversed(c) ==
    /\ pc[c] = "insert"
    /\ lastId' = lastId + 1
    /\ inserting' = [inserting EXCEPT ![c] =
                        {[id |-> lastId + 1, stream |-> call[c].stream,
                          version |-> last[c] + 1,
                          event |-> call[c].ids[Len(call[c].ids) - done[c]]]}]
    /\ pc' = [pc EXCEPT ![c] = "index"]
    /\ UNCHANGED <<eventStore, eventStream, calls, call, done, last, txStore,
                   txStream, result>>

\* INSERT INTO event_stream, up to the unique index on (stream_id,
\* stream_version): the id is drawn here, before the insert can wait or fail.
StartInsert(c) ==
    /\ pc[c] = "insert"
    /\ lastId' = lastId + 1
    /\ inserting' = [inserting EXCEPT ![c] =
                        {[id |-> lastId + 1, stream |-> call[c].stream,
                          version |-> last[c] + 1,
                          event |-> call[c].ids[done[c] + 1]]}]
    /\ pc' = [pc EXCEPT ![c] = "index"]
    /\ UNCHANGED <<eventStore, eventStream, calls, call, done, last, txStore,
                   txStream, result>>

\* Variant: Append without a transaction.
FinishInsertAutocommit(c) ==
    /\ pc[c] = "index"
    /\ ~Taken(c)
    /\ ~Blocked(c)
    /\ Referenced(c)
    /\ eventStream' = eventStream \cup inserting[c]
    /\ done' = [done EXCEPT ![c] = @ + 1]
    /\ last' = [last EXCEPT ![c] = 0]
    /\ inserting' = [inserting EXCEPT ![c] = {}]
    /\ pc' = [pc EXCEPT ![c] = "version"]
    /\ UNCHANGED <<eventStore, lastId, calls, call, txStore, txStream, result>>

\* The row goes in: into the transaction of Append, or committed by Link.
FinishInsert(c) ==
    /\ pc[c] = "index"
    /\ ~Taken(c)
    /\ ~Blocked(c)
    /\ Referenced(c)
    /\ IF call[c].op = "append"
       THEN /\ txStream' = [txStream EXCEPT ![c] = @ \cup inserting[c]]
            /\ UNCHANGED eventStream
       ELSE /\ eventStream' = eventStream \cup inserting[c]
            /\ UNCHANGED txStream
    /\ done' = [done EXCEPT ![c] = @ + 1]
    /\ last' = [last EXCEPT ![c] = 0]
    /\ inserting' = [inserting EXCEPT ![c] = {}]
    /\ pc' = [pc EXCEPT ![c] = "version"]
    /\ UNCHANGED <<eventStore, lastId, calls, call, txStore, result>>

\* The unique index refuses the row.
UniqueViolation(c) ==
    /\ pc[c] = "index"
    /\ Taken(c)
    /\ Return(c, "duplicate")
    /\ UNCHANGED db

\* COMMIT of Append; the second result is a commit whose answer is lost.
Commit(c) ==
    /\ call[c].op = "append"
    /\ LoopEnded(c)
    /\ eventStore' = eventStore \cup txStore[c]
    /\ eventStream' = eventStream \cup txStream[c]
    /\ \E res \in {"ok", "error"} : Return(c, res)
    /\ UNCHANGED lastId

FinishLink(c) ==
    /\ call[c].op = "link"
    /\ LoopEnded(c)
    /\ Return(c, "ok")
    /\ UNCHANGED db

\* A statement fails without effect: connection lost, context cancelled.
\* What Link has inserted stays, what Append has inserted is rolled back.
DbError(c) ==
    /\ pc[c] # "idle"
    /\ Return(c, "error")
    /\ UNCHANGED db

\* An autocommitted INSERT of Link takes effect and its answer is lost.
LinkUnacknowledged(c) ==
    /\ pc[c] = "index"
    /\ call[c].op = "link"
    /\ ~Taken(c)
    /\ ~Blocked(c)
    /\ Referenced(c)
    /\ eventStream' = eventStream \cup inserting[c]
    /\ Return(c, "error")
    /\ UNCHANGED <<eventStore, lastId>>

\* Variant: the DELETE without its WHERE.
DeleteStreamEverywhere(c) ==
    /\ pc[c] = "idle"
    /\ Deletable \ {EmptyStreamId} # {}
    /\ result' = [result EXCEPT ![c] = "ok"]
    /\ eventStream' = {}
    /\ call' = [call EXCEPT ![c] = NoCall]
    /\ UNCHANGED <<eventStore, lastId, calls, pc, done, last, inserting,
                   txStore, txStream>>

\* One DELETE of the committed rows of the stream; event_store keeps its
\* events.  It may fail without effect, or succeed and the answer be lost.
DeleteStream(c) ==
    /\ pc[c] = "idle"
    /\ \E s \in Deletable \ {EmptyStreamId}, res \in {"ok", "error"} :
        /\ result' = [result EXCEPT ![c] = res]
        /\ \/ eventStream' = eventStream \ RowsOf(eventStream, s)
           \/ res = "error" /\ UNCHANGED eventStream
    /\ call' = [call EXCEPT ![c] = NoCall]
    /\ UNCHANGED <<eventStore, lastId, calls, pc, done, last, inserting,
                   txStore, txStream>>

-----------------------------------------------------------------------------
Invoke(c) == AppendToStream(c) \/ Link(c) \/ Reject(c) \/ DeleteStream(c)

Progress(c) ==
    \/ InsertEvents(c)
    \/ CheckEvents(c)
    \/ EventMissing(c)
    \/ ReadLastVersion(c)
    \/ WrongVersion(c)
    \/ StartInsert(c)
    \/ FinishInsert(c)
    \/ UniqueViolation(c)
    \/ Commit(c)
    \/ FinishLink(c)

Fault(c) == DbError(c) \/ LinkUnacknowledged(c)

Next == \E c \in Clients : Invoke(c) \/ Progress(c) \/ Fault(c)

Spec == Init /\ [][Next]_vars

\* A goroutine inside a call goes on, and the database answers every statement
\* that no lock holds back.
FairSpec == Spec /\ \A c \in Clients : WF_vars(Progress(c))

-----------------------------------------------------------------------------
(* Safety.  Streams that are deleted lose the promises about versions:     *)
(* those are stated for Kept streams.                                      *)

\* Every variable keeps its type.
TypeOK ==
    /\ eventStore \subseteq EventId
    /\ eventStream \subseteq Row
    /\ lastId \in Nat
    /\ calls \in Nat
    /\ pc \in [Clients -> {"idle", "store", "check", "version", "insert",
                           "index"}]
    /\ call \in [Clients -> Call]
    /\ done \in [Clients -> Nat]
    /\ last \in [Clients -> Nat]
    /\ inserting \in [Clients -> SUBSET Row]
    /\ txStore \in [Clients -> SUBSET EventId]
    /\ txStream \in [Clients -> SUBSET Row]
    /\ result \in [Clients -> Results]

\* What is committed to a stream is numbered 1, 2, 3, ... with no gap and no
\* number given twice, although every writer reads the last version in one
\* statement and inserts in another.
VersionsContiguous ==
    \A s \in Kept :
        /\ \A r \in RowsOf(eventStream, s) :
               \A v \in 1..r.version : v \in Versions(eventStream, s)
        /\ \A r, q \in RowsOf(eventStream, s) : SameKey(r, q) => r = q

\* Forward() replays a stream in the order of event_stream.id, drawn from a
\* sequence that no transaction holds: on every stream that order is the order
\* of the versions, or an aggregate would be rebuilt from shuffled events.
ReplayOrder ==
    \A s \in Kept : \A r, q \in RowsOf(eventStream, s) :
        r.version < q.version <=> r.id < q.id

\* No row names an event that event_store does not have, and no insert is ever
\* refused for that by the foreign key: Append inserts the events of its batch
\* before their rows, Link looks before it inserts, and nothing takes an event away.
EventsOfRowsStored ==
    /\ \A r \in eventStream : r.event \in eventStore
    /\ \A c \in Clients : \A r \in inserting[c] \cup txStream[c] :
           r.event \in eventStore \cup txStore[c]

\* The events of one Append are stored all or none, with consecutive versions
\* in the order the caller gave, whatever runs between its statements; a call
\* that was refused has left nothing.
AppendAtomic ==
    \A c \in Clients :
        LET ids == call[c].ids
            s == call[c].stream
        IN  call[c].op = "append" =>
            \/ /\ result[c] \in {"ok", "error"}
               /\ Range(ids) \subseteq eventStore
               /\ s \in Kept =>
                    \E v \in 0..lastId : \A i \in 1..Len(ids) :
                        \E r \in RowsOf(eventStream, s) :
                            r.version = v + i /\ r.event = ids[i]
            \/ /\ result[c] = "ok" => ids = <<>>
               /\ Range(ids) \cap eventStore = {}
               /\ \A r \in eventStream : r.event \notin Range(ids)

\* However a Link ends, the events it has counted are in the stream in the
\* order of its argument; a Link that answers ok has linked them all.
LinkedInOrder ==
    \A c \in Clients :
        LET n == done[c]
            s == call[c].stream
        IN  call[c].op = "link" /\ s \in Kept =>
            /\ result[c] = "ok" => n = Len(call[c].ids)
            /\ \E at \in [1..n -> Versions(eventStream, s)] :
                   /\ \A i, j \in 1..n : i < j => at[i] < at[j]
                   /\ \A i \in 1..n : \E r \in RowsOf(eventStream, s) :
                          r.version = at[i] /\ r.event = call[c].ids[i]

\* No step takes a committed row away, changes it, or puts one below another:
\* a reader that has seen n events of a stream only ever sees more at the end.
StreamAppendOnly ==
    [][\A s \in Kept :
          /\ RowsOf(eventStream, s) \subseteq RowsOf(eventStream', s)
          /\ \A r \in RowsOf(eventStream, s) :
                 \A q \in RowsOf(eventStream', s) \ RowsOf(eventStream, s) :
                     r.version < q.version /\ r.id < q.id]_vars

\* Optimistic concurrency: a row that becomes visible for a caller that passed
\* an expectedVersion follows exactly that version at that moment, so nothing
\* another writer committed since has been overlooked.
ExpectedVersionHonoured ==
    [][\A c \in Clients : \A r \in eventStream' \ eventStream :
          /\ r \in txStream[c] \cup inserting[c]
          /\ r.stream \in Kept
          /\ call[c].expected # {}
          => /\ call[c].expected = {r.version - 1}
             /\ IsLastVersion(eventStream, r.stream, r.version - 1)]_vars

\* "Wrong expected stream version" (line 351) is the answer to a caller whose
\* expectedVersion is not the version of the stream.
RefusedOnlyWhenWrong ==
    [][\A c \in Clients :
          pc[c] # "idle" /\ result'[c] = "refused" =>
              \A e \in call[c].expected :
                  ~IsLastVersion(eventStream, call[c].stream, e)]_vars

\* Every call comes back, also one that waits for another's transaction.
CallReturns == \A c \in Clients : pc[c] # "idle" ~> pc[c] = "idle"

-----------------------------------------------------------------------------
(* The inductive invariant behind the safety properties.                   *)

\* While a row is prepared there is an event left to insert.
InBatch ==
    \A c \in Clients :
        pc[c] \in {"insert", "index"} => done[c] < Len(call[c].ids)

NoGaps(rows, s) ==
    \A r \in RowsOf(rows, s) : \A v \in 1..r.version : v \in Versions(rows, s)

\* Uncommitted rows belong to the stream of a call of Append under way, and a
\* call inserts one row at a time.
TxOwned ==
    \A c \in Clients :
        /\ pc[c] = "idle" \/ call[c].op # "append" => txStream[c] = {}
        /\ pc[c] # "index" <=> inserting[c] = {}
        /\ \A r, q \in inserting[c] : r = q
        /\ \A r \in txStream[c] \cup inserting[c] : r.stream = call[c].stream

\* No two rows have a key in common, committed or not.
KeysUnique ==
    /\ \A r, q \in eventStream : SameKey(r, q) => r = q
    /\ \A c \in Clients : \A r \in txStream[c] :
        /\ \A q \in txStream[c] : SameKey(r, q) => r = q
        /\ \A q \in eventStream : ~SameKey(r, q)
        /\ \A d \in Clients \ {c} : \A q \in txStream[d] : ~SameKey(r, q)

\* What a client sees of a stream has no gap, with and without what it has not
\* committed itself.
VisibleContiguous ==
    \A s \in Kept :
        /\ NoGaps(eventStream, s)
        /\ \A c \in Clients : NoGaps(Visible(c), s)

\* The version a client builds on stays visible until its row is inserted.
LastStillVisible ==
    \A c \in Clients : call[c].stream \in Kept =>
        /\ pc[c] = "insert" =>
               last[c] \in {0} \cup Versions(Visible(c), call[c].stream)
        /\ \A r \in inserting[c] :
               r.version - 1 \in {0} \cup Versions(Visible(c), call[c].stream)

\* An expectedVersion that was compared is the version the row follows.
ExpectedCompared ==
    \A c \in Clients :
        /\ pc[c] = "insert" => call[c].expected \subseteq {last[c]}
        /\ \A r \in txStream[c] \cup inserting[c] :
               call[c].expected \subseteq {r.version - 1}

\* Ids grow with versions among the rows a client sees, also for the row whose
\* id is drawn and which is not inserted yet.
IdsOrdered ==
    /\ \A r \in eventStream : r.id <= lastId
    /\ \A c \in Clients :
        /\ \A r \in txStream[c] \cup inserting[c] : r.id <= lastId
        /\ \A r \in Visible(c) \cup inserting[c], q \in Visible(c) :
               /\ r.stream = q.stream
               /\ r.stream \in Kept
               /\ q.version < r.version
               => q.id < r.id

\* Keys, gaps and ids of committed and uncommitted rows together: the facts
\* that make the promises about versions survive every statement.
WriterInv ==
    /\ InBatch
    /\ TxOwned
    /\ KeysUnique
    /\ VisibleContiguous
    /\ LastStillVisible
    /\ ExpectedCompared
    /\ IdsOrdered

-----------------------------------------------------------------------------
(* The repository implements the abstract log of EventLog, when no stream  *)
(* is deleted: the log of a stream is its committed events by version, and *)
(* a call takes effect when its transaction, or Link's insert, commits.    *)

LogOf(s) == [v \in 1..Cardinality(RowsOf(eventStream, s)) |->
                (CHOOSE r \in RowsOf(eventStream, s) : r.version = v).event]

Remaining(c) == IF call[c].op = "link"
                THEN SubSeq(call[c].ids, done[c] + 1, Len(call[c].ids))
                ELSE call[c].ids

Log == INSTANCE EventLog WITH
    log <- [s \in StreamIds |-> LogOf(s)],
    active <- [c \in Clients |->
                  IF pc[c] = "idle" THEN {}
                  ELSE {[op |-> call[c].op, stream |-> call[c].stream,
                         ids |-> Remaining(c),
                         expected |-> call[c].expected]}],
    outcome <- result,
    Events <- EventId

\* Each call of Append takes effect at one moment or not at all, each Link
\* event by event, and both only where expectedVersion holds at that moment.
ImplementsEventLog == Log!Spec
=============================================================================
