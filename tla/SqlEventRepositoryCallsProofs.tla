--------------------- MODULE SqlEventRepositoryCallsProofs ---------------------
(***************************************************************************)
(* Proofs about what one call of Append or Link leaves in the tables: the  *)
(* rows name stored events, a batch is stored whole or not at all, and a   *)
(* Link links in the order of its argument.  WriterInv says how rows hang  *)
(* together; CallInv says how the rows of a call hang together with its    *)
(* arguments and with how far it has come.                                 *)
(***************************************************************************)
EXTENDS SqlEventRepositoryProofs, FiniteSetTheorems

USE DEF db

\* The statements of the loop over the events of a call.
Looping(c) == pc[c] \in {"version", "insert", "index"}

\* What a call holds at each of its statements.
CallState ==
    \A c \in Clients :
        /\ pc[c] # "idle" => /\ call[c].op \in {"append", "link"}
                             /\ result[c] = "pending"
        /\ pc[c] = "store" => call[c].op = "append"
        /\ pc[c] = "check" => call[c].op = "link"
        /\ pc[c] \in {"store", "check"} => done[c] = 0
        /\ done[c] = 0 => txStream[c] = {}
        /\ pc[c] # "idle" => done[c] <= Len(call[c].ids)

\* The events a call is about are where its rows will look for them.
CallEvents ==
    \A c \in Clients :
        /\ txStore[c] = IF Looping(c) /\ call[c].op = "append"
                        THEN Range(call[c].ids) ELSE {}
        /\ Looping(c) /\ call[c].op = "link" => Range(call[c].ids) \subseteq eventStore
        /\ \A r \in inserting[c] : r.event = call[c].ids[done[c] + 1]
        /\ \A r \in txStream[c] : r.event \in Range(call[c].ids)

\* No two calls of Append have an event in common, nor one with the past.
IdsFresh ==
    /\ \A e \in eventStore : e[1] <= calls
    /\ \A c \in Clients : call[c].op = "append" =>
        /\ \A e \in Range(call[c].ids) : e[1] <= calls
        /\ \A d \in Clients \ {c} : call[d].op = "append" =>
               Range(call[c].ids) \cap Range(call[d].ids) = {}

\* A version is never above the id of its row: versions are counted as ids are
\* drawn, which bounds the version a batch starts at.
VersionsBounded ==
    \A c \in Clients : \A r \in Visible(c) \cup inserting[c] :
        r.stream \in Kept => r.version <= r.id

\* The rows of an Append under way, behind version v: its first events in the
\* caller's order, with nothing before them and nothing after.
Numbered(c, v) ==
    LET n == done[c]
    IN  /\ \A i \in 1..n : \E r \in txStream[c] :
               r.version = v + i /\ r.event = call[c].ids[i]
        /\ \A r \in txStream[c] : v < r.version /\ r.version <= v + n
        /\ n > 0 /\ pc[c] = "insert" => last[c] = v + n
        /\ n > 0 => \A r \in inserting[c] : r.version = v + n + 1

BatchNumbered ==
    \A c \in Clients :
        Looping(c) /\ call[c].op = "append" /\ call[c].stream \in Kept
            => \E v \in Nat : Numbered(c, v)

\* No committed row is without its event.
RowsStored == \A r \in eventStream : r.event \in eventStore

CallInv ==
    /\ CallState
    /\ CallEvents
    /\ IdsFresh
    /\ VersionsBounded
    /\ BatchNumbered
    /\ RowsStored
    /\ AppendAtomic
    /\ LinkedInOrder

-----------------------------------------------------------------------------
(* A step is one of a client's own, and leaves the calls of others alone.  *)

Own(d) == Invoke(d) \/ Progress(d) \/ Fault(d)

Still(d) ==
    /\ pc'[d] = pc[d] /\ call'[d] = call[d] /\ done'[d] = done[d]
    /\ last'[d] = last[d] /\ inserting'[d] = inserting[d]
    /\ txStore'[d] = txStore[d] /\ txStream'[d] = txStream[d]
    /\ result'[d] = result[d]

\* What a client does leaves the call of every other client where it was.
LEMMA OthersStill ==
    ASSUME TypeOK, NEW c \in Clients, Own(c), NEW d \in Clients \ {c}
    PROVE  Still(d)
  <1> USE DEF TypeOK, Still
  <1>1. CASE AppendToStream(c) \/ Link(c)
    BY <1>1 DEF AppendToStream, Link, Begin
  <1>2. CASE Reject(c) \/ DeleteStream(c)
    BY <1>2 DEF Reject, DeleteStream
  <1>3. CASE \/ InsertEvents(c) \/ CheckEvents(c) \/ ReadLastVersion(c)
             \/ StartInsert(c)
    BY <1>3 DEF InsertEvents, CheckEvents, ReadLastVersion, StartInsert
  <1>4. CASE FinishInsert(c)
    BY <1>4 DEF FinishInsert
  <1>5. CASE Abort(c) \/ Commit(c) \/ LinkUnacknowledged(c)
    <2>1. \E res : Return(c, res)
      BY <1>5, AbortReturns DEF Commit, LinkUnacknowledged
    <2> QED
      BY <2>1 DEF Return
  <1> QED
    BY <1>1, <1>2, <1>3, <1>4, <1>5 DEF Own, Invoke, Progress, Fault, Abort

\* Seen from one client, a step is its own or leaves its call where it was.
LEMMA OwnOrStill ==
    ASSUME TypeOK, [Next]_vars, NEW d \in Clients
    PROVE  Own(d) \/ Still(d)
  BY OthersStill DEF Next, vars, Own, Still

\* An Append begins with fresh ids and nothing done.
LEMMA AppendBegins ==
    ASSUME TypeOK, NEW c \in Clients, AppendToStream(c)
    PROVE  /\ pc[c] = "idle" /\ pc'[c] = "store" /\ done'[c] = 0
           /\ result'[c] = "pending" /\ calls' = calls + 1
           /\ UNCHANGED <<db, last, inserting, txStore, txStream>>
           /\ call'[c].op = "append"
           /\ call'[c].ids \in Seq(EventId)
           /\ \A e \in Range(call'[c].ids) : e[1] = calls + 1
  <1>1. PICK s \in StreamIds \ {EmptyStreamId}, n \in 0..MaxBatch, e \in Expected :
            Begin(c, [op |-> "append", stream |-> s, expected |-> e,
                  ids |-> [i \in 1..n |-> <<calls + 1, i>>]], "store")
    BY DEF AppendToStream
  <1> DEFINE r == [op |-> "append", stream |-> s, expected |-> e,
                   ids |-> [i \in 1..n |-> <<calls + 1, i>>]]
  <1>2. n \in Nat
    BY RepositoryAssumption
  <1>3. /\ r.op = "append" /\ r.ids \in Seq(EventId)
        /\ \A x \in Range(r.ids) : x[1] = calls + 1
    <2>1. \A i \in 1..n : <<calls + 1, i>> \in EventId
      BY <1>2 DEF EventId, TypeOK
    <2> QED
      BY <1>2, <2>1 DEF Range
  <1> HIDE DEF r
  <1> QED
    BY <1>1, <1>3 DEF Begin, TypeOK, r

\* A Link begins with nothing done.
LEMMA LinkBegins ==
    ASSUME TypeOK, NEW c \in Clients, Link(c)
    PROVE  /\ pc[c] = "idle" /\ pc'[c] = "check" /\ done'[c] = 0
           /\ result'[c] = "pending" /\ calls' = calls + 1
           /\ UNCHANGED <<db, last, inserting, txStore, txStream>>
           /\ call'[c].op = "link"
           /\ call'[c].ids \in Seq(EventId)
  <1>1. PICK s \in StreamIds, e \in Expected :
             \E ids \in BoundedSeq(eventStore \cup {NoEvent}, MaxLink) :
                Begin(c, [op |-> "link", stream |-> s, expected |-> e,
                          ids |-> ids], "check")
    BY DEF Link
  <1>2. PICK ids \in BoundedSeq(eventStore \cup {NoEvent}, MaxLink) :
                Begin(c, [op |-> "link", stream |-> s, expected |-> e,
                          ids |-> ids], "check")
    BY <1>1
  <1>3. ids \in Seq(EventId)
    <2>1. eventStore \cup {NoEvent} \subseteq EventId
      BY DEF TypeOK, NoEvent, EventId
    <2>2. PICK m \in 0..MaxLink : ids \in [1..m -> eventStore \cup {NoEvent}]
      BY DEF BoundedSeq, SeqOf
    <2>3. m \in Nat
      BY RepositoryAssumption
    <2> QED
      BY <2>1, <2>2, <2>3
  <1> QED
    BY <1>2, <1>3 DEF Begin, TypeOK

\* No statement is executed out of the order of its operation.
LEMMA StepCallState ==
    ASSUME TypeOK, InBatch, TxOwned, CallState, [Next]_vars
    PROVE  CallState'
  <1> SUFFICES ASSUME NEW d \in Clients
               PROVE  /\ pc'[d] # "idle" => /\ call'[d].op \in {"append", "link"}
                                            /\ result'[d] = "pending"
                      /\ pc'[d] = "store" => call'[d].op = "append"
                      /\ pc'[d] = "check" => call'[d].op = "link"
                      /\ pc'[d] \in {"store", "check"} => done'[d] = 0
                      /\ done'[d] = 0 => txStream'[d] = {}
                      /\ pc'[d] # "idle" => done'[d] <= Len(call'[d].ids)
    BY DEF CallState
  <1> USE DEF TypeOK, CallState
  <1>1. CASE Still(d)
    BY <1>1 DEF Still
  <1>2. CASE AppendToStream(d) \/ Link(d)
    <2>1. Len(call'[d].ids) \in Nat
      BY <1>2, AppendBegins, LinkBegins
    <2> QED
      BY <1>2, <2>1, AppendBegins, LinkBegins DEF TxOwned
  <1>3. CASE Reject(d) \/ DeleteStream(d)
    BY <1>3 DEF Reject, DeleteStream
  <1>4. CASE InsertEvents(d) \/ CheckEvents(d)
    BY <1>4 DEF InsertEvents, CheckEvents
  <1>5. CASE ReadLastVersion(d) \/ StartInsert(d)
    BY <1>5 DEF ReadLastVersion, StartInsert, MoreToInsert
  <1>6. CASE FinishInsert(d)
    <2>1. done[d] < Len(call[d].ids) /\ Len(call[d].ids) \in Nat /\ done[d] \in Nat
      BY <1>6 DEF FinishInsert, InBatch, Call
    <2> QED
      BY <1>6, <2>1 DEF FinishInsert
  <1>7. CASE Abort(d) \/ Commit(d) \/ LinkUnacknowledged(d)
    <2>1. \E res : Return(d, res)
      BY <1>7, AbortReturns DEF Commit, LinkUnacknowledged
    <2> QED
      BY <2>1 DEF Return
  <1> QED
    BY <1>1, <1>2, <1>3, <1>4, <1>5, <1>6, <1>7, OwnOrStill
    DEF Own, Invoke, Progress, Fault, Abort

\* Link's count of the rows it found is a check that every id is stored, although
\* it compares numbers only: a set with as many members as the sequence has
\* places, and no more, leaves none of them out.
LEMMA AllFoundStored ==
    ASSUME NEW ids \in Seq(EventId), AllFound(ids)
    PROVE  Range(ids) \subseteq eventStore
  <1>1. ids \in Surjection(1..Len(ids), Range(ids))
    BY DEF Surjection, Range
  <1>2. IsFiniteSet(1..Len(ids)) /\ Cardinality(1..Len(ids)) = Len(ids)
    <2>1. Len(ids) \in Nat /\ 1 \in Int /\ Len(ids) \in Int
      OBVIOUS
    <2>2. /\ IsFiniteSet(1..Len(ids))
          /\ Cardinality(1..Len(ids)) = IF 1 > Len(ids) THEN 0 ELSE Len(ids) - 1 + 1
      BY <2>1, FS_Interval
    <2> QED
      BY <2>1, <2>2
  <1>3. IsFiniteSet(Range(ids)) /\ Cardinality(Range(ids)) <= Len(ids)
    BY <1>1, <1>2, FS_Surjection
  <1>4. /\ IsFiniteSet(Range(ids) \cap eventStore)
        /\ Cardinality(Range(ids) \cap eventStore) <= Cardinality(Range(ids))
        /\ Cardinality(Range(ids)) = Cardinality(Range(ids) \cap eventStore)
              => Range(ids) = Range(ids) \cap eventStore
    <2>1. Range(ids) \cap eventStore \in SUBSET Range(ids)
      OBVIOUS
    <2> QED
      BY <1>3, <2>1, FS_Subset
  <1>5. /\ Cardinality(Range(ids)) \in Nat
        /\ Cardinality(Range(ids) \cap eventStore) \in Nat
    BY <1>3, <1>4, FS_CardinalityType
  <1> QED
    BY <1>3, <1>4, <1>5 DEF AllFound

\* Events are stored by the commit of an Append and never removed.
LEMMA StoreEffect ==
    ASSUME TypeOK, [Next]_vars
    PROVE  \/ eventStore' = eventStore
           \/ \E c \in Clients : Commit(c) /\ eventStore' = eventStore \cup txStore[c]
  BY BeginLeavesRows, AbortReturns
  DEF Next, Invoke, Progress, Fault, Abort, vars, Reject, DeleteStream,
      InsertEvents, CheckEvents, ReadLastVersion, StartInsert, FinishInsert,
      Commit, LinkUnacknowledged

\* A call keeps its events at hand until it ends.
LEMMA StepCallEvents ==
    ASSUME TypeOK, InBatch, TxOwned, CallState, CallEvents, [Next]_vars
    PROVE  CallEvents'
  <1> SUFFICES ASSUME NEW d \in Clients
               PROVE  /\ txStore'[d] = IF Looping(d)' /\ call'[d].op = "append"
                                       THEN Range(call'[d].ids) ELSE {}
                      /\ Looping(d)' /\ call'[d].op = "link"
                            => Range(call'[d].ids) \subseteq eventStore'
                      /\ \A r \in inserting'[d] :
                            r.event = call'[d].ids[done'[d] + 1]
                      /\ \A r \in txStream'[d] : r.event \in Range(call'[d].ids)
    BY DEF CallEvents
  <1> USE DEF TypeOK, Looping
  <1>0. eventStore \subseteq eventStore'
    BY StoreEffect
  <1>a. /\ txStore[d] = IF Looping(d) /\ call[d].op = "append"
                        THEN Range(call[d].ids) ELSE {}
        /\ Looping(d) /\ call[d].op = "link" => Range(call[d].ids) \subseteq eventStore
        /\ \A r \in inserting[d] : r.event = call[d].ids[done[d] + 1]
        /\ \A r \in txStream[d] : r.event \in Range(call[d].ids)
    BY DEF CallEvents
  <1>b. /\ pc[d] # "index" => inserting[d] = {}
        /\ pc[d] = "idle" => txStream[d] = {}
    BY DEF TxOwned
  <1>1. CASE Still(d)
    BY <1>0, <1>a, <1>1 DEF Still
  <1>2. CASE AppendToStream(d) \/ Link(d)
    BY <1>2, <1>a, <1>b, AppendBegins, LinkBegins
  <1>3. CASE Reject(d) \/ DeleteStream(d)
    BY <1>3, <1>a, <1>b DEF Reject, DeleteStream
  <1>4. CASE InsertEvents(d)
    BY <1>4, <1>a, <1>b DEF InsertEvents, CallState
  <1>5. CASE CheckEvents(d)
    <2>1. call[d].ids \in Seq(EventId) /\ AllFound(call[d].ids)
      BY <1>5 DEF CheckEvents, Call
    <2>2. Range(call[d].ids) \subseteq eventStore
      BY <2>1, AllFoundStored
    <2> QED
      BY <1>5, <1>a, <1>b, <2>2 DEF CheckEvents, CallState
  <1>6. CASE ReadLastVersion(d)
    BY <1>6, <1>a, <1>b DEF ReadLastVersion, MoreToInsert
  <1>7. CASE StartInsert(d)
    <2> DEFINE r == [id |-> lastId + 1, stream |-> call[d].stream,
                     version |-> last[d] + 1,
                     event |-> call[d].ids[done[d] + 1]]
    <2>1. r.event = call[d].ids[done[d] + 1]
      OBVIOUS
    <2>2. inserting' = [inserting EXCEPT ![d] = {r}]
      BY <1>7 DEF StartInsert
    <2> HIDE DEF r
    <2> QED
      BY <1>7, <1>a, <2>1, <2>2 DEF StartInsert
  <1>8. CASE FinishInsert(d)
    <2>1. done[d] + 1 \in DOMAIN call[d].ids
      BY <1>8 DEF FinishInsert, InBatch, Call
    <2>2. \A r \in inserting[d] : r.event \in Range(call[d].ids)
      BY <1>a, <2>1 DEF Range
    <2>3. txStream'[d] \subseteq txStream[d] \cup inserting[d]
      BY <1>8 DEF FinishInsert
    <2> QED
      BY <1>8, <1>a, <2>2, <2>3 DEF FinishInsert
  <1>9. CASE Abort(d) \/ Commit(d) \/ LinkUnacknowledged(d)
    <2>1. \E res : Return(d, res)
      BY <1>9, AbortReturns DEF Commit, LinkUnacknowledged
    <2> QED
      BY <2>1 DEF Return
  <1> QED
    BY <1>1, <1>2, <1>3, <1>4, <1>5, <1>6, <1>7, <1>8, <1>9, OwnOrStill
    DEF Own, Invoke, Progress, Fault, Abort

\* No commit brings a row without its event.
LEMMA StepEventsOfRows ==
    ASSUME TypeOK, InBatch, TxOwned, CallState, CallEvents, RowsStored,
           [Next]_vars
    PROVE  RowsStored'
  <1> SUFFICES ASSUME NEW r \in eventStream' PROVE r.event \in eventStore'
    BY DEF RowsStored
  <1>0. eventStore \subseteq eventStore'
    BY StoreEffect
  <1>1. CASE Quiet
    BY <1>0, <1>1 DEF Quiet, RowsStored
  <1>2. ASSUME NEW c \in Clients, Buffers(c) PROVE r.event \in eventStore'
    BY <1>0, <1>2 DEF Buffers, RowsStored
  <1>3. ASSUME NEW c \in Clients, Autocommits(c) PROVE r.event \in eventStore'
    <2>1. CASE r \in eventStream
      BY <1>0, <2>1 DEF RowsStored
    <2>2. CASE r \in inserting[c]
      <3>1. pc[c] = "index"
        BY <2>2 DEF TxOwned
      <3>2. done[c] + 1 \in DOMAIN call[c].ids
        BY <3>1 DEF InBatch, TypeOK, Call
      <3>3. call[c].op = "link"
        BY <1>3, <2>2, <3>1 DEF CallState, Autocommits, FinishInsert,
                                LinkUnacknowledged, TypeOK, Visible, Taken, SameKey
      <3>4. r.event \in Range(call[c].ids)
        BY <2>2, <3>2 DEF CallEvents, Range
      <3> QED
        BY <1>0, <3>1, <3>3, <3>4 DEF CallEvents, Looping
    <2> QED
      BY <1>3, <2>1, <2>2 DEF Autocommits
  <1>4. ASSUME NEW c \in Clients, Commits(c) PROVE r.event \in eventStore'
    <2>1. CASE r \in eventStream
      BY <1>0, <2>1 DEF RowsStored
    <2>2. CASE r \in txStream[c]
      <3>1. /\ eventStore' = eventStore \cup txStore[c]
            /\ pc[c] = "version" /\ call[c].op = "append"
        BY <1>4 DEF Commits, Commit, LoopEnded
      <3> QED
        BY <2>2, <3>1 DEF CallEvents, Looping
    <2> QED
      BY <1>4, <2>1, <2>2 DEF Commits
  <1> QED
    BY <1>1, <1>2, <1>3, <1>4, StepRows

\* The arguments of an Append are set when it begins, and never after.
LEMMA AppendArguments ==
    ASSUME TypeOK, [Next]_vars, NEW d \in Clients, call'[d].op = "append"
    PROVE  AppendToStream(d) \/ call'[d] = call[d]
  <1> USE DEF TypeOK
  <1>1. CASE Still(d)
    BY <1>1 DEF Still
  <1>2. CASE Link(d)
    BY <1>2, LinkBegins
  <1>3. CASE Reject(d) \/ DeleteStream(d)
    BY <1>3 DEF Reject, DeleteStream, NoCall
  <1>4. CASE Progress(d) \/ Fault(d)
    <2>1. pc[d] # "idle"
      BY <1>4 DEF Progress, Fault, InsertEvents, CheckEvents, EventMissing,
                  ReadLastVersion, WrongVersion, StartInsert, FinishInsert,
                  UniqueViolation, Commit, FinishLink, DbError,
                  LinkUnacknowledged, MoreToInsert, LoopEnded
    <2> QED
      BY <2>1, CallFixed
  <1> QED
    BY <1>1, <1>2, <1>3, <1>4, OwnOrStill DEF Own, Invoke

\* Calls are counted, never uncounted.
LEMMA CallsCount ==
    ASSUME TypeOK, [Next]_vars
    PROVE  calls' \in {calls, calls + 1}
  BY AppendBegins, LinkBegins, AbortReturns
  DEF Next, Invoke, Progress, Fault, Abort, Return, vars, Reject, DeleteStream,
      InsertEvents, CheckEvents, ReadLastVersion, StartInsert, FinishInsert,
      Commit, LinkUnacknowledged

\* A batch stays apart from every other batch and from what was stored before.
LEMMA StepIdsFresh ==
    ASSUME TypeOK, CallEvents, IdsFresh, [Next]_vars
    PROVE  IdsFresh'
  <1>a. calls' \in {calls, calls + 1} /\ calls \in Nat
    BY CallsCount DEF TypeOK
  <1>b. \A c \in Clients : Range(call[c].ids) \subseteq EventId
    BY DEF TypeOK, Call, Range
  <1>c. \A c \in Clients : call[c].op = "append" =>
            \A e \in Range(call[c].ids) : e[1] \in Nat /\ e[1] <= calls
    BY <1>b DEF IdsFresh, EventId
  <1>1. ASSUME NEW e \in eventStore' PROVE e[1] <= calls'
    <2>1. CASE e \in eventStore
      <3>1. e[1] \in Nat /\ e[1] <= calls
        BY <2>1 DEF IdsFresh, TypeOK, EventId
      <3> QED
        BY <1>a, <3>1
    <2>2. ASSUME NEW c \in Clients, Commit(c), e \in txStore[c]
          PROVE  e[1] <= calls'
      <3>1. call[c].op = "append" /\ e \in Range(call[c].ids)
        BY <2>2 DEF Commit, CallEvents
      <3> QED
        BY <1>a, <1>c, <3>1
    <2> QED
      BY <1>1, <2>1, <2>2, StoreEffect
  <1>2. ASSUME NEW d \in Clients, call'[d].op = "append",
               NEW e \in Range(call'[d].ids)
        PROVE  e[1] <= calls'
    <2>1. CASE AppendToStream(d)
      BY <1>a, <1>2, <2>1, AppendBegins
    <2>2. CASE call'[d] = call[d]
      BY <1>a, <1>c, <1>2, <2>2
    <2> QED
      BY <1>2, <2>1, <2>2, AppendArguments
  <1>3. ASSUME NEW c \in Clients, NEW d \in Clients \ {c},
               call'[c].op = "append", call'[d].op = "append",
               NEW e \in Range(call'[c].ids), e \in Range(call'[d].ids)
        PROVE  FALSE
    <2>1. ASSUME NEW x \in Clients, NEW y \in Clients \ {x}, AppendToStream(x),
                 call'[y].op = "append",
                 e \in Range(call'[x].ids), e \in Range(call'[y].ids)
          PROVE  FALSE
      <3>1. e[1] = calls + 1
        BY <2>1, AppendBegins
      <3>2. call'[y] = call[y]
        BY <2>1, OthersStill DEF Own, Invoke, Still
      <3>3. e[1] \in Nat /\ e[1] <= calls
        BY <1>c, <2>1, <3>2
      <3> QED
        BY <1>a, <3>1, <3>3
    <2>2. CASE AppendToStream(c) \/ AppendToStream(d)
      BY <1>3, <2>1, <2>2
    <2>3. CASE call'[c] = call[c] /\ call'[d] = call[d]
      BY <1>3, <2>3 DEF IdsFresh
    <2> QED
      BY <1>3, <2>2, <2>3, AppendArguments
  <1> QED
    BY <1>1, <1>2, <1>3 DEF IdsFresh

\* A row is numbered after a visible one, whose version its id bounds, and draws
\* a higher id than that.
LEMMA StepVersionsBounded ==
    ASSUME TypeOK, WriterInv, VersionsBounded, [Next]_vars
    PROVE  VersionsBounded'
  <1> USE DEF WriterInv
  <1>a. \A c \in Clients :
            \A r \in eventStream \cup txStream[c] \cup inserting[c] :
                r.stream \in Kept => r.version <= r.id
    BY DEF VersionsBounded, Visible
  <1>1. ASSUME NEW r \in eventStream', r.stream \in Kept
        PROVE  r.version <= r.id
    BY <1>a, <1>1, StepRows, RepositoryAssumption
    DEF Quiet, Buffers, Autocommits, Commits
  <1>2. ASSUME NEW d \in Clients, NEW r \in txStream'[d], r.stream \in Kept
        PROVE  r.version <= r.id
    BY <1>a, <1>2, TxRows
  <1>3. ASSUME NEW d \in Clients, NEW r \in inserting'[d], r.stream \in Kept
        PROVE  r.version <= r.id
    <2>0. TxOwned'
      BY StepTxOwned
    <2>1. CASE pc'[d] = "idle" \/ Between(d)
      BY <1>3, <2>0, <2>1 DEF TxOwned, Between
    <2>2. CASE ReadLastVersion(d) \/ Unmoved(d)
      BY <1>3, <1>a, <2>2 DEF ReadLastVersion, Unmoved
    <2>3. CASE StartInsert(d)
      <3>1. /\ r.version = last[d] + 1 /\ r.id = lastId + 1
            /\ r.stream = call[d].stream /\ pc[d] = "insert"
        BY <1>3, <2>3 DEF StartInsert, TypeOK
      <3>2. last[d] \in {0} \cup Versions(Visible(d), r.stream)
        BY <1>3, <3>1 DEF LastStillVisible
      <3>3. last[d] <= lastId
        <4>1. CASE last[d] = 0
          BY <4>1 DEF TypeOK
        <4>2. ASSUME NEW p \in Visible(d), p.stream = r.stream,
                     p.version = last[d]
              PROVE  last[d] <= lastId
          <5>1. p \in Row /\ lastId \in Nat
            BY <4>2 DEF Visible, TypeOK
          <5>2. p.version <= p.id /\ p.id <= lastId
            BY <1>3, <1>a, <4>2 DEF Visible, IdsOrdered
          <5> QED
            BY <4>2, <5>1, <5>2 DEF Row
        <4> QED
          BY <3>2, <4>1, <4>2 DEF Versions, RowsOf
      <3> QED
        BY <3>1, <3>3 DEF TypeOK
    <2> QED
      BY <2>1, <2>2, <2>3, LocalState
  <1> QED
    BY <1>1, <1>2, <1>3 DEF VersionsBounded, Visible

\* What a transaction has written to a kept stream is above all that is committed.
LEMMA TxAbove ==
    ASSUME TypeOK, KeysUnique, VisibleContiguous, NEW c \in Clients,
           NEW r \in txStream[c], NEW q \in eventStream,
           q.stream = r.stream, r.stream \in Kept
    PROVE  q.version < r.version
  <1>1. r \in Row /\ q \in Row
    BY DEF TypeOK
  <1>2. ASSUME r.version <= q.version PROVE FALSE
    <2>1. q \in RowsOf(eventStream, r.stream) /\ r.version \in 1..q.version
      BY <1>1, <1>2 DEF RowsOf, Row
    <2>2. r.version \in Versions(eventStream, r.stream)
      BY <2>1 DEF VisibleContiguous, NoGaps
    <2>3. PICK p \in eventStream : SameKey(r, p)
      BY <2>2 DEF Versions, RowsOf, SameKey
    <2> QED
      BY <2>3 DEF KeysUnique
  <1> QED
    BY <1>1, <1>2 DEF Row

\* In the middle of a batch the last version of the stream is the one the batch
\* has reached, whatever others have committed meanwhile.
LEMMA BatchReadsItself ==
    ASSUME TypeOK, TxOwned, KeysUnique, VisibleContiguous, NEW c \in Clients,
           NEW v \in Nat, Numbered(c, v), done[c] > 0, call[c].stream \in Kept,
           NEW w, ReadsLastVersion(c, w)
    PROVE  w = v + done[c]
  <1> DEFINE s == call[c].stream
  <1>0. done[c] \in Nat /\ Visible(c) \subseteq Row
    BY DEF TypeOK, Visible
  <1>1. PICK r \in txStream[c] : r.version = v + done[c]
    BY <1>0 DEF Numbered
  <1>2. /\ w \in {0} \cup Versions(Visible(c), s)
        /\ \A x \in Versions(Visible(c), s) : x <= w
    BY DEF ReadsLastVersion, IsLastVersion
  <1>3. r.stream = s /\ r \in RowsOf(Visible(c), s)
    BY DEF TxOwned, RowsOf, Visible
  <1>4. v + done[c] <= w
    BY <1>1, <1>2, <1>3 DEF Versions
  <1>5. ASSUME NEW q \in Visible(c), q.stream = s PROVE q.version <= v + done[c]
    <2>1. CASE q \in txStream[c]
      BY <2>1 DEF Numbered
    <2>2. CASE q \in eventStream
      <3>1. q.version < r.version
        BY <1>3, <1>5, <2>2, TxAbove
      <3> QED
        BY <1>0, <1>1, <1>5, <3>1 DEF Row
    <2> QED
      BY <1>5, <2>1, <2>2 DEF Visible
  <1>6. w \in Nat /\ w <= v + done[c]
    <2>1. CASE w = 0
      BY <1>0, <2>1
    <2>2. CASE w \in Versions(Visible(c), s)
      BY <1>0, <1>5, <2>2 DEF Versions, RowsOf, Row
    <2> QED
      BY <1>2, <2>1, <2>2
  <1> QED
    BY <1>0, <1>4, <1>6

\* The batch grows by one event at a time, at its own end.
LEMMA StepBatchNumbered ==
    ASSUME TypeOK, WriterInv, CallState, CallEvents, BatchNumbered, [Next]_vars
    PROVE  BatchNumbered'
  <1> USE DEF WriterInv
  <1> SUFFICES ASSUME NEW d \in Clients, Looping(d)', call'[d].op = "append",
                      call'[d].stream \in Kept
               PROVE  \E v \in Nat : Numbered(d, v)'
    BY DEF BatchNumbered
  <1>0. /\ done[d] \in Nat /\ last[d] \in Nat
        /\ txStream[d] \subseteq Row /\ inserting[d] \subseteq Row
    BY DEF TypeOK
  <1>a. ASSUME Looping(d), call'[d] = call[d]
        PROVE  \E v \in Nat : Numbered(d, v)
    BY <1>a DEF BatchNumbered
  <1>b. done[d] = 0 => txStream[d] = {}
    BY DEF CallState
  <1>1. CASE Still(d)
    <2>1. PICK v \in Nat : Numbered(d, v)
      BY <1>1, <1>a DEF Still, Looping
    <2>2. Numbered(d, v)'
      BY <1>1, <2>1 DEF Still, Numbered
    <2> QED
      BY <2>2
  <1>2. CASE InsertEvents(d)
    <2>1. done'[d] = 0 /\ txStream'[d] = {}
      BY <1>2, <1>b DEF InsertEvents, CallState
    <2>2. Numbered(d, 0)'
      BY <2>1 DEF Numbered
    <2> QED
      BY <2>2
  <1>3. CASE ReadLastVersion(d)
    <2>1. /\ pc[d] = "version" /\ pc'[d] = "insert"
          /\ UNCHANGED <<call, done, txStream, inserting>>
      BY <1>3 DEF ReadLastVersion, MoreToInsert, TypeOK
    <2>2. inserting'[d] = {}
      BY <2>1 DEF TxOwned
    <2>3. PICK v \in Nat : Numbered(d, v)
      BY <2>1, <1>a DEF Looping
    <2>4. done[d] > 0 => last'[d] = v + done[d]
      <3>1. PICK w : ReadsLastVersion(d, w) /\ last'[d] = w
        BY <1>3 DEF ReadLastVersion, TypeOK
      <3> QED
        BY <2>1, <2>3, <3>1, BatchReadsItself
    <2>5. Numbered(d, v)'
      BY <2>1, <2>2, <2>3, <2>4 DEF Numbered
    <2> QED
      BY <2>5
  <1>4. CASE StartInsert(d)
    <2>1. /\ pc[d] = "insert" /\ pc'[d] = "index"
          /\ UNCHANGED <<call, done, txStream>>
          /\ \A r \in inserting'[d] : r.version = last[d] + 1
      BY <1>4 DEF StartInsert, TypeOK
    <2>2. PICK v \in Nat : Numbered(d, v)
      BY <2>1, <1>a DEF Looping
    <2>3. Numbered(d, v)'
      BY <1>0, <2>1, <2>2 DEF Numbered
    <2> QED
      BY <2>3
  <1>5. CASE FinishInsert(d)
    <2>1. /\ pc[d] = "index" /\ pc'[d] = "version" /\ call' = call
          /\ done'[d] = done[d] + 1 /\ inserting'[d] = {}
          /\ txStream'[d] = txStream[d] \cup inserting[d]
      BY <1>5 DEF FinishInsert, TypeOK
    <2>2. PICK r \in Row : inserting[d] = {r}
      BY <1>0, <2>1 DEF TxOwned
    <2>3. r.event = call[d].ids[done[d] + 1] /\ r.version \in Nat \ {0}
      BY <2>2 DEF CallEvents, Row
    <2>4. CASE done[d] = 0
      <3>1. txStream'[d] = {r} /\ done'[d] = 1
        BY <1>b, <2>1, <2>2, <2>4
      <3>2. r.version - 1 \in Nat /\ (r.version - 1) + 1 = r.version
        BY <2>3
      <3>3. PICK v \in Nat : v + 1 = r.version
        BY <3>2
      <3>4. r.event = call'[d].ids[1]
        BY <2>1, <2>3, <2>4
      <3>5. \A i \in 1..1 : i = 1
        OBVIOUS
      <3>6. Numbered(d, v)'
        BY <2>1, <3>1, <3>3, <3>4, <3>5 DEF Numbered
      <3> QED
        BY <3>6
    <2>5. CASE done[d] # 0
      <3>1. PICK v \in Nat : Numbered(d, v)
        BY <2>1, <1>a DEF Looping
      <3>2. r.version = v + (done[d] + 1)
        BY <1>0, <2>2, <2>5, <3>1 DEF Numbered
      <3>3. ASSUME NEW i \in 1..(done[d] + 1)
            PROVE  \E q \in txStream'[d] :
                       q.version = v + i /\ q.event = call'[d].ids[i]
        <4>1. CASE i = done[d] + 1
          BY <2>1, <2>2, <2>3, <3>2, <4>1
        <4>2. CASE i \in 1..done[d]
          BY <2>1, <3>1, <4>2 DEF Numbered
        <4> QED
          BY <1>0, <4>1, <4>2
      <3>4. ASSUME NEW q \in txStream'[d]
            PROVE  v < q.version /\ q.version <= v + (done[d] + 1)
        <4>1. CASE q = r
          BY <1>0, <3>2, <4>1
        <4>2. CASE q \in txStream[d]
          <5>1. v < q.version /\ q.version <= v + done[d] /\ q.version \in Nat
            BY <1>0, <3>1, <4>2 DEF Numbered, Row
          <5> QED
            BY <1>0, <5>1
        <4> QED
          BY <2>1, <2>2, <4>1, <4>2
      <3>5. Numbered(d, v)'
        BY <2>1, <3>3, <3>4 DEF Numbered
      <3> QED
        BY <3>5
    <2> QED
      BY <2>4, <2>5
  <1>6. CASE AppendToStream(d) \/ Link(d)
    BY <1>6, AppendBegins, LinkBegins DEF Looping
  <1>7. CASE Reject(d) \/ DeleteStream(d)
    BY <1>7 DEF Reject, DeleteStream, NoCall, TypeOK
  <1>8. CASE CheckEvents(d)
    BY <1>8 DEF CheckEvents, CallState
  <1>9. CASE Abort(d) \/ Commit(d) \/ LinkUnacknowledged(d)
    <2>1. \E res : Return(d, res)
      BY <1>9, AbortReturns DEF Commit, LinkUnacknowledged
    <2> QED
      BY <2>1 DEF Return, TypeOK, Looping
  <1> QED
    BY <1>1, <1>2, <1>3, <1>4, <1>5, <1>6, <1>7, <1>8, <1>9, OwnOrStill
    DEF Own, Invoke, Progress, Fault, Abort

-----------------------------------------------------------------------------
(* The promises of AppendAtomic and LinkedInOrder, client by client.       *)

AllStored(c) ==
    /\ result[c] \in {"ok", "error"}
    /\ Range(call[c].ids) \subseteq eventStore
    /\ call[c].stream \in Kept =>
          \E v \in 0..lastId : \A i \in 1..Len(call[c].ids) :
              \E r \in RowsOf(eventStream, call[c].stream) :
                  r.version = v + i /\ r.event = call[c].ids[i]

NoneStored(c) ==
    /\ result[c] = "ok" => call[c].ids = <<>>
    /\ Range(call[c].ids) \cap eventStore = {}

\* The sequence behind event_stream.id only counts up.
LEMMA LastIdGrows ==
    ASSUME TypeOK, [Next]_vars
    PROVE  lastId' \in {lastId, lastId + 1} /\ lastId \in Nat
  BY BeginLeavesRows, AbortReturns
  DEF Next, Invoke, Progress, Fault, Abort, vars, db, Reject, DeleteStream,
      InsertEvents, CheckEvents, ReadLastVersion, StartInsert, FinishInsert,
      Commit, LinkUnacknowledged, TypeOK

\* A commit stores the whole batch behind one version.
LEMMA CommitStoresAll ==
    ASSUME TypeOK, WriterInv, CallEvents, VersionsBounded, BatchNumbered,
           NEW c \in Clients, Commit(c)
    PROVE  AllStored(c)'
  <1> USE DEF WriterInv
  <1>1. /\ pc[c] = "version" /\ call[c].op = "append"
        /\ done[c] = Len(call[c].ids) /\ call' = call
        /\ eventStore' = eventStore \cup txStore[c]
        /\ eventStream' = eventStream \cup txStream[c]
        /\ lastId' = lastId /\ result'[c] \in {"ok", "error"}
    BY DEF Commit, LoopEnded, Return, TypeOK
  <1>2. Range(call[c].ids) \subseteq eventStore'
    BY <1>1 DEF CallEvents, Looping
  <1>3. ASSUME call[c].stream \in Kept
        PROVE  \E v \in 0..lastId : \A i \in 1..Len(call[c].ids) :
                  \E r \in RowsOf(eventStream', call[c].stream) :
                      r.version = v + i /\ r.event = call[c].ids[i]
    <2>1. PICK v \in Nat : Numbered(c, v)
      BY <1>1, <1>3 DEF BatchNumbered, Looping
    <2>2. \A i \in 1..Len(call[c].ids) : \E r \in txStream[c] :
              r.version = v + i /\ r.event = call[c].ids[i]
      BY <1>1, <2>1 DEF Numbered
    <2>3. \A r \in txStream[c] : r \in RowsOf(eventStream', call[c].stream)
      BY <1>1 DEF TxOwned, RowsOf
    <2>4. lastId \in Nat /\ Len(call[c].ids) \in Nat
      BY <1>1 DEF TypeOK
    <2>5. CASE Len(call[c].ids) = 0
      BY <2>4, <2>5
    <2>6. CASE Len(call[c].ids) > 0
      <3>1. PICK r \in txStream[c] : r.version = v + 1
        <4>1. 1 \in 1..Len(call[c].ids)
          BY ONLY <2>4, <2>6
        <4> QED
          BY <2>2, <4>1
      <3>2. r.version <= r.id /\ r.id <= lastId /\ r \in Row
        BY <1>3 DEF VersionsBounded, IdsOrdered, TxOwned, Visible, TypeOK
      <3>3. v \in 0..lastId
        BY <2>4, <3>1, <3>2 DEF Row
      <3> QED
        BY <2>2, <2>3, <3>3
    <2> QED
      BY <2>4, <2>5, <2>6
  <1> QED
    BY <1>1, <1>2, <1>3 DEF AllStored

\* What other steps do to a batch: nothing, before its commit and after.
LEMMA StepAppendAtomic ==
    ASSUME TypeOK, WriterInv, CallState, CallEvents, IdsFresh, VersionsBounded,
           BatchNumbered, AppendAtomic, RowsStored', [Next]_vars
    PROVE  AppendAtomic'
  <1> SUFFICES ASSUME NEW d \in Clients, call'[d].op = "append"
               PROVE  AllStored(d)' \/ NoneStored(d)'
    BY DEF AppendAtomic, AllStored, NoneStored, RowsStored
  <1>1. CASE AppendToStream(d)
    <2>1. \A e \in Range(call'[d].ids) : e[1] = calls + 1
      BY <1>1, AppendBegins
    <2>2. \A e \in eventStore : e[1] \in Nat /\ e[1] <= calls
      BY DEF IdsFresh, TypeOK, EventId
    <2>3. eventStore' = eventStore /\ result'[d] = "pending" /\ calls \in Nat
      BY <1>1, AppendBegins DEF TypeOK
    <2> QED
      BY <2>1, <2>2, <2>3 DEF NoneStored
  <1>2. CASE call'[d] = call[d] /\ ~AppendToStream(d)
    <2>0. AllStored(d) \/ NoneStored(d)
      BY <1>2 DEF AppendAtomic, AllStored, NoneStored
    <2>1. CASE Still(d) /\ AllStored(d)
      <3>1. Range(call'[d].ids) \subseteq eventStore'
        BY <1>2, <2>1, StoreEffect DEF AllStored
      <3>2. ASSUME call[d].stream \in Kept
            PROVE  \E v \in 0..lastId' : \A i \in 1..Len(call[d].ids) :
                      \E r \in RowsOf(eventStream', call[d].stream) :
                          r.version = v + i /\ r.event = call[d].ids[i]
        <4>1. PICK v \in 0..lastId : \A i \in 1..Len(call[d].ids) :
                      \E r \in RowsOf(eventStream, call[d].stream) :
                          r.version = v + i /\ r.event = call[d].ids[i]
          BY <2>1, <3>2 DEF AllStored
        <4>2. v \in 0..lastId'
          BY LastIdGrows
        <4>3. RowsOf(eventStream, call[d].stream)
                 \subseteq RowsOf(eventStream', call[d].stream)
          BY <3>2, KeptRowsStay DEF WriterInv
        <4> QED
          BY <4>1, <4>2, <4>3
      <3> QED
        BY <1>2, <2>1, <3>1, <3>2 DEF AllStored, Still
    <2>2. CASE Still(d) /\ NoneStored(d)
      <3>1. ASSUME NEW c \in Clients, Commit(c)
            PROVE  Range(call[d].ids) \cap txStore[c] = {}
        <4>1. c # d
          BY <2>2, <3>1 DEF Commit, LoopEnded, Return, Still, TypeOK
        <4>2. call[c].op = "append" /\ txStore[c] = Range(call[c].ids)
          BY <3>1 DEF Commit, LoopEnded, CallEvents, Looping
        <4> QED
          BY <1>2, <4>1, <4>2 DEF IdsFresh
      <3>2. Range(call[d].ids) \cap eventStore' = {}
        BY <2>2, <3>1, StoreEffect DEF NoneStored
      <3> QED
        BY <1>2, <2>2, <3>2 DEF NoneStored, Still
    <2>3. CASE Progress(d) \/ Fault(d)
      <3>1. CASE Commit(d)
        BY <3>1, CommitStoresAll
      <3>2. CASE ~Commit(d)
        <4>1. pc[d] # "idle"
          BY <2>3 DEF Progress, Fault, InsertEvents, CheckEvents, EventMissing,
                      ReadLastVersion, WrongVersion, StartInsert, FinishInsert,
                      UniqueViolation, Commit, FinishLink, DbError,
                      LinkUnacknowledged, MoreToInsert, LoopEnded
        <4>2. result[d] = "pending"
          BY <4>1 DEF CallState
        <4>3. Range(call[d].ids) \cap eventStore = {}
          BY <2>0, <4>2 DEF AllStored, NoneStored
        <4>4. eventStore' = eventStore
          BY <2>3, <3>2, AbortReturns
          DEF Progress, Fault, Abort, InsertEvents, CheckEvents,
              ReadLastVersion, StartInsert, FinishInsert, LinkUnacknowledged
        <4>5. result'[d] # "ok"
          BY <1>2, <2>3, <3>2, <4>2
          DEF Progress, Fault, InsertEvents, CheckEvents, EventMissing,
              ReadLastVersion, WrongVersion, StartInsert, FinishInsert,
              UniqueViolation, FinishLink, DbError, LinkUnacknowledged, Return,
              TypeOK
        <4> QED
          BY <1>2, <4>3, <4>4, <4>5 DEF NoneStored
      <3> QED
        BY <3>1, <3>2
    <2>4. CASE Link(d)
      BY <2>4, LinkBegins
    <2>5. CASE Reject(d) \/ DeleteStream(d)
      BY <2>5 DEF Reject, DeleteStream, NoCall, TypeOK
    <2> QED
      BY <1>2, <2>0, <2>1, <2>2, <2>3, <2>4, <2>5, OwnOrStill DEF Own, Invoke
  <1> QED
    BY <1>1, <1>2, AppendArguments

\* The events a Link has counted, in the stream one above the other.
LinkedAt(at, rows, s, ids, n) ==
    /\ at \in [1..n -> Versions(rows, s)]
    /\ \A i, j \in 1..n : i < j => at[i] < at[j]
    /\ \A i \in 1..n : \E r \in RowsOf(rows, s) :
           r.version = at[i] /\ r.event = ids[i]
LinkedSoFar(c) ==
    \E at : LinkedAt(at, eventStream, call[c].stream, call[c].ids, done[c])

\* LinkedSoFar is what LinkedInOrder asks for, in its form.
LEMMA LinkedForm ==
    ASSUME NEW rows, NEW s, NEW ids, NEW n, NEW at, LinkedAt(at, rows, s, ids, n)
    PROVE  \E f \in [1..n -> Versions(rows, s)] :
               /\ \A i, j \in 1..n : i < j => f[i] < f[j]
               /\ \A i \in 1..n : \E r \in RowsOf(rows, s) :
                      r.version = f[i] /\ r.event = ids[i]
  <1>1. at \in [1..n -> Versions(rows, s)]
    BY DEF LinkedAt
  <1> WITNESS at \in [1..n -> Versions(rows, s)]
  <1> QED
    BY DEF LinkedAt

\* What is linked stays linked.
LEMMA LinkedStays ==
    ASSUME TypeOK, WriterInv, [Next]_vars, NEW d \in Clients, LinkedSoFar(d),
           call[d].stream \in Kept, call'[d] = call[d], done'[d] = done[d]
    PROVE  LinkedSoFar(d)'
  <1> DEFINE s == call[d].stream
  <1>1. PICK at : LinkedAt(at, eventStream, s, call[d].ids, done[d])
    BY DEF LinkedSoFar
  <1>2. RowsOf(eventStream, s) \subseteq RowsOf(eventStream', s)
    BY KeptRowsStay DEF WriterInv
  <1>3. Versions(eventStream, s) \subseteq Versions(eventStream', s)
    BY <1>2 DEF Versions
  <1>4. LinkedAt(at, eventStream', s, call[d].ids, done[d])
    BY <1>1, <1>2, <1>3 DEF LinkedAt
  <1> QED
    BY <1>4 DEF LinkedSoFar

\* The next event of a Link goes above all that its stream has.
LEMMA LinkExtends ==
    ASSUME TypeOK, WriterInv, CallEvents, NEW d \in Clients, FinishInsert(d),
           call[d].op = "link", call[d].stream \in Kept, LinkedSoFar(d)
    PROVE  LinkedSoFar(d)'
  <1> DEFINE s == call[d].stream
             n == done[d]
  <1>0. n \in Nat /\ eventStream \subseteq Row /\ inserting[d] \subseteq Row
    BY DEF TypeOK
  <1>1. /\ pc[d] = "index" /\ call' = call /\ done'[d] = n + 1
        /\ eventStream' = eventStream \cup inserting[d]
    BY DEF FinishInsert, TypeOK
  <1>2. PICK r \in Row : inserting[d] = {r}
    BY <1>0, <1>1 DEF WriterInv, TxOwned
  <1>3. r.stream = s /\ r.event = call[d].ids[n + 1]
    BY <1>2 DEF WriterInv, TxOwned, CallEvents
  <1>4. [Next]_vars
    BY DEF Next, Progress
  <1>5. r \notin eventStream
    BY <1>2 DEF FinishInsert, Taken, Visible, SameKey
  <1>6. r \in RowsOf(eventStream', s) \ RowsOf(eventStream, s)
    BY <1>1, <1>2, <1>3, <1>5 DEF RowsOf
  <1>7. \A q \in RowsOf(eventStream, s) : q.version < r.version
    BY <1>4, <1>6, StepAppendOnly
  <1>g. PICK at : LinkedAt(at, eventStream, s, call[d].ids, n)
    BY DEF LinkedSoFar
  <1>8. /\ at \in [1..n -> Versions(eventStream, s)]
        /\ \A i, j \in 1..n : i < j => at[i] < at[j]
        /\ \A i \in 1..n : \E q \in RowsOf(eventStream, s) :
               q.version = at[i] /\ q.event = call[d].ids[i]
    BY <1>g DEF LinkedAt
  <1> DEFINE upTo == [i \in 1..(n + 1) |-> IF i = n + 1 THEN r.version ELSE at[i]]
  <1>9. /\ RowsOf(eventStream, s) \subseteq RowsOf(eventStream', s)
        /\ Versions(eventStream, s) \subseteq Versions(eventStream', s)
        /\ r.version \in Versions(eventStream', s)
    BY <1>1, <1>6 DEF RowsOf, Versions
  <1>10. \A i \in 1..(n + 1) : i # n + 1 => i \in 1..n
    BY <1>0
  <1>11. upTo \in [1..(n + 1) -> Versions(eventStream', s)]
    BY <1>8, <1>9, <1>10
  <1>12. ASSUME NEW i \in 1..(n + 1), NEW j \in 1..(n + 1), i < j
         PROVE  upTo[i] < upTo[j]
    <2>1. i \in 1..n
      BY <1>0, <1>12
    <2>2. CASE j = n + 1
      <3>1. PICK q \in RowsOf(eventStream, s) : q.version = at[i]
        BY <1>8, <2>1
      <3>2. at[i] < r.version
        BY <1>7, <3>1
      <3>3. upTo[i] = at[i] /\ upTo[j] = r.version
        BY <1>0, <2>1, <2>2
      <3> QED
        BY <3>2, <3>3
    <2>3. CASE j # n + 1
      <3>1. j \in 1..n /\ upTo[i] = at[i] /\ upTo[j] = at[j]
        BY <1>0, <1>10, <2>1, <2>3
      <3> QED
        BY <1>8, <1>12, <2>1, <3>1
    <2> QED
      BY <2>2, <2>3
  <1>13. ASSUME NEW i \in 1..(n + 1)
         PROVE  \E q \in RowsOf(eventStream', s) :
                    q.version = upTo[i] /\ q.event = call[d].ids[i]
    <2>1. CASE i = n + 1
      BY <1>3, <1>6, <2>1
    <2>2. CASE i # n + 1
      BY <1>8, <1>9, <1>10, <2>2
    <2> QED
      BY <2>1, <2>2
  <1> HIDE DEF upTo
  <1>14. LinkedAt(upTo, eventStream', s, call[d].ids, n + 1)
    BY <1>11, <1>12, <1>13 DEF LinkedAt
  <1> QED
    BY <1>1, <1>14 DEF LinkedSoFar

\* A Link never loses or swaps what it has linked, and counts it all before it
\* answers ok.
LEMMA StepLinkedInOrder ==
    ASSUME TypeOK, WriterInv, CallState, CallEvents, LinkedInOrder, [Next]_vars
    PROVE  LinkedInOrder'
  <1> SUFFICES
        ASSUME NEW d \in Clients, call'[d].op = "link", call'[d].stream \in Kept
        PROVE  /\ result'[d] = "ok" => done'[d] = Len(call'[d].ids)
               /\ \E f \in [1..done'[d] -> Versions(eventStream', call'[d].stream)] :
                    /\ \A i, j \in 1..done'[d] : i < j => f[i] < f[j]
                    /\ \A i \in 1..done'[d] :
                         \E r \in RowsOf(eventStream', call'[d].stream) :
                             r.version = f[i] /\ r.event = call'[d].ids[i]
    BY Zenon DEF LinkedInOrder
  <1> SUFFICES /\ result'[d] = "ok" => done'[d] = Len(call'[d].ids)
               /\ LinkedSoFar(d)'
    <2>1. ASSUME LinkedSoFar(d)'
          PROVE  \E f \in [1..done'[d] -> Versions(eventStream', call'[d].stream)] :
                    /\ \A i, j \in 1..done'[d] : i < j => f[i] < f[j]
                    /\ \A i \in 1..done'[d] :
                         \E r \in RowsOf(eventStream', call'[d].stream) :
                             r.version = f[i] /\ r.event = call'[d].ids[i]
      <3>1. PICK at : LinkedAt(at, eventStream', call'[d].stream, call'[d].ids,
                               done'[d])
        BY <2>1 DEF LinkedSoFar
      <3> QED
        BY <3>1, LinkedForm
    <2> QED
      BY <2>1, Zenon
  <1>a. ASSUME call'[d] = call[d]
        PROVE  /\ result[d] = "ok" => done[d] = Len(call[d].ids)
               /\ LinkedSoFar(d)
    <2>1. call[d].op = "link" /\ call[d].stream \in Kept
      BY <1>a
    <2>2. /\ result[d] = "ok" => done[d] = Len(call[d].ids)
          /\ \E at \in [1..done[d] -> Versions(eventStream, call[d].stream)] :
                /\ \A i, j \in 1..done[d] : i < j => at[i] < at[j]
                /\ \A i \in 1..done[d] : \E r \in RowsOf(eventStream, call[d].stream) :
                       r.version = at[i] /\ r.event = call[d].ids[i]
      BY <2>1, Zenon DEF LinkedInOrder
    <2>3. PICK at \in [1..done[d] -> Versions(eventStream, call[d].stream)] :
                /\ \A i, j \in 1..done[d] : i < j => at[i] < at[j]
                /\ \A i \in 1..done[d] : \E r \in RowsOf(eventStream, call[d].stream) :
                       r.version = at[i] /\ r.event = call[d].ids[i]
      BY <2>2, Zenon
    <2>4. LinkedAt(at, eventStream, call[d].stream, call[d].ids, done[d])
      BY <2>3, Zenon DEF LinkedAt
    <2> QED
      BY <2>2, <2>4, Zenon DEF LinkedSoFar
  <1> USE DEF TypeOK
  <1>1. CASE Link(d)
    <2>1. done'[d] = 0 /\ result'[d] = "pending"
      BY <1>1, LinkBegins
    <2>2. \A rows, s, ids : LinkedAt([i \in 1..0 |-> i], rows, s, ids, 0)
      BY DEF LinkedAt
    <2> QED
      BY <2>1, <2>2 DEF LinkedSoFar
  <1>2. CASE Still(d)
    BY <1>2, <1>a, LinkedStays DEF Still
  <1>3. CASE \/ InsertEvents(d) \/ CheckEvents(d) \/ ReadLastVersion(d)
             \/ StartInsert(d)
    <2>1. call'[d] = call[d] /\ done'[d] = done[d] /\ result'[d] = result[d]
      BY <1>3 DEF InsertEvents, CheckEvents, ReadLastVersion, StartInsert
    <2> QED
      BY <2>1, <1>a, LinkedStays
  <1>4. CASE FinishInsert(d)
    <2>1. call'[d] = call[d] /\ result'[d] = result[d] /\ pc[d] # "idle"
      BY <1>4 DEF FinishInsert
    <2>2. result'[d] = "pending"
      BY <2>1 DEF CallState
    <2> QED
      BY <1>4, <1>a, <2>1, <2>2, LinkExtends
  <1>5. CASE Abort(d) \/ Commit(d) \/ LinkUnacknowledged(d)
    <2>1. call'[d] = call[d] /\ done'[d] = done[d]
      BY <1>5, AbortReturns DEF Commit, LinkUnacknowledged, Return
    <2>2. result'[d] = "ok" => done[d] = Len(call[d].ids)
      BY <1>5, <2>1 DEF Abort, EventMissing, WrongVersion, UniqueViolation,
                  FinishLink, DbError, Commit, LinkUnacknowledged, Return,
                  LoopEnded
    <2> QED
      BY <2>1, <2>2, <1>a, LinkedStays
  <1>6. CASE AppendToStream(d)
    BY <1>6, AppendBegins
  <1>7. CASE Reject(d) \/ DeleteStream(d)
    BY <1>7 DEF Reject, DeleteStream, NoCall
  <1> QED
    BY <1>1, <1>2, <1>3, <1>4, <1>5, <1>6, <1>7, OwnOrStill
    DEF Own, Invoke, Progress, Fault, Abort

-----------------------------------------------------------------------------
(* The invariant and what it gives.                                        *)

\* The invariant holds of empty tables and idle clients.
LEMMA InitCallInv == Init => CallInv
  <1> SUFFICES ASSUME Init PROVE CallInv
    OBVIOUS
  <1> USE DEF Init, NoCall
  <1>1. CallState /\ CallEvents
    BY DEF CallState, CallEvents, Looping
  <1>2. IdsFresh /\ BatchNumbered /\ RowsStored
    BY DEF IdsFresh, BatchNumbered, RowsStored
  <1>3. VersionsBounded
    BY DEF VersionsBounded, Visible
  <1>4. AppendAtomic /\ LinkedInOrder
    BY DEF AppendAtomic, LinkedInOrder
  <1> QED
    BY <1>1, <1>2, <1>3, <1>4 DEF CallInv

\* Every step keeps the invariant.
LEMMA StepCallInv ==
    TypeOK /\ WriterInv /\ CallInv /\ [Next]_vars => CallInv'
  <1> SUFFICES ASSUME TypeOK, WriterInv, CallInv, [Next]_vars PROVE CallInv'
    OBVIOUS
  <1>1. InBatch /\ TxOwned
    BY DEF WriterInv
  <1> USE DEF CallInv
  <1>2. CallState' /\ CallEvents'
    BY <1>1, StepCallState, StepCallEvents
  <1>3. IdsFresh' /\ VersionsBounded'
    BY StepIdsFresh, StepVersionsBounded
  <1>4. RowsStored'
    BY <1>1, StepEventsOfRows
  <1>5. BatchNumbered'
    BY StepBatchNumbered
  <1>6. AppendAtomic' /\ LinkedInOrder'
    BY <1>4, StepAppendAtomic, StepLinkedInOrder
  <1> QED
    BY <1>2, <1>3, <1>4, <1>5, <1>6

\* Between any two statements, the rows of every call fit its arguments.
THEOREM CallInvariant == Spec => []CallInv
  <1>1. TypeOK /\ WriterInv /\ CallInv /\ [Next]_vars => CallInv'
    BY StepCallInv
  <1> QED
    BY <1>1, InitCallInv, TypeCorrect, WriterInvariant, PTL DEF Spec

\* Every row names a stored event, and the foreign key of event_stream never has to
\* refuse one, for any number of goroutines that append and link, however their
\* statements interleave and fail.
THEOREM RowsHaveEvents == Spec => []EventsOfRowsStored
  <1>1. ASSUME TypeOK, WriterInv, CallInv PROVE EventsOfRowsStored
    <2> SUFFICES ASSUME NEW c \in Clients, NEW r \in inserting[c] \cup txStream[c]
                 PROVE  r.event \in eventStore \cup txStore[c]
      BY <1>1 DEF EventsOfRowsStored, CallInv, RowsStored
    <2>1. Looping(c) /\ r.event \in Range(call[c].ids)
      <3>1. CASE r \in inserting[c]
        <4>1. pc[c] = "index"
          BY <1>1, <3>1 DEF WriterInv, TxOwned
        <4>2. done[c] + 1 \in DOMAIN call[c].ids
          BY <1>1, <4>1 DEF WriterInv, InBatch, TypeOK, Call
        <4> QED
          BY <1>1, <3>1, <4>1, <4>2 DEF CallInv, CallEvents, Range, Looping
      <3>2. CASE r \in txStream[c]
        <4>1. pc[c] # "idle" /\ pc[c] # "store" /\ pc[c] # "check"
          BY <1>1, <3>2 DEF WriterInv, TxOwned, CallInv, CallState
        <4> QED
          BY <1>1, <3>2, <4>1 DEF TypeOK, CallInv, CallEvents, Looping
      <3> QED
        BY <3>1, <3>2
    <2>2. call[c].op \in {"append", "link"}
      BY <1>1, <2>1 DEF CallInv, CallState, Looping
    <2> QED
      BY <1>1, <2>1, <2>2 DEF CallInv, CallEvents
  <1> QED
    BY <1>1, TypeCorrect, WriterInvariant, CallInvariant, PTL

\* An Append stores its batch whole, with consecutive versions in the order of
\* its argument, or leaves nothing of it.
THEOREM AllOrNone == Spec => []AppendAtomic
  <1>1. CallInv => AppendAtomic
    BY DEF CallInv
  <1> QED
    BY <1>1, CallInvariant, PTL

\* A Link that fails half way has linked the beginning of its argument, in order.
THEOREM LinksInOrder == Spec => []LinkedInOrder
  <1>1. CallInv => LinkedInOrder
    BY DEF CallInv
  <1> QED
    BY <1>1, CallInvariant, PTL

================================================================================
