----------------------- MODULE SqlEventRepositoryProofs -----------------------
(* Proofs about SqlEventRepository, for any clients, streams and bounds. *)
EXTENDS SqlEventRepository, TLAPS

USE DEF db

\* The tables start empty, as their types ask.
LEMMA InitTyping == Init => TypeOK
  <1> SUFFICES ASSUME Init PROVE TypeOK
    OBVIOUS
  <1>1. NoCall \in Call
    BY RepositoryAssumption DEF NoCall, Call
  <1> QED
    BY <1>1 DEF Init, TypeOK, Results

\* A call that ends leaves well-typed variables, whatever it returns.
LEMMA ReturnTyping ==
    ASSUME TypeOK, NEW c \in Clients, NEW res \in Results, Return(c, res)
    PROVE  /\ pc' \in [Clients -> {"idle", "store", "check", "version",
                                   "insert", "index"}]
           /\ result' \in [Clients -> Results]
           /\ inserting' \in [Clients -> SUBSET Row]
           /\ txStore' \in [Clients -> SUBSET EventId]
           /\ txStream' \in [Clients -> SUBSET Row]
           /\ last' \in [Clients -> Nat]
           /\ calls' \in Nat
           /\ call' \in [Clients -> Call]
           /\ done' \in [Clients -> Nat]
  BY DEF TypeOK, Return

\* A call that begins leaves well-typed variables.
LEMMA BeginTyping ==
    ASSUME TypeOK, NEW c \in Clients, NEW request \in Call,
           NEW first \in {"store", "check"}, Begin(c, request, first)
    PROVE  TypeOK'
  BY DEF TypeOK, Begin, Results

\* A row is prepared only while an event of the batch is left.
LEMMA StepInBatch == TypeOK /\ InBatch /\ [Next]_vars => InBatch'
  <1> SUFFICES ASSUME TypeOK, InBatch, [Next]_vars PROVE InBatch'
    OBVIOUS
  <1> USE DEF TypeOK, InBatch
  <1>1. CASE UNCHANGED vars
    BY <1>1 DEF vars
  <1>2. ASSUME NEW c \in Clients, Invoke(c) PROVE InBatch'
    BY <1>2 DEF Invoke, AppendToStream, Link, Reject, DeleteStream, Begin
  <1>3. ASSUME NEW c \in Clients, ReadLastVersion(c) PROVE InBatch'
    BY <1>3 DEF ReadLastVersion, MoreToInsert
  <1>4. ASSUME NEW c \in Clients, StartInsert(c) PROVE InBatch'
    BY <1>4 DEF StartInsert
  <1>5. ASSUME NEW c \in Clients,
               InsertEvents(c) \/ CheckEvents(c) \/ FinishInsert(c)
        PROVE  InBatch'
    BY <1>5 DEF InsertEvents, CheckEvents, FinishInsert
  <1>6. ASSUME NEW c \in Clients,
               \/ EventMissing(c) \/ WrongVersion(c) \/ UniqueViolation(c)
               \/ Commit(c) \/ FinishLink(c) \/ Fault(c)
        PROVE  InBatch'
    BY <1>6 DEF EventMissing, WrongVersion, UniqueViolation, Commit,
                FinishLink, Fault, DbError, LinkUnacknowledged, Return
  <1> QED
    BY <1>1, <1>2, <1>3, <1>4, <1>5, <1>6 DEF Next, Progress

\* Every statement of every operation keeps the types.
LEMMA StepTyping == TypeOK /\ InBatch /\ [Next]_vars => TypeOK'
  <1> SUFFICES ASSUME TypeOK, InBatch, [Next]_vars PROVE TypeOK'
    OBVIOUS
  <1>1. CASE UNCHANGED vars
    BY <1>1 DEF vars, TypeOK
  <1>2. ASSUME NEW c \in Clients, AppendToStream(c) PROVE TypeOK'
    <2>1. PICK s \in StreamIds, n \in 0..MaxBatch, e \in Expected :
            Begin(c, [op |-> "append", stream |-> s, expected |-> e,
                  ids |-> [i \in 1..n |-> <<calls + 1, i>>]], "store")
      BY <1>2 DEF AppendToStream
    <2>2. [i \in 1..n |-> <<calls + 1, i>>] \in Seq(EventId)
      <3>1. n \in Nat
        BY RepositoryAssumption
      <3>2. \A i \in 1..n : <<calls + 1, i>> \in EventId
        BY <3>1 DEF EventId, TypeOK
      <3> QED
        BY <3>1, <3>2
    <2>3. e \in SUBSET Nat
      BY RepositoryAssumption DEF Expected
    <2> QED
      BY <2>1, <2>2, <2>3, BeginTyping DEF Call
  <1>3. ASSUME NEW c \in Clients, Link(c) PROVE TypeOK'
    <2>1. PICK s \in StreamIds, e \in Expected :
             \E ids \in BoundedSeq(eventStore \cup {NoEvent}, MaxLink) :
                Begin(c, [op |-> "link", stream |-> s, expected |-> e,
                          ids |-> ids], "check")
      BY <1>3 DEF Link
    <2>2. PICK ids \in BoundedSeq(eventStore \cup {NoEvent}, MaxLink) :
                Begin(c, [op |-> "link", stream |-> s, expected |-> e,
                          ids |-> ids], "check")
      BY <2>1
    <2>3. ids \in Seq(EventId)
      <3>1. eventStore \cup {NoEvent} \subseteq EventId
        BY DEF TypeOK, NoEvent, EventId
      <3>2. PICK m \in 0..MaxLink : ids \in [1..m -> eventStore \cup {NoEvent}]
        BY DEF BoundedSeq, SeqOf
      <3>3. m \in Nat
        BY RepositoryAssumption
      <3> QED
        BY <3>1, <3>2, <3>3
    <2>4. e \in SUBSET Nat
      BY RepositoryAssumption DEF Expected
    <2> QED
      BY <2>2, <2>3, <2>4, BeginTyping DEF Call
  <1>4. ASSUME NEW c \in Clients, Reject(c) PROVE TypeOK'
    <2>1. NoCall \in Call
      BY RepositoryAssumption DEF NoCall, Call
    <2> QED
      BY <1>4, <2>1 DEF Reject, TypeOK, Results
  <1>5. ASSUME NEW c \in Clients, DeleteStream(c) PROVE TypeOK'
    <2>1. NoCall \in Call
      BY RepositoryAssumption DEF NoCall, Call
    <2>2. eventStream' \subseteq eventStream
      BY <1>5 DEF DeleteStream
    <2>3. result' \in [Clients -> Results]
      BY <1>5 DEF DeleteStream, TypeOK, Results
    <2> QED
      BY <1>5, <2>1, <2>2, <2>3 DEF DeleteStream, TypeOK
  <1>6. ASSUME NEW c \in Clients, InsertEvents(c) PROVE TypeOK'
    <2>1. Range(call[c].ids) \subseteq EventId
      BY DEF TypeOK, Call, Range
    <2> QED
      BY <1>6, <2>1 DEF InsertEvents, TypeOK
  <1>7. ASSUME NEW c \in Clients, CheckEvents(c) PROVE TypeOK'
    BY <1>7 DEF CheckEvents, TypeOK
  <1>8. ASSUME NEW c \in Clients, ReadLastVersion(c) PROVE TypeOK'
    <2>1. PICK v \in {0} \cup Versions(Visible(c), call[c].stream) :
             last' = [last EXCEPT ![c] = v]
      BY <1>8 DEF ReadLastVersion
    <2>2. v \in Nat
      BY DEF Versions, RowsOf, Visible, TypeOK, Row
    <2> QED
      BY <1>8, <2>1, <2>2 DEF ReadLastVersion, TypeOK
  <1>9. ASSUME NEW c \in Clients, StartInsert(c) PROVE TypeOK'
    <2>1. call[c] \in Call /\ done[c] \in Nat /\ last[c] \in Nat
      BY DEF TypeOK
    <2>2. call[c].ids[done[c] + 1] \in EventId
      BY <1>9, <2>1 DEF StartInsert, InBatch, Call
    <2>3. [id |-> lastId + 1, stream |-> call[c].stream,
           version |-> last[c] + 1, event |-> call[c].ids[done[c] + 1]] \in Row
      BY <2>1, <2>2 DEF TypeOK, Row, Call
    <2> QED
      BY <1>9, <2>3 DEF StartInsert, TypeOK
  <1>10. ASSUME NEW c \in Clients, FinishInsert(c) PROVE TypeOK'
    BY <1>10 DEF FinishInsert, TypeOK
  <1>11. ASSUME NEW c \in Clients, Commit(c) PROVE TypeOK'
    BY <1>11, ReturnTyping DEF Commit, TypeOK, Results
  <1>12. ASSUME NEW c \in Clients, LinkUnacknowledged(c) PROVE TypeOK'
    BY <1>12, ReturnTyping DEF LinkUnacknowledged, TypeOK, Results
  <1>13. ASSUME NEW c \in Clients,
                \/ EventMissing(c) \/ WrongVersion(c) \/ UniqueViolation(c)
                \/ FinishLink(c) \/ DbError(c)
         PROVE  TypeOK'
    <2>1. \E res \in Results : Return(c, res)
      BY <1>13 DEF EventMissing, WrongVersion, UniqueViolation, FinishLink,
                   DbError, Results
    <2>2. UNCHANGED db
      BY <1>13 DEF EventMissing, WrongVersion, UniqueViolation, FinishLink,
                   DbError
    <2> QED
      BY <2>1, <2>2, ReturnTyping DEF TypeOK
  <1> QED
    BY <1>1, <1>2, <1>3, <1>4, <1>5, <1>6, <1>7, <1>8, <1>9, <1>10, <1>11,
       <1>12, <1>13 DEF Next, Invoke, Progress, Fault

\* Every variable keeps its type, whatever the bounds and the number of clients.
THEOREM TypeCorrect == Spec => []TypeOK
  <1>1. Init => InBatch
    BY DEF Init, InBatch
  <1> QED
    BY <1>1, InitTyping, StepTyping, StepInBatch, PTL DEF Spec

-----------------------------------------------------------------------------
(* The parts of WriterInv, one lemma each.  Most statements leave the rows *)
(* alone or drop those of one client; rows are added in three actions.     *)

\* The steps that end a call without committing anything.
Abort(c) == EventMissing(c) \/ WrongVersion(c) \/ UniqueViolation(c)
            \/ FinishLink(c) \/ DbError(c)

\* A call that ends without a commit is a Return that leaves the tables alone.
LEMMA AbortReturns ==
    ASSUME NEW c \in Clients, Abort(c)
    PROVE  UNCHANGED db /\ \E res \in Results : Return(c, res)
  BY DEF Abort, EventMissing, WrongVersion, UniqueViolation, FinishLink,
         DbError, Results

\* A row goes in only when its key is free everywhere.
LEMMA InsertFree ==
    ASSUME TxOwned, NEW c \in Clients, FinishInsert(c) \/ LinkUnacknowledged(c)
    PROVE  /\ \A r, q \in inserting[c] : r = q
           /\ \A r \in inserting[c], q \in Visible(c) : ~SameKey(r, q)
           /\ \A r \in inserting[c], d \in Clients \ {c} :
                  \A q \in txStream[d] : ~SameKey(r, q)
  BY DEF FinishInsert, LinkUnacknowledged, Taken, Blocked, TxOwned

\* A call begins with no rows of its own and touches no other client's.
LEMMA BeginLeavesRows ==
    ASSUME TypeOK, NEW c \in Clients, AppendToStream(c) \/ Link(c)
    PROVE  /\ UNCHANGED <<db, last, inserting, txStore, txStream>>
           /\ pc[c] = "idle" /\ pc'[c] \in {"store", "check"}
           /\ \A d \in Clients \ {c} : pc'[d] = pc[d] /\ call'[d] = call[d]
  BY DEF AppendToStream, Link, Begin, TypeOK

\* Uncommitted rows stay with the Append that wrote them, on its stream.
LEMMA StepTxOwned == TypeOK /\ TxOwned /\ [Next]_vars => TxOwned'
  <1> SUFFICES ASSUME TypeOK, TxOwned, [Next]_vars PROVE TxOwned'
    OBVIOUS
  <1> USE DEF TypeOK, TxOwned
  <1>1. CASE UNCHANGED vars
    BY <1>1 DEF vars
  <1>2. ASSUME NEW c \in Clients, AppendToStream(c) \/ Link(c) PROVE TxOwned'
    BY <1>2, BeginLeavesRows
  <1>3. ASSUME NEW c \in Clients, Reject(c) \/ DeleteStream(c) PROVE TxOwned'
    BY <1>3 DEF Reject, DeleteStream
  <1>4. ASSUME NEW c \in Clients,
               InsertEvents(c) \/ CheckEvents(c) \/ ReadLastVersion(c)
        PROVE  TxOwned'
    BY <1>4 DEF InsertEvents, CheckEvents, ReadLastVersion, MoreToInsert
  <1>5. ASSUME NEW c \in Clients, StartInsert(c) PROVE TxOwned'
    <2> DEFINE r == [id |-> lastId + 1, stream |-> call[c].stream,
                     version |-> last[c] + 1,
                     event |-> call[c].ids[done[c] + 1]]
    <2>1. inserting' = [inserting EXCEPT ![c] = {r}] /\ r.stream = call[c].stream
      BY <1>5 DEF StartInsert
    <2> HIDE DEF r
    <2>2. /\ UNCHANGED <<call, txStream>>
          /\ pc[c] = "insert" /\ pc' = [pc EXCEPT ![c] = "index"]
      BY <1>5 DEF StartInsert
    <2> QED
      BY <2>1, <2>2
  <1>6. ASSUME NEW c \in Clients, FinishInsert(c) PROVE TxOwned'
    BY <1>6 DEF FinishInsert, Call
  <1>7. ASSUME NEW c \in Clients, Commit(c) \/ LinkUnacknowledged(c)
        PROVE  TxOwned'
    BY <1>7 DEF Commit, LinkUnacknowledged, Return
  <1>8. ASSUME NEW c \in Clients, Abort(c) PROVE TxOwned'
    BY <1>8, AbortReturns DEF Return
  <1> QED
    BY <1>1, <1>2, <1>3, <1>4, <1>5, <1>6, <1>7, <1>8
    DEF Next, Invoke, Progress, Fault, Abort

\* The unique index and the wait for its holder keep keys distinct.
LEMMA StepKeysUnique ==
    TypeOK /\ TxOwned /\ KeysUnique /\ [Next]_vars => KeysUnique'
  <1> SUFFICES ASSUME TypeOK, TxOwned, KeysUnique, [Next]_vars PROVE KeysUnique'
    OBVIOUS
  <1> USE DEF TypeOK, KeysUnique, SameKey
  <1>1. CASE UNCHANGED vars
    BY <1>1 DEF vars
  <1>2. ASSUME NEW c \in Clients,
               \/ AppendToStream(c) \/ Link(c) \/ Reject(c)
               \/ InsertEvents(c) \/ CheckEvents(c) \/ ReadLastVersion(c)
               \/ StartInsert(c)
        PROVE  KeysUnique'
    BY <1>2 DEF AppendToStream, Link, Reject, Begin, InsertEvents, CheckEvents,
                ReadLastVersion, StartInsert
  <1>3. ASSUME NEW c \in Clients, DeleteStream(c) PROVE KeysUnique'
    <2>1. eventStream' \subseteq eventStream /\ txStream' = txStream
      BY <1>3 DEF DeleteStream
    <2> QED
      BY <2>1
  <1>4. ASSUME NEW c \in Clients, FinishInsert(c) PROVE KeysUnique'
    <2>1. /\ \A r, q \in inserting[c] : r = q
          /\ \A r \in inserting[c], q \in Visible(c) : ~SameKey(r, q)
          /\ \A r \in inserting[c], d \in Clients \ {c} :
                 \A q \in txStream[d] : ~SameKey(r, q)
      BY <1>4, InsertFree
    <2>2. CASE call[c].op = "append"
      <3>1. /\ eventStream' = eventStream
            /\ txStream' = [txStream EXCEPT ![c] = @ \cup inserting[c]]
        BY <1>4, <2>2 DEF FinishInsert
      <3> QED
        BY <2>1, <3>1 DEF Visible
    <2>3. CASE call[c].op # "append"
      <3>1. /\ eventStream' = eventStream \cup inserting[c]
            /\ txStream' = txStream
        BY <1>4, <2>3 DEF FinishInsert
      <3> QED
        BY <2>1, <3>1 DEF Visible
    <2> QED
      BY <2>2, <2>3
  <1>5. ASSUME NEW c \in Clients, LinkUnacknowledged(c) PROVE KeysUnique'
    <2>1. /\ \A r, q \in inserting[c] : r = q
          /\ \A r \in inserting[c], q \in Visible(c) : ~SameKey(r, q)
          /\ \A r \in inserting[c], d \in Clients \ {c} :
                 \A q \in txStream[d] : ~SameKey(r, q)
      BY <1>5, InsertFree
    <2>2. /\ eventStream' = eventStream \cup inserting[c]
          /\ txStream' = [txStream EXCEPT ![c] = {}]
      BY <1>5 DEF LinkUnacknowledged, Return
    <2> QED
      BY <2>1, <2>2 DEF Visible
  <1>6. ASSUME NEW c \in Clients, Commit(c) PROVE KeysUnique'
    <2>1. /\ eventStream' = eventStream \cup txStream[c]
          /\ txStream' = [txStream EXCEPT ![c] = {}]
      BY <1>6 DEF Commit, Return
    <2> QED
      BY <2>1
  <1>7. ASSUME NEW c \in Clients, Abort(c) PROVE KeysUnique'
    <2>1. /\ eventStream' = eventStream
          /\ txStream' = [txStream EXCEPT ![c] = {}]
      BY <1>7, AbortReturns DEF Return
    <2> QED
      BY <2>1
  <1> QED
    BY <1>1, <1>2, <1>3, <1>4, <1>5, <1>6, <1>7
    DEF Next, Invoke, Progress, Fault, Abort

\* What a step does to the rows of the streams that are kept: nothing but
\* perhaps a rollback, or rows added in one of three ways.
Quiet ==
    /\ eventStream' \subseteq eventStream
    /\ \A s \in Kept : RowsOf(eventStream', s) = RowsOf(eventStream, s)
    /\ \A c \in Clients : txStream'[c] \in {txStream[c], {}}
Buffers(c) ==
    /\ FinishInsert(c)
    /\ eventStream' = eventStream
    /\ txStream' = [txStream EXCEPT ![c] = @ \cup inserting[c]]
Autocommits(c) ==
    /\ FinishInsert(c) \/ LinkUnacknowledged(c)
    /\ txStream[c] = {}
    /\ eventStream' = eventStream \cup inserting[c]
    /\ txStream' = txStream
Commits(c) ==
    /\ Commit(c)
    /\ eventStream' = eventStream \cup txStream[c]
    /\ txStream' = [txStream EXCEPT ![c] = {}]

\* Every step is one of the four: nothing, a buffered row, an autocommitted row, or
\* the commit of a transaction.
LEMMA StepRows ==
    ASSUME TypeOK, TxOwned, [Next]_vars
    PROVE  Quiet \/ \E c \in Clients : Buffers(c) \/ Autocommits(c) \/ Commits(c)
  <1> USE DEF TypeOK
  <1>1. CASE UNCHANGED vars
    BY <1>1 DEF vars, Quiet
  <1>2. ASSUME NEW c \in Clients, AppendToStream(c) \/ Link(c) PROVE Quiet
    BY <1>2, BeginLeavesRows DEF Quiet
  <1>3. ASSUME NEW c \in Clients,
               \/ Reject(c) \/ InsertEvents(c) \/ CheckEvents(c)
               \/ ReadLastVersion(c) \/ StartInsert(c)
        PROVE  Quiet
    BY <1>3 DEF Reject, InsertEvents, CheckEvents, ReadLastVersion,
                StartInsert, Quiet
  <1>4. ASSUME NEW c \in Clients, DeleteStream(c) PROVE Quiet
    <2>1. PICK s \in Deletable : eventStream' \in
                {eventStream, eventStream \ RowsOf(eventStream, s)}
      BY <1>4 DEF DeleteStream
    <2>2. txStream' = txStream
      BY <1>4 DEF DeleteStream
    <2> QED
      BY <2>1, <2>2 DEF Quiet, Kept, RowsOf
  <1>5. ASSUME NEW c \in Clients, FinishInsert(c)
        PROVE  Buffers(c) \/ Autocommits(c)
    BY <1>5 DEF FinishInsert, Buffers, Autocommits, TxOwned
  <1>6. ASSUME NEW c \in Clients, LinkUnacknowledged(c) PROVE Autocommits(c)
    <2>1. txStream[c] = {}
      BY <1>6 DEF LinkUnacknowledged, TxOwned
    <2> QED
      BY <1>6, <2>1 DEF LinkUnacknowledged, Autocommits, Return
  <1>7. ASSUME NEW c \in Clients, Commit(c) PROVE Commits(c)
    BY <1>7 DEF Commit, Commits, Return
  <1>8. ASSUME NEW c \in Clients, Abort(c) PROVE Quiet
    BY <1>8, AbortReturns DEF Return, Quiet
  <1> QED
    BY <1>1, <1>2, <1>3, <1>4, <1>5, <1>6, <1>7, <1>8
    DEF Next, Invoke, Progress, Fault, Abort

\* A row that follows a present one opens no gap, nor does a union.
LEMMA NextRowNoGaps ==
    ASSUME NEW rows \in SUBSET Row, NEW r \in Row, NEW s \in StreamIds,
           NoGaps(rows, s),
           r.stream = s => r.version - 1 \in {0} \cup Versions(rows, s)
    PROVE  NoGaps(rows \cup {r}, s)
  <1> SUFFICES ASSUME NEW q \in RowsOf(rows \cup {r}, s), NEW v \in 1..q.version
               PROVE  v \in Versions(rows \cup {r}, s)
    BY DEF NoGaps
  <1>1. Versions(rows, s) \subseteq Versions(rows \cup {r}, s)
    BY DEF Versions, RowsOf
  <1>2. CASE q \in RowsOf(rows, s)
    BY <1>1, <1>2 DEF NoGaps
  <1>3. CASE q = r /\ v = r.version
    BY <1>3 DEF Versions, RowsOf
  <1>4. CASE q = r /\ v # r.version
    <2>1. r.stream = s /\ r.version \in Nat
      BY <1>4 DEF RowsOf, Row
    <2>2. PICK p \in RowsOf(rows, s) : p.version = r.version - 1
      BY <1>4, <2>1 DEF Versions
    <2>3. v \in 1..p.version
      BY <1>4, <2>1, <2>2
    <2> QED
      BY <1>1, <2>3 DEF NoGaps
  <1> QED
    BY <1>2, <1>3, <1>4 DEF RowsOf

\* Two gapless sets of rows of a stream are gapless together.
LEMMA UnionNoGaps ==
    ASSUME NEW A, NEW B, NEW s, NoGaps(A, s), NoGaps(B, s)
    PROVE  NoGaps(A \cup B, s)
  BY DEF NoGaps, RowsOf, Versions

\* No statement, commit or rollback opens a gap for anyone.
LEMMA StepVisibleContiguous ==
    TypeOK /\ TxOwned /\ LastStillVisible /\ VisibleContiguous /\ [Next]_vars
        => VisibleContiguous'
  <1> SUFFICES ASSUME TypeOK, TxOwned, LastStillVisible, VisibleContiguous,
                      [Next]_vars, NEW s \in Kept
               PROVE  /\ NoGaps(eventStream', s)
                      /\ \A d \in Clients : NoGaps(eventStream' \cup txStream'[d], s)
    BY DEF VisibleContiguous, Visible
  <1>a. /\ NoGaps(eventStream, s)
        /\ \A d \in Clients : NoGaps(eventStream \cup txStream[d], s)
    BY DEF VisibleContiguous, Visible
  <1>b. s \in StreamIds /\ eventStream \in SUBSET Row
        /\ \A d \in Clients : eventStream \cup txStream[d] \in SUBSET Row
    BY DEF Kept, TypeOK
  <1>1. CASE Quiet
    BY <1>1, <1>a DEF Quiet, NoGaps, Versions, RowsOf
  <1>2. ASSUME NEW c \in Clients, Commits(c)
        PROVE  /\ NoGaps(eventStream', s)
               /\ \A d \in Clients : NoGaps(eventStream' \cup txStream'[d], s)
    <2>1. NoGaps(eventStream', s)
      BY <1>2, <1>a DEF Commits
    <2>2. ASSUME NEW d \in Clients
          PROVE  NoGaps(eventStream' \cup txStream'[d], s)
      <3>1. CASE d = c
        BY <1>2, <2>1, <3>1 DEF Commits, TypeOK
      <3>2. CASE d # c
        <4>1. eventStream' \cup txStream'[d]
                = (eventStream \cup txStream[c]) \cup (eventStream \cup txStream[d])
          BY <1>2, <3>2 DEF Commits, TypeOK
        <4> QED
          BY <1>a, <4>1, UnionNoGaps
      <3> QED
        BY <3>1, <3>2
    <2> QED
      BY <2>1, <2>2
  <1>3. ASSUME NEW c \in Clients, FinishInsert(c) \/ LinkUnacknowledged(c)
        PROVE  \E r \in Row : /\ inserting[c] = {r}
                              /\ r.stream = s => r.version - 1 \in
                                    {0} \cup Versions(eventStream \cup txStream[c], s)
    <2>1. pc[c] = "index"
      BY <1>3 DEF FinishInsert, LinkUnacknowledged
    <2>2. inserting[c] \subseteq Row
      BY DEF TypeOK
    <2>3. PICK r \in Row : inserting[c] = {r}
      BY <2>1, <2>2 DEF TxOwned
    <2>4. r.stream = call[c].stream
      BY <2>3 DEF TxOwned
    <2> QED
      BY <2>3, <2>4 DEF LastStillVisible, Visible
  <1>4. ASSUME NEW c \in Clients, Buffers(c)
        PROVE  /\ NoGaps(eventStream', s)
               /\ \A d \in Clients : NoGaps(eventStream' \cup txStream'[d], s)
    <2>1. NoGaps(eventStream', s)
      BY <1>4, <1>a DEF Buffers
    <2>2. ASSUME NEW d \in Clients
          PROVE  NoGaps(eventStream' \cup txStream'[d], s)
      <3>1. CASE d = c
        <4>1. PICK r \in Row : /\ inserting[c] = {r}
                               /\ r.stream = s => r.version - 1 \in
                                    {0} \cup Versions(eventStream \cup txStream[c], s)
          BY <1>4, <1>3 DEF Buffers
        <4>2. eventStream' \cup txStream'[c] = (eventStream \cup txStream[c]) \cup {r}
          BY <1>4, <4>1 DEF Buffers, TypeOK
        <4> QED
          BY <3>1, <4>1, <4>2, <1>a, <1>b, NextRowNoGaps
      <3>2. CASE d # c
        BY <1>4, <1>a, <3>2 DEF Buffers, TypeOK
      <3> QED
        BY <3>1, <3>2
    <2> QED
      BY <2>1, <2>2
  <1>5. ASSUME NEW c \in Clients, Autocommits(c)
        PROVE  /\ NoGaps(eventStream', s)
               /\ \A d \in Clients : NoGaps(eventStream' \cup txStream'[d], s)
    <2>1. PICK r \in Row : /\ inserting[c] = {r}
                           /\ r.stream = s => r.version - 1 \in
                                {0} \cup Versions(eventStream \cup txStream[c], s)
      BY <1>5, <1>3 DEF Autocommits
    <2>2. r.stream = s => r.version - 1 \in {0} \cup Versions(eventStream, s)
      BY <1>5, <2>1 DEF Autocommits
    <2>3. NoGaps(eventStream', s)
      BY <1>5, <2>1, <2>2, <1>a, <1>b, NextRowNoGaps DEF Autocommits
    <2>4. ASSUME NEW d \in Clients
          PROVE  NoGaps(eventStream' \cup txStream'[d], s)
      <3>1. eventStream' \cup txStream'[d] = eventStream' \cup (eventStream \cup txStream[d])
        BY <1>5 DEF Autocommits
      <3> QED
        BY <1>a, <2>3, <3>1, UnionNoGaps
    <2> QED
      BY <2>3, <2>4
  <1> QED
    BY <1>1, <1>2, <1>4, <1>5, StepRows

\* A transaction keeps its rows until its call returns.
LEMMA TxKept ==
    ASSUME TypeOK, [Next]_vars, NEW d \in Clients, pc'[d] # "idle"
    PROVE  txStream[d] \subseteq txStream'[d]
  <1> USE DEF TypeOK
  <1>1. CASE UNCHANGED vars
    BY <1>1 DEF vars
  <1>2. ASSUME NEW c \in Clients, AppendToStream(c) \/ Link(c)
        PROVE  txStream' = txStream
    BY <1>2, BeginLeavesRows
  <1>3. ASSUME NEW c \in Clients,
               \/ Reject(c) \/ DeleteStream(c) \/ InsertEvents(c)
               \/ CheckEvents(c) \/ ReadLastVersion(c) \/ StartInsert(c)
        PROVE  txStream' = txStream
    BY <1>3 DEF Reject, DeleteStream, InsertEvents, CheckEvents,
                ReadLastVersion, StartInsert
  <1>4. ASSUME NEW c \in Clients, FinishInsert(c)
        PROVE  txStream[d] \subseteq txStream'[d]
    BY <1>4 DEF FinishInsert
  <1>5. ASSUME NEW c \in Clients, NEW res, Return(c, res)
        PROVE  txStream'[d] = txStream[d]
    BY <1>5 DEF Return
  <1>6. ASSUME NEW c \in Clients, Abort(c) \/ Commit(c) \/ LinkUnacknowledged(c)
        PROVE  \E res : Return(c, res)
    BY <1>6, AbortReturns DEF Commit, LinkUnacknowledged
  <1> QED
    BY <1>1, <1>2, <1>3, <1>4, <1>5, <1>6
    DEF Next, Invoke, Progress, Fault, Abort

\* Rows of kept streams that a client sees stay visible to it during its call.
LEMMA VisibleGrows ==
    ASSUME TypeOK, TxOwned, [Next]_vars, NEW s \in Kept, NEW d \in Clients,
           pc'[d] # "idle"
    PROVE  Versions(Visible(d), s) \subseteq Versions(Visible(d), s)'
  <1>1. CASE Quiet
    <2>1. txStream'[d] = txStream[d]
      BY <1>1, TxKept DEF Quiet
    <2> QED
      BY <1>1, <2>1 DEF Quiet, Versions, RowsOf, Visible
  <1>2. ASSUME NEW c \in Clients, Buffers(c) \/ Autocommits(c) \/ Commits(c)
        PROVE  Visible(d) \subseteq Visible(d)'
    BY <1>2 DEF Buffers, Autocommits, Commits, Visible, TypeOK
  <1> QED
    BY <1>1, <1>2, StepRows DEF Versions, RowsOf

\* The local variables of a call under way after a step: just begun or between
\* two events, one of the two statements of an insert, or another's step.
Between(d) ==
    pc'[d] \in {"store", "check", "version"} /\ inserting'[d] = {}
Unmoved(d) ==
    /\ pc'[d] = pc[d] /\ call'[d] = call[d] /\ last'[d] = last[d]
    /\ inserting'[d] = inserting[d]

\* A client inside a call is between two inserts, reads, prepares or stands still.
LEMMA LocalState ==
    ASSUME TypeOK, TxOwned, [Next]_vars, NEW d \in Clients, pc'[d] # "idle"
    PROVE  Between(d) \/ ReadLastVersion(d) \/ StartInsert(d) \/ Unmoved(d)
  <1> USE DEF TypeOK, Between, Unmoved
  <1>1. CASE UNCHANGED vars
    BY <1>1 DEF vars
  <1>2. ASSUME NEW c \in Clients, AppendToStream(c) \/ Link(c)
        PROVE  Between(d) \/ Unmoved(d)
    BY <1>2, BeginLeavesRows DEF TxOwned
  <1>3. ASSUME NEW c \in Clients,
               \/ Reject(c) \/ DeleteStream(c) \/ InsertEvents(c)
               \/ CheckEvents(c) \/ FinishInsert(c)
        PROVE  Between(d) \/ Unmoved(d)
    BY <1>3 DEF Reject, DeleteStream, InsertEvents, CheckEvents, FinishInsert,
                TxOwned
  <1>4. ASSUME NEW c \in Clients, ReadLastVersion(c) \/ StartInsert(c)
        PROVE  c = d \/ Unmoved(d)
    BY <1>4 DEF ReadLastVersion, StartInsert
  <1>5. ASSUME NEW c \in Clients, NEW res, Return(c, res)
        PROVE  Unmoved(d)
    BY <1>5 DEF Return
  <1>6. ASSUME NEW c \in Clients, Abort(c) \/ Commit(c) \/ LinkUnacknowledged(c)
        PROVE  \E res : Return(c, res)
    BY <1>6, AbortReturns DEF Commit, LinkUnacknowledged
  <1> QED
    BY <1>1, <1>2, <1>3, <1>4, <1>5, <1>6
    DEF Next, Invoke, Progress, Fault, Abort

\* The version a client has read does not disappear under it.
LEMMA StepLastStillVisible ==
    TypeOK /\ TxOwned /\ LastStillVisible /\ [Next]_vars => LastStillVisible'
  <1> SUFFICES ASSUME TypeOK, TxOwned, LastStillVisible, [Next]_vars,
                      NEW d \in Clients, call'[d].stream \in Kept
               PROVE  /\ pc'[d] = "insert" =>
                            last'[d] \in {0} \cup Versions(Visible(d), call[d].stream)'
                      /\ \A r \in inserting'[d] : r.version - 1 \in
                            {0} \cup Versions(Visible(d), call[d].stream)'
    BY DEF LastStillVisible
  <1>0. TxOwned'
    BY StepTxOwned
  <1>1. CASE pc'[d] = "idle" \/ Between(d)
    BY <1>0, <1>1 DEF TxOwned, Between
  <1>2. CASE pc'[d] # "idle" /\ ReadLastVersion(d)
    <2>1. PICK v \in {0} \cup Versions(Visible(d), call[d].stream) :
             last'[d] = v
      BY <1>2 DEF ReadLastVersion, TypeOK
    <2>2. /\ UNCHANGED <<eventStream, txStream, call, inserting>>
          /\ pc[d] # "index"
      BY <1>2 DEF ReadLastVersion, MoreToInsert, db
    <2> QED
      BY <2>1, <2>2 DEF TxOwned, Versions, RowsOf, Visible
  <1>3. CASE pc'[d] # "idle" /\ StartInsert(d)
    <2>1. /\ UNCHANGED <<eventStream, txStream, call>>
          /\ pc[d] = "insert" /\ pc'[d] = "index"
          /\ \A r \in inserting'[d] : r.version = last[d] + 1
          /\ last[d] \in Nat
      BY <1>3 DEF StartInsert, TypeOK
    <2>2. last[d] \in {0} \cup Versions(Visible(d), call[d].stream)
      BY <2>1 DEF LastStillVisible
    <2> QED
      BY <2>1, <2>2 DEF Versions, RowsOf, Visible
  <1>4. CASE pc'[d] # "idle" /\ Unmoved(d)
    <2>1. Versions(Visible(d), call[d].stream)
             \subseteq Versions(Visible(d), call[d].stream)'
      BY <1>4, VisibleGrows DEF Unmoved
    <2> QED
      BY <1>4, <2>1 DEF Unmoved, LastStillVisible
  <1> QED
    BY <1>1, <1>2, <1>3, <1>4, LocalState

\* The arguments of a call do not change under it.
LEMMA CallFixed ==
    ASSUME TypeOK, [Next]_vars, NEW d \in Clients, pc[d] # "idle"
    PROVE  call'[d] = call[d]
  <1> USE DEF TypeOK
  <1>1. CASE UNCHANGED vars
    BY <1>1 DEF vars
  <1>2. ASSUME NEW c \in Clients, Invoke(c) PROVE call'[d] = call[d]
    BY <1>2, BeginLeavesRows DEF Invoke, Reject, DeleteStream
  <1>3. ASSUME NEW c \in Clients, Abort(c) PROVE call'[d] = call[d]
    BY <1>3, AbortReturns DEF Return
  <1>4. ASSUME NEW c \in Clients,
               \/ InsertEvents(c) \/ CheckEvents(c) \/ ReadLastVersion(c)
               \/ StartInsert(c) \/ FinishInsert(c) \/ Commit(c)
               \/ LinkUnacknowledged(c)
        PROVE  call' = call
    BY <1>4 DEF InsertEvents, CheckEvents, ReadLastVersion, StartInsert,
                FinishInsert, Commit, LinkUnacknowledged, Return
  <1> QED
    BY <1>1, <1>2, <1>3, <1>4 DEF Next, Progress, Fault, Abort

\* An uncommitted row was in its transaction already, or was being inserted.
LEMMA TxRows ==
    ASSUME TypeOK, TxOwned, [Next]_vars, NEW d \in Clients, NEW r \in txStream'[d]
    PROVE  r \in txStream[d] \cup inserting[d] /\ call'[d] = call[d]
  <1>1. r \in txStream[d] \cup inserting[d]
    BY StepRows DEF Quiet, Buffers, Autocommits, Commits, TypeOK
  <1>2. pc[d] # "idle"
    BY <1>1 DEF TxOwned
  <1> QED
    BY <1>1, <1>2, CallFixed

\* No row is prepared or kept that its caller's expectation does not admit.
LEMMA StepExpectedCompared ==
    TypeOK /\ TxOwned /\ ExpectedCompared /\ [Next]_vars => ExpectedCompared'
  <1> SUFFICES ASSUME TypeOK, TxOwned, ExpectedCompared, [Next]_vars,
                      NEW d \in Clients
               PROVE  /\ pc'[d] = "insert" => call'[d].expected \subseteq {last'[d]}
                      /\ \A r \in txStream'[d] \cup inserting'[d] :
                            call'[d].expected \subseteq {r.version - 1}
    BY DEF ExpectedCompared
  <1>0. TxOwned'
    BY StepTxOwned
  <1>1. \A r \in txStream'[d] : call'[d].expected \subseteq {r.version - 1}
    BY TxRows DEF ExpectedCompared
  <1>2. CASE pc'[d] = "idle" \/ Between(d)
    BY <1>0, <1>1, <1>2 DEF TxOwned, Between
  <1>3. CASE pc'[d] # "idle" /\ ReadLastVersion(d)
    <2>1. PICK v : AsExpected(d, v) /\ last'[d] = v
      BY <1>3 DEF ReadLastVersion, TypeOK
    <2>2. UNCHANGED <<call, inserting>> /\ inserting[d] = {}
      BY <1>3 DEF ReadLastVersion, MoreToInsert, TxOwned
    <2> QED
      BY <1>1, <2>1, <2>2 DEF AsExpected
  <1>4. CASE pc'[d] # "idle" /\ StartInsert(d)
    <2>1. /\ UNCHANGED call
          /\ pc[d] = "insert" /\ pc'[d] = "index"
          /\ \A r \in inserting'[d] : r.version = last[d] + 1
          /\ last[d] \in Nat
      BY <1>4 DEF StartInsert, TypeOK
    <2> QED
      BY <1>1, <2>1 DEF ExpectedCompared
  <1>5. CASE pc'[d] # "idle" /\ Unmoved(d)
    BY <1>1, <1>5 DEF Unmoved, ExpectedCompared
  <1> QED
    BY <1>2, <1>3, <1>4, <1>5, LocalState

\* Two clients never hold uncommitted rows of the same kept stream.
LEMMA OneHolder ==
    ASSUME TypeOK, KeysUnique, VisibleContiguous,
           NEW c \in Clients, NEW d \in Clients \ {c},
           NEW r \in txStream[c], NEW q \in txStream[d],
           r.stream = q.stream, r.stream \in Kept
    PROVE  FALSE
  <1>1. r \in Row /\ q \in Row
    BY DEF TypeOK
  <1>2. ASSUME NEW x \in Clients, NEW y \in Clients \ {x},
               NEW a \in txStream[x], NEW b \in txStream[y],
               a.stream = b.stream, a.stream \in Kept, a.version < b.version
        PROVE  FALSE
    <2>1. a \in Row /\ b \in Row
      BY DEF TypeOK
    <2>2. a.version \in Versions(Visible(y), a.stream)
      <3>1. b \in RowsOf(Visible(y), a.stream)
        BY <1>2 DEF RowsOf, Visible
      <3>2. a.version \in 1..b.version
        BY <1>2, <2>1 DEF Row
      <3> QED
        BY <1>2, <3>1, <3>2 DEF VisibleContiguous, NoGaps
    <2>3. PICK p \in Visible(y) : SameKey(p, a)
      BY <2>2 DEF Versions, RowsOf, SameKey
    <2> QED
      BY <2>3 DEF KeysUnique, SameKey, Visible
  <1>3. r.version # q.version
    BY DEF KeysUnique, SameKey
  <1>4. r.version < q.version \/ q.version < r.version
    BY <1>1, <1>3 DEF Row
  <1> QED
    BY <1>2, <1>4

\* Below a row a client sees or inserts, every version of the stream is taken.
LEMMA BelowPresent ==
    ASSUME TypeOK, TxOwned, VisibleContiguous, LastStillVisible,
           NEW d \in Clients, NEW r \in Visible(d) \cup inserting[d],
           NEW q \in Row, r.stream \in Kept, q.stream = r.stream,
           q.version < r.version
    PROVE  \E p \in Visible(d) : SameKey(p, q)
  <1>1. r \in Row
    BY DEF TypeOK, Visible
  <1>2. q.version \in Versions(Visible(d), r.stream)
    <2>1. CASE r \in Visible(d)
      <3>1. r \in RowsOf(Visible(d), r.stream) /\ q.version \in 1..r.version
        BY <1>1, <2>1 DEF RowsOf, Row
      <3> QED
        BY <3>1 DEF VisibleContiguous, NoGaps
    <2>2. CASE r \in inserting[d]
      <3>1. r.version - 1 \in {0} \cup Versions(Visible(d), r.stream)
        BY <2>2 DEF LastStillVisible, TxOwned
      <3>2. PICK p \in RowsOf(Visible(d), r.stream) : p.version = r.version - 1
        BY <1>1, <3>1 DEF Row, Versions
      <3>3. q.version \in 1..p.version
        BY <1>1, <3>2 DEF Row
      <3> QED
        BY <3>2, <3>3 DEF VisibleContiguous, NoGaps
    <2> QED
      BY <2>1, <2>2
  <1> QED
    BY <1>2 DEF Versions, RowsOf, SameKey

\* Every row after a step was a row before it, but for the one StartInsert makes.
LEMMA StepIdsBounded ==
    ASSUME TypeOK, TxOwned, IdsOrdered, [Next]_vars
    PROVE  /\ \A r \in eventStream' : r.id <= lastId'
           /\ \A d \in Clients : \A r \in txStream'[d] \cup inserting'[d] :
                  r.id <= lastId'
  <1>1. lastId' \in {lastId, lastId + 1} /\ lastId \in Nat
    BY BeginLeavesRows, AbortReturns
    DEF Next, Invoke, Progress, Fault, Abort, vars, db, Reject, DeleteStream,
        InsertEvents, CheckEvents, ReadLastVersion, StartInsert, FinishInsert,
        Commit, LinkUnacknowledged, TypeOK
  <1>2. /\ eventStream \subseteq Row
        /\ \A d \in Clients : txStream[d] \cup inserting[d] \subseteq Row
    BY DEF TypeOK
  <1>3. \A r \in eventStream' : r.id \in Nat /\ r.id <= lastId
    BY <1>2, StepRows DEF Quiet, Buffers, Autocommits, Commits, IdsOrdered, Row
  <1>4. \A d \in Clients : \A r \in txStream'[d] : r.id \in Nat /\ r.id <= lastId
    BY <1>2, TxRows DEF IdsOrdered, Row
  <1>5. ASSUME NEW d \in Clients, NEW r \in inserting'[d] PROVE r.id <= lastId'
    <2>1. TxOwned'
      BY StepTxOwned
    <2>2. CASE pc'[d] = "idle" \/ Between(d)
      BY <1>5, <2>1, <2>2 DEF TxOwned, Between
    <2>3. CASE StartInsert(d)
      BY <1>1, <1>5, <2>3 DEF StartInsert, TypeOK
    <2>4. CASE ReadLastVersion(d) \/ Unmoved(d)
      <3>1. inserting'[d] = inserting[d]
        BY <2>4 DEF ReadLastVersion, Unmoved
      <3>2. r.id \in Nat /\ r.id <= lastId
        BY <1>2, <1>5, <3>1 DEF IdsOrdered, Row
      <3> QED
        BY <1>1, <3>2
    <2> QED
      BY <2>2, <2>3, <2>4, LocalState
  <1> QED
    BY <1>1, <1>3, <1>4, <1>5

\* What is ordered: the id of the row with the lower version is the lower one.
Ordered(r, q) ==
    r.stream = q.stream /\ r.stream \in Kept /\ q.version < r.version
        => q.id < r.id

\* Ids keep growing with versions, although they are drawn before the insert
\* has waited for its key.
LEMMA StepIdsOrdered ==
    ASSUME TypeOK, WriterInv, [Next]_vars
    PROVE  IdsOrdered'
  <1> USE DEF WriterInv
  <1>a. /\ eventStream \subseteq Row
        /\ \A c \in Clients : txStream[c] \subseteq Row /\ inserting[c] \subseteq Row
    BY DEF TypeOK
  <1>b. \A c \in Clients : \A r \in Visible(c) \cup inserting[c], q \in Visible(c) :
            Ordered(r, q)
    BY DEF IdsOrdered, Ordered
  <1>c. ASSUME NEW c \in Clients, FinishInsert(c) \/ LinkUnacknowledged(c),
               NEW d \in Clients, d = c \/ txStream[c] = {},
               NEW r \in Visible(d) \cup inserting[c],
               NEW q \in Visible(d) \cup inserting[c]
        PROVE  Ordered(r, q)
    <2> SUFFICES ASSUME r.stream = q.stream, r.stream \in Kept,
                        q.version < r.version
                 PROVE  q.id < r.id
      BY DEF Ordered
    <2>0. r \in Row /\ q \in Row
      BY <1>a DEF Visible
    <2>1. CASE r \in Visible(d) /\ q \in Visible(d)
      BY <1>b, <2>1 DEF Ordered
    <2>2. CASE r \in inserting[c] /\ q \in inserting[c]
      BY <2>0, <2>2 DEF TxOwned, Row
    <2>3. CASE r \in Visible(d) /\ q \in inserting[c]
      <3>1. PICK p \in Visible(d) : SameKey(p, q)
        BY <2>0, <2>3, BelowPresent
      <3> QED
        BY <1>c, <2>3, <3>1, InsertFree DEF Visible, SameKey
    <2>4. CASE r \in inserting[c] /\ q \in Visible(d)
      <3>1. CASE q \in Visible(c)
        BY <1>b, <2>4, <3>1 DEF Ordered
      <3>2. CASE q \notin Visible(c)
        <4>1. d # c /\ q \in txStream[d] /\ txStream[c] = {}
          BY <1>c, <2>4, <3>2 DEF Visible
        <4>2. PICK p \in Visible(c) : SameKey(p, q)
          BY <2>0, <2>4, BelowPresent
        <4> QED
          BY <4>1, <4>2 DEF KeysUnique, SameKey, Visible
      <3> QED
        BY <3>1, <3>2
    <2> QED
      BY <2>1, <2>2, <2>3, <2>4
  <1>1. ASSUME NEW d \in Clients, NEW r \in Visible(d)', NEW q \in Visible(d)'
        PROVE  Ordered(r, q)
    <2>1. CASE Quiet
      <3>1. r.stream \in Kept => r \in Visible(d)
        BY <2>1 DEF Quiet, Visible
      <3>2. q.stream \in Kept => q \in Visible(d)
        BY <2>1 DEF Quiet, Visible
      <3> QED
        BY <1>b, <3>1, <3>2 DEF Ordered
    <2>2. ASSUME NEW c \in Clients, Buffers(c) PROVE Ordered(r, q)
      <3>1. CASE d = c
        <4>1. Visible(c)' = Visible(c) \cup inserting[c]
          BY <2>2 DEF Buffers, Visible, TypeOK
        <4> QED
          BY <1>c, <2>2, <3>1, <4>1 DEF Buffers
      <3>2. CASE d # c
        BY <1>b, <2>2, <3>2 DEF Buffers, Visible, TypeOK
      <3> QED
        BY <3>1, <3>2
    <2>3. ASSUME NEW c \in Clients, Autocommits(c) PROVE Ordered(r, q)
      <3>1. Visible(d)' = Visible(d) \cup inserting[c]
        BY <2>3 DEF Autocommits, Visible
      <3> QED
        BY <1>c, <2>3, <3>1 DEF Autocommits
    <2>4. ASSUME NEW c \in Clients, Commits(c) PROVE Ordered(r, q)
      <3>1. CASE d = c
        <4>1. Visible(c)' = Visible(c)
          BY <2>4 DEF Commits, Visible, TypeOK
        <4> QED
          BY <1>b, <3>1, <4>1
      <3>2. CASE d # c
        <4>1. Visible(d)' = Visible(d) \cup txStream[c]
          BY <2>4, <3>2 DEF Commits, Visible, TypeOK
        <4>2. ASSUME NEW a \in txStream[c], NEW b \in txStream[d]
              PROVE  Ordered(a, b) /\ Ordered(b, a)
          BY <3>2, OneHolder DEF Ordered
        <4>3. r \in Visible(c) \/ r \in txStream[d]
          BY <4>1 DEF Visible
        <4>4. q \in Visible(c) \/ q \in txStream[d]
          BY <4>1 DEF Visible
        <4> QED
          BY <1>b, <4>1, <4>2, <4>3, <4>4 DEF Visible
      <3> QED
        BY <3>1, <3>2
    <2> QED
      BY <2>1, <2>2, <2>3, <2>4, StepRows
  <1>2. ASSUME NEW d \in Clients, NEW r \in inserting'[d], NEW q \in Visible(d)'
        PROVE  Ordered(r, q)
    <2>0. TxOwned'
      BY StepTxOwned
    <2>1. CASE pc'[d] = "idle" \/ Between(d)
      BY <1>2, <2>0, <2>1 DEF TxOwned, Between
    <2>2. CASE StartInsert(d)
      <3>1. r.id = lastId + 1 /\ q \in Visible(d)
        BY <1>2, <2>2 DEF StartInsert, Visible, TypeOK
      <3>2. q.id \in Nat /\ q.id <= lastId
        BY <1>a, <3>1 DEF IdsOrdered, Visible, Row
      <3> QED
        BY <3>1, <3>2 DEF Ordered, TypeOK
    <2>3. CASE ReadLastVersion(d)
      <3>1. inserting'[d] = {}
        BY <2>3 DEF ReadLastVersion, MoreToInsert, TxOwned
      <3> QED
        BY <1>2, <3>1
    <2>4. CASE Unmoved(d) /\ pc'[d] # "idle"
      <3>1. r \in inserting[d] /\ r \in Row
        BY <1>2, <1>a, <2>4 DEF Unmoved
      <3>2. q \in Visible(d) \/ \E c \in Clients \ {d} :
                /\ q \in Row
                /\ \/ q \in txStream[c]
                   \/ q \in inserting[c] /\ (FinishInsert(c) \/ LinkUnacknowledged(c))
        <4>1. CASE Quiet
          BY <1>2, <4>1 DEF Quiet, Visible
        <4>2. ASSUME NEW c \in Clients, FinishInsert(c) \/ LinkUnacknowledged(c)
              PROVE  c # d
          BY <2>4, <4>2 DEF FinishInsert, LinkUnacknowledged, Return, Unmoved,
                            TypeOK
        <4>3. ASSUME NEW c \in Clients, Buffers(c)
              PROVE  q \in Visible(d)
          BY <1>2, <4>2, <4>3 DEF Buffers, Visible, TypeOK
        <4>4. ASSUME NEW c \in Clients, Autocommits(c)
              PROVE  c # d /\ q \in Visible(d) \cup inserting[c]
          BY <1>2, <4>2, <4>4 DEF Autocommits, Visible
        <4>5. ASSUME NEW c \in Clients, Commits(c)
              PROVE  c # d /\ q \in Visible(d) \cup txStream[c]
          BY <1>2, <2>4, <4>5 DEF Commits, Commit, Return, Visible, TypeOK
        <4> QED
          BY <1>a, <4>1, <4>3, <4>4, <4>5, StepRows DEF Autocommits
      <3>3. CASE q \in Visible(d)
        BY <1>b, <3>1, <3>3
      <3>4. ASSUME NEW c \in Clients \ {d}, q \in Row,
                   \/ q \in txStream[c]
                   \/ q \in inserting[c] /\ (FinishInsert(c) \/ LinkUnacknowledged(c))
            PROVE  Ordered(r, q)
        <4> SUFFICES ASSUME r.stream = q.stream, r.stream \in Kept,
                            q.version < r.version
                     PROVE  FALSE
          BY DEF Ordered
        <4>1. PICK p \in Visible(d) : SameKey(p, q)
          BY <3>1, <3>4, BelowPresent
        <4>2. CASE q \in txStream[c]
          BY <4>1, <4>2 DEF KeysUnique, SameKey, Visible
        <4>3. CASE q \in inserting[c] /\ (FinishInsert(c) \/ LinkUnacknowledged(c))
          BY <4>1, <4>3, InsertFree DEF SameKey, Visible
        <4> QED
          BY <3>4, <4>2, <4>3
      <3> QED
        BY <3>2, <3>3, <3>4
    <2> QED
      BY <2>1, <2>2, <2>3, <2>4, LocalState
  <1> QED
    BY <1>1, <1>2, StepIdsBounded DEF IdsOrdered, Ordered

-----------------------------------------------------------------------------
(* The invariant and what it gives.                                        *)

\* The invariant holds of empty tables.
LEMMA InitWriterInv == Init => WriterInv
  BY DEF Init, WriterInv, InBatch, TxOwned, KeysUnique, VisibleContiguous,
         LastStillVisible, ExpectedCompared, IdsOrdered, NoGaps, RowsOf,
         Visible, NoCall

\* Every step keeps the invariant.
LEMMA StepWriterInv == TypeOK /\ WriterInv /\ [Next]_vars => WriterInv'
  BY StepInBatch, StepTxOwned, StepKeysUnique, StepVisibleContiguous,
     StepLastStillVisible, StepExpectedCompared, StepIdsOrdered
  DEF WriterInv

\* The facts about keys, gaps and ids hold between any two statements, of any
\* number of goroutines.
THEOREM WriterInvariant == Spec => []WriterInv
  <1>1. Init => TypeOK /\ WriterInv
    BY InitTyping, InitWriterInv
  <1>2. TypeOK /\ WriterInv /\ [Next]_vars => (TypeOK /\ WriterInv)'
    BY StepTyping, StepWriterInv DEF WriterInv
  <1> QED
    BY <1>1, <1>2, PTL DEF Spec

\* Versions of a kept stream are 1, 2, 3, ... each given once.
THEOREM Contiguous == Spec => []VersionsContiguous
  <1>1. WriterInv => VersionsContiguous
    BY DEF WriterInv, KeysUnique, VisibleContiguous, NoGaps, VersionsContiguous,
           RowsOf
  <1> QED
    BY <1>1, WriterInvariant, PTL

\* Replay by event_stream.id is replay by version.
THEOREM ReplayInOrder == Spec => []ReplayOrder
  <1>1. ASSUME TypeOK, WriterInv PROVE ReplayOrder
    <2> SUFFICES ASSUME NEW s \in Kept, NEW r \in RowsOf(eventStream, s),
                        NEW q \in RowsOf(eventStream, s)
                 PROVE  r.version < q.version <=> r.id < q.id
      BY DEF ReplayOrder
    <2>1. PICK c \in Clients : TRUE
      BY RepositoryAssumption
    <2>2. /\ r \in Visible(c) /\ q \in Visible(c)
          /\ r.stream = s /\ q.stream = s
          /\ r \in Row /\ q \in Row
      BY <1>1 DEF RowsOf, Visible, TypeOK, Kept
    <2>3. /\ r.version < q.version => r.id < q.id
          /\ q.version < r.version => q.id < r.id
      BY <1>1, <2>2 DEF WriterInv, IdsOrdered, Kept
    <2>4. r.version = q.version => r = q
      BY <1>1, <2>2 DEF WriterInv, KeysUnique, SameKey, RowsOf
    <2> QED
      BY <2>2, <2>3, <2>4 DEF Row
  <1> QED
    BY <1>1, WriterInvariant, TypeCorrect, PTL

\* Where the rows a step commits come from.
LEMMA NewRows ==
    ASSUME TypeOK, TxOwned, [Next]_vars, NEW q \in eventStream' \ eventStream
    PROVE  \E c \in Clients :
              \/ q \in txStream[c]
              \/ q \in inserting[c] /\ (FinishInsert(c) \/ LinkUnacknowledged(c))
  BY StepRows DEF Quiet, Buffers, Autocommits, Commits

\* No step removes a row of a kept stream.
LEMMA KeptRowsStay ==
    ASSUME TypeOK, TxOwned, [Next]_vars, NEW s \in Kept
    PROVE  RowsOf(eventStream, s) \subseteq RowsOf(eventStream', s)
  BY StepRows DEF Quiet, Buffers, Autocommits, Commits, RowsOf

\* One step puts new rows of a kept stream after the old ones.
LEMMA StepAppendOnly ==
    ASSUME TypeOK, WriterInv, [Next]_vars, NEW s \in Kept,
           NEW r \in RowsOf(eventStream, s),
           NEW q \in RowsOf(eventStream', s) \ RowsOf(eventStream, s)
    PROVE  r.version < q.version /\ r.id < q.id
  <1> USE DEF WriterInv
  <1>1. /\ q \in eventStream' \ eventStream /\ r \in eventStream
        /\ q.stream = s /\ r.stream = s
    BY DEF RowsOf
  <1>2. PICK c \in Clients :
              \/ q \in txStream[c]
              \/ q \in inserting[c] /\ (FinishInsert(c) \/ LinkUnacknowledged(c))
    BY <1>1, NewRows
  <1>3. r \in Row /\ q \in Row /\ r \in Visible(c)
    BY <1>1, <1>2 DEF TypeOK, Visible
  <1>4. \A p \in eventStream : ~SameKey(p, q)
    BY <1>2, InsertFree DEF KeysUnique, SameKey, Visible
  <1>5. r.version < q.version
    <2>1. r.version # q.version
      BY <1>1, <1>4 DEF SameKey
    <2>2. ASSUME q.version < r.version PROVE FALSE
      <3>1. q.version \in 1..r.version
        BY <1>3, <2>2 DEF Row
      <3>2. q.version \in Versions(eventStream, s)
        BY <3>1 DEF VisibleContiguous, NoGaps
      <3> QED
        BY <1>1, <1>4, <3>2 DEF Versions, RowsOf, SameKey
    <2> QED
      BY <1>3, <2>1, <2>2 DEF Row
  <1>6. q \in Visible(c) \cup inserting[c]
    BY <1>2 DEF Visible
  <1> QED
    BY <1>1, <1>3, <1>5, <1>6 DEF IdsOrdered

\* What is committed to a kept stream stays, and new rows come after it.
THEOREM AppendOnly == Spec => StreamAppendOnly
  <1>1. TypeOK /\ WriterInv /\ [Next]_vars =>
           [\A s \in Kept :
              /\ RowsOf(eventStream, s) \subseteq RowsOf(eventStream', s)
              /\ \A r \in RowsOf(eventStream, s) :
                    \A q \in RowsOf(eventStream', s) \ RowsOf(eventStream, s) :
                       r.version < q.version /\ r.id < q.id]_vars
    BY KeptRowsStay, StepAppendOnly DEF WriterInv
  <1> QED
    BY <1>1, WriterInvariant, TypeCorrect, PTL DEF Spec, StreamAppendOnly

\* One step commits rows only right after the version their caller expected.
LEMMA StepExpectedHonoured ==
    ASSUME TypeOK, WriterInv, [Next]_vars, NEW c \in Clients,
           NEW r \in eventStream' \ eventStream,
           r \in txStream[c] \cup inserting[c], r.stream \in Kept,
           call[c].expected # {}
    PROVE  /\ call[c].expected = {r.version - 1}
           /\ IsLastVersion(eventStream, r.stream, r.version - 1)
  <1> USE DEF WriterInv
  <1>1. r \in Row /\ eventStream \subseteq Row /\ txStream[c] \subseteq Row
    BY DEF TypeOK
  <1>2. call[c].expected = {r.version - 1}
    BY DEF ExpectedCompared
  <1>3. r.version - 1 \in {0} \cup Versions(Visible(c), r.stream)
    <2>1. CASE r \in inserting[c]
      BY <2>1 DEF LastStillVisible, TxOwned
    <2>2. CASE r \in txStream[c] /\ r.version # 1
      <3>1. r \in RowsOf(Visible(c), r.stream) /\ r.version - 1 \in 1..r.version
        BY <1>1, <2>2 DEF RowsOf, Visible, Row
      <3> QED
        BY <3>1 DEF VisibleContiguous, NoGaps
    <2> QED
      BY <1>1, <2>1, <2>2 DEF Row
  <1>4. r.version - 1 \in {0} \cup Versions(eventStream, r.stream)
    <2> SUFFICES ASSUME NEW p \in txStream[c], p.version = r.version - 1
                 PROVE  FALSE
      BY <1>3 DEF Versions, RowsOf, Visible
    <2>1. call[c].expected \subseteq {p.version - 1}
      BY DEF ExpectedCompared
    <2> QED
      BY <1>1, <1>2, <2>1 DEF Row
  <1>5. ASSUME NEW w \in Versions(eventStream, r.stream) PROVE w <= r.version - 1
    <2>1. PICK p \in RowsOf(eventStream, r.stream) : p.version = w
      BY DEF Versions
    <2>2. p \in Row /\ r \in RowsOf(eventStream', r.stream)
      BY <1>1, <2>1 DEF RowsOf
    <2>3. p.version < r.version
      BY <2>1, <2>2, StepAppendOnly DEF RowsOf
    <2> QED
      BY <1>1, <2>1, <2>2, <2>3 DEF Row
  <1> QED
    BY <1>2, <1>4, <1>5 DEF IsLastVersion

\* A caller's expectedVersion is the last committed version at the moment its
\* rows become visible: no update of another writer is lost.
THEOREM OptimisticConcurrency == Spec => ExpectedVersionHonoured
  <1>1. TypeOK /\ WriterInv /\ [Next]_vars =>
           [\A c \in Clients : \A r \in eventStream' \ eventStream :
              /\ r \in txStream[c] \cup inserting[c]
              /\ r.stream \in Kept
              /\ call[c].expected # {}
              => /\ call[c].expected = {r.version - 1}
                 /\ IsLastVersion(eventStream, r.stream, r.version - 1)]_vars
    BY StepExpectedHonoured
  <1> QED
    BY <1>1, WriterInvariant, TypeCorrect, PTL DEF Spec, ExpectedVersionHonoured
=============================================================================
